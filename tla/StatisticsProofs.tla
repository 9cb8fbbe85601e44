-------------------------- MODULE StatisticsProofs --------------------------
(***************************************************************************)
(* What is made of a file of statistics: the tree that the JSON parser and *)
(* its consumers build, for any text, any limits of the parser and any     *)
(* nesting; and what a client of get_hottest is sent, for any hits, any    *)
(* number of sessions and requests and any number of rankings built        *)
(* meanwhile.                                                              *)
(***************************************************************************)
EXTENDS HitsRanking, JsonParser, SequenceLemmas, SequenceTheorems

-----------------------------------------------------------------------------
(* Rankings                                                                *)

Keys == ToSet(KeyOrder)
Entries == [total : Int, key : Keys]
Memos == UNION {[K -> [pc : Int, mobile : Int]] : K \in SUBSET Keys}

(* The records of the keys K, lowest first.                                *)
SortOf(sort, memo, K) ==
  /\ \A i \in DOMAIN sort : sort[i].key \in K /\ sort[i].total = Total(memo[sort[i].key])
  /\ \A i, j \in DOMAIN sort : sort[i].key = sort[j].key => i = j
  /\ \A k \in K : \E i \in DOMAIN sort : sort[i].key = k
  /\ \A i, j \in DOMAIN sort : i < j => sort[i].total <= sort[j].total

LEMMA MapsAreMemos == \A m : IsMap(m) => m \in Memos
  BY DEF IsMap, Memos, Keys

LEMMA MemoHas ==
  ASSUME NEW memo \in Memos
  PROVE  DOMAIN memo \subseteq Keys /\ \A k \in DOMAIN memo : Total(memo[k]) \in Int
  BY DEF Memos, Total

LEMMA EntriesHave ==
  ASSUME NEW sort \in Seq(Entries)
  PROVE  /\ Len(sort) \in Nat /\ DOMAIN sort = 1 .. Len(sort)
         /\ \A i \in 1 .. Len(sort) : sort[i].total \in Int /\ sort[i].key \in Keys
<1>1. Len(sort) \in Nat /\ DOMAIN sort = 1 .. Len(sort)
  OBVIOUS
<1>2. \A i \in 1 .. Len(sort) : sort[i] \in Entries
  OBVIOUS
<1> QED
  BY <1>1, <1>2 DEF Entries

(* In an ascending sequence, there is a place before which all others are  *)
(* at most the total, and from which on none is.                           *)
LEMMA UpperBoundIs ==
  ASSUME NEW sorted \in Seq(Entries), NEW total \in Int,
         \A i, j \in DOMAIN sorted : i < j => sorted[i].total <= sorted[j].total
  PROVE  /\ UpperBound(sorted, total) \in 1 .. Len(sorted) + 1
         /\ \A i \in DOMAIN sorted : sorted[i].total <= total <=> i < UpperBound(sorted, total)
<1> DEFINE n == Len(sorted)
           Is(p) == \A i \in DOMAIN sorted : sorted[i].total <= total <=> i < p
           T == {p \in 1 .. n + 1 : p = n + 1 \/ ~(sorted[p].total <= total)}
<1>1. n \in Nat /\ DOMAIN sorted = 1 .. n /\ \A i \in 1 .. n : sorted[i].total \in Int
  BY EntriesHave
<1>2. n + 1 \in T /\ T \in SUBSET Nat
  BY <1>1
<1>3. PICK p \in T : \A q \in T : p <= q
  BY <1>2, LeastExists
<1>4. p \in 1 .. n + 1 /\ Is(p)
  <2> SUFFICES ASSUME NEW i \in 1 .. n PROVE sorted[i].total <= total <=> i < p
    BY <1>1
  <2>1. ASSUME i < p PROVE sorted[i].total <= total
    <3>1. i \notin T /\ i \in 1 .. n + 1
      BY <1>1, <1>3, <2>1
    <3> QED
      BY <3>1
  <2>2. ASSUME ~(i < p) PROVE ~(sorted[i].total <= total)
    <3>1. p \in 1 .. n /\ ~(sorted[p].total <= total)
      BY <1>1, <1>3, <2>2
    <3>2. p = i \/ sorted[p].total <= sorted[i].total
      BY <1>1, <2>2, <3>1
    <3> QED
      BY <1>1, <3>1, <3>2
  <2> QED
    BY <2>1, <2>2
<1> HIDE DEF Is
<1>5. \E q \in 1 .. n + 1 : Is(q)
  BY <1>4
<1>6. UpperBound(sorted, total) = CHOOSE q \in 1 .. n + 1 : Is(q)
  BY DEF UpperBound, Is
<1>7. UpperBound(sorted, total) \in 1 .. n + 1 /\ Is(UpperBound(sorted, total))
  BY <1>5, <1>6
<1> QED
  BY <1>7 DEF Is

LEMMA InsertAtIs ==
  ASSUME NEW S, NEW s \in Seq(S), NEW p \in 1 .. Len(s) + 1, NEW e \in S
  PROVE  /\ InsertAt(s, p, e) \in Seq(S) /\ Len(InsertAt(s, p, e)) = Len(s) + 1
         /\ \A k \in 1 .. Len(s) + 1 :
              InsertAt(s, p, e)[k] = IF k < p THEN s[k] ELSE IF k = p THEN e ELSE s[k - 1]
<1>0. PICK n \in Nat : n = Len(s)
  OBVIOUS
<1> DEFINE a == SubSeq(s, 1, p - 1)
           b == SubSeq(s, p, n)
           c == a \o <<e>>
<1>1. a \in Seq(S) /\ Len(a) = p - 1 /\ \A k \in 1 .. p - 1 : a[k] = s[k]
  BY <1>0
<1>2. b \in Seq(S) /\ Len(b) = n - p + 1 /\ \A k \in 1 .. n - p + 1 : b[k] = s[p + k - 1]
  BY <1>0
<1> HIDE DEF a, b
<1>3. c \in Seq(S) /\ Len(c) = p /\ \A k \in 1 .. p : c[k] = IF k < p THEN s[k] ELSE e
  BY <1>0, <1>1
<1> HIDE DEF c
<1>4. c \o b \in Seq(S) /\ Len(c \o b) = n + 1
  <2>1. p \in Int
    OBVIOUS
  <2>2. c \o b \in Seq(S) /\ Len(c \o b) = Len(c) + Len(b)
    BY <1>2, <1>3
  <2> QED
    BY <1>0, <1>2, <1>3, <2>1, <2>2
<1>7. \A k \in 1 .. n + 1 : (c \o b)[k] = IF k <= p THEN c[k] ELSE b[k - p]
  BY <1>0, <1>2, <1>3
<1>5. \A k \in 1 .. n + 1 : k > p => k - p \in 1 .. n - p + 1 /\ p + (k - p) - 1 = k - 1
  BY <1>0
<1>6. InsertAt(s, p, e) = c \o b
  BY <1>0 DEF InsertAt, a, b, c
<1> QED
  BY <1>0, <1>2, <1>3, <1>4, <1>5, <1>6, <1>7

LEMMA InsertedIsSorted ==
  ASSUME NEW memo \in Memos, NEW sort \in Seq(Entries), NEW K \in SUBSET DOMAIN memo,
         SortOf(sort, memo, K), NEW k \in DOMAIN memo, k \notin K
  PROVE  LET new == Inserted(sort, [total |-> Total(memo[k]), key |-> k])
         IN new \in Seq(Entries) /\ SortOf(new, memo, K \cup {k})
<1> DEFINE n == Len(sort)
           e == [total |-> Total(memo[k]), key |-> k]
           p == UpperBound(sort, e.total)
           new == InsertAt(sort, p, e)
<1>1. n \in Nat /\ DOMAIN sort = 1 .. n /\ \A i \in 1 .. n : sort[i].total \in Int
  BY EntriesHave
<1>2. e \in Entries /\ e.total \in Int /\ e.key = k /\ e.total = Total(memo[k])
  BY MemoHas DEF Entries
<1> HIDE DEF e
<1>3. p \in 1 .. n + 1 /\ \A i \in 1 .. n : sort[i].total <= e.total <=> i < p
  BY <1>1, <1>2, UpperBoundIs DEF SortOf
<1> HIDE DEF p
<1>4. /\ new \in Seq(Entries) /\ Len(new) = n + 1
      /\ \A i \in 1 .. n + 1 : new[i] = IF i < p THEN sort[i] ELSE IF i = p THEN e ELSE sort[i - 1]
  BY <1>2, <1>3, InsertAtIs
<1> HIDE DEF new
<1>5. DOMAIN new = 1 .. n + 1
  BY <1>1, <1>4
<1>6. \A i \in 1 .. n : sort[i].key \in K /\ sort[i].total = Total(memo[sort[i].key])
  BY <1>1 DEF SortOf
<1>7. \A i \in DOMAIN new : new[i].key \in K \cup {k} /\ new[i].total = Total(memo[new[i].key])
  <2> SUFFICES ASSUME NEW i \in 1 .. n + 1
               PROVE  new[i].key \in K \cup {k} /\ new[i].total = Total(memo[new[i].key])
    BY <1>5
  <2>1. CASE i < p
    BY <1>1, <1>3, <1>4, <1>6, <2>1
  <2>2. CASE i = p
    BY <1>2, <1>3, <1>4, <2>2
  <2>3. CASE i > p
    <3>1. i - 1 \in 1 .. n /\ new[i] = sort[i - 1]
      BY <1>1, <1>3, <1>4, <2>3
    <3> QED
      BY <1>6, <3>1
  <2> QED
    BY <1>3, <2>1, <2>2, <2>3
<1>8. \A i, j \in DOMAIN new : new[i].key = new[j].key => i = j
  <2> SUFFICES ASSUME NEW i \in 1 .. n + 1, NEW j \in 1 .. n + 1, i < j, new[i].key = new[j].key
               PROVE  FALSE
    BY <1>1, <1>5
  <2>0. \A a, b \in 1 .. n : sort[a].key = sort[b].key => a = b
    BY <1>1 DEF SortOf
  <2>1. \A a \in 1 .. n : sort[a].key # k
    BY <1>6
  <2>2. /\ i < p => i \in 1 .. n /\ new[i] = sort[i]
        /\ i = p => new[i].key = k
        /\ i > p => i - 1 \in 1 .. n /\ new[i] = sort[i - 1]
    BY <1>1, <1>2, <1>3, <1>4
  <2>3. /\ j < p => j \in 1 .. n /\ new[j] = sort[j]
        /\ j = p => new[j].key = k
        /\ j > p => j - 1 \in 1 .. n /\ new[j] = sort[j - 1]
    BY <1>1, <1>2, <1>3, <1>4
  <2> QED
    BY <1>1, <1>3, <2>0, <2>1, <2>2, <2>3
<1>9. \A x \in K \cup {k} : \E i \in DOMAIN new : new[i].key = x
  <2> SUFFICES ASSUME NEW x \in K \cup {k} PROVE \E i \in 1 .. n + 1 : new[i].key = x
    BY <1>5
  <2>1. CASE x = k
    BY <1>2, <1>3, <1>4, <2>1
  <2>2. CASE x \in K
    <3>1. PICK a \in 1 .. n : sort[a].key = x
      BY <1>1, <2>2 DEF SortOf
    <3>2. CASE a < p
      BY <1>1, <1>3, <1>4, <3>1, <3>2
    <3>3. CASE a >= p
      <4>1. a + 1 \in 1 .. n + 1 /\ new[a + 1] = sort[a]
        BY <1>1, <1>3, <1>4, <3>3
      <4> QED
        BY <3>1, <4>1
    <3> QED
      BY <1>3, <3>2, <3>3
  <2> QED
    BY <2>1, <2>2
<1>10. \A i, j \in DOMAIN new : i < j => new[i].total <= new[j].total
  <2> SUFFICES ASSUME NEW i \in 1 .. n + 1, NEW j \in 1 .. n + 1, i < j
               PROVE  new[i].total <= new[j].total
    BY <1>5
  <2>0. \A a, b \in 1 .. n : a < b => sort[a].total <= sort[b].total
    BY <1>1 DEF SortOf
  <2>2. /\ i < p => i \in 1 .. n /\ new[i] = sort[i]
        /\ i = p => new[i].total = e.total
        /\ i > p => i - 1 \in 1 .. n /\ new[i] = sort[i - 1]
    BY <1>1, <1>2, <1>3, <1>4
  <2>3. /\ j < p => j \in 1 .. n /\ new[j] = sort[j]
        /\ j = p => new[j].total = e.total
        /\ j > p => j - 1 \in 1 .. n /\ new[j] = sort[j - 1]
    BY <1>1, <1>2, <1>3, <1>4
  <2>4. CASE j < p
    BY <1>1, <1>3, <2>0, <2>2, <2>3, <2>4
  <2>5. CASE j = p
    BY <1>1, <1>3, <2>0, <2>2, <2>3, <2>5
  <2>6. CASE j > p /\ i < p
    <3>1. ~(sort[j - 1].total <= e.total) /\ sort[i].total <= e.total
      BY <1>1, <1>3, <2>2, <2>3, <2>6
    <3> QED
      BY <1>1, <1>2, <2>2, <2>3, <2>6, <3>1
  <2>7. CASE j > p /\ i = p
    <3>1. ~(sort[j - 1].total <= e.total)
      BY <1>1, <1>3, <2>2, <2>3, <2>7
    <3> QED
      BY <1>1, <1>2, <2>2, <2>3, <2>7, <3>1
  <2>8. CASE j > p /\ i > p
    BY <1>1, <1>3, <2>0, <2>2, <2>3, <2>8
  <2> QED
    BY <1>3, <2>4, <2>5, <2>6, <2>7, <2>8
<1>11. SortOf(new, memo, K \cup {k})
  BY <1>7, <1>8, <1>9, <1>10 DEF SortOf
<1>12. Inserted(sort, [total |-> Total(memo[k]), key |-> k]) = new
  BY DEF Inserted, new, p, e
<1> QED
  BY <1>4, <1>11, <1>12

-----------------------------------------------------------------------------
(* Files and sessions                                                      *)

Units == {<<"foot">>} \cup ({"head"} \X Int \X Int) \cup ({"record"} \X Keys \X Int)
Writing == {"size", "print", "close"}
Sending == {"send", "sent"}
Sessions ==
  [pc : {"idle"} \cup Writing \cup Sending, num : Int, return_num : Int, iter : Nat,
   printed : Seq(Units), sent : Seq(Units), memo : Memos, rebuilt : BOOLEAN, mixed : BOOLEAN]

(* The rank-th record, and how many of them there are, in a given ranking. *)
RecordIn(sort, rank) ==
  <<"record", sort[Len(sort) + 1 - rank].key, sort[Len(sort) + 1 - rank].total>>
NumIn(sort, n) == IF Len(sort) < n THEN Len(sort) ELSE n

(* The best of a ranking are a ranking of the records it was made from.    *)
LEMMA BestAreRanking ==
  ASSUME NEW memo \in Memos, NEW sort \in Seq(Entries), SortOf(sort, memo, DOMAIN memo),
         NEW n \in Nat \ {0}, NEW recs \in Seq(Units), Len(recs) = NumIn(sort, n),
         \A i \in 1 .. Len(recs) : recs[i] = RecordIn(sort, i)
  PROVE  IsRanking(recs, memo, n)
<1>0. PICK l \in Nat : l = Len(sort)
  OBVIOUS
<1>1. PICK m \in Nat : m = Len(recs)
  OBVIOUS
<1>2. m = IF l < n THEN l ELSE n
  BY <1>0, <1>1 DEF NumIn
<1> DEFINE total == [k \in DOMAIN memo |-> memo[k].pc + memo[k].mobile]
           keys == {recs[i][2] : i \in DOMAIN recs}
<1>3. DOMAIN recs = 1 .. m /\ DOMAIN sort = 1 .. l
  BY <1>0, <1>1
<1>4. \A i \in 1 .. m : l + 1 - i \in 1 .. l /\ recs[i][2] = sort[l + 1 - i].key /\ recs[i][3] = sort[l + 1 - i].total
  BY <1>0, <1>1, <1>2 DEF RecordIn
<1>5. \A i \in 1 .. l : sort[i].key \in DOMAIN memo /\ sort[i].total = Total(memo[sort[i].key]) /\ sort[i].total \in Int
  BY <1>0, <1>3, EntriesHave DEF SortOf
<1>6. \A i, j \in 1 .. l : sort[i].key = sort[j].key => i = j
  BY <1>3 DEF SortOf
<1>7. \A k \in DOMAIN memo : \E i \in 1 .. l : sort[i].key = k
  BY <1>3 DEF SortOf
<1>8. \A i, j \in 1 .. l : i < j => sort[i].total <= sort[j].total
  BY <1>3 DEF SortOf
<1>9. \A k \in DOMAIN memo : total[k] = Total(memo[k])
  <2> SUFFICES ASSUME NEW k \in DOMAIN memo PROVE memo[k].pc + memo[k].mobile = memo[k].mobile + memo[k].pc
    BY DEF Total
  <2>1. memo[k].pc \in Int /\ memo[k].mobile \in Int
    BY DEF Memos
  <2> QED
    BY <2>1
<1> HIDE DEF total
<1>10. Cardinality(DOMAIN memo) = l
  <2> DEFINE f == [i \in 1 .. l |-> sort[i].key]
  <2>1. f \in [1 .. l -> DOMAIN memo]
    BY <1>5
  <2>2. \A i, j \in 1 .. l : f[i] = f[j] => i = j
    BY <1>6
  <2>3. \A k \in DOMAIN memo : \E i \in 1 .. l : f[i] = k
    BY <1>7
  <2> HIDE DEF f
  <2>4. l \in Nat
    BY <1>0
  <2>5. IsFiniteSet(DOMAIN memo) /\ Cardinality(DOMAIN memo) = l
    BY <2>1, <2>2, <2>3, <2>4, OnceCount
  <2> QED
    BY <2>5
<1>11. Cardinality(keys) = m
  <2> DEFINE f == [i \in 1 .. m |-> recs[i][2]]
  <2>1. f \in [1 .. m -> keys] /\ \A k \in keys : \E i \in 1 .. m : f[i] = k
    BY <1>3
  <2>2. \A i, j \in 1 .. m : f[i] = f[j] => i = j
    <3> SUFFICES ASSUME NEW i \in 1 .. m, NEW j \in 1 .. m, recs[i][2] = recs[j][2] PROVE i = j
      OBVIOUS
    <3>1. l + 1 - i = l + 1 - j
      BY <1>4, <1>6
    <3> QED
      BY <3>1
  <2> HIDE DEF f, keys
  <2>3. m \in Nat
    BY <1>1
  <2>4. IsFiniteSet(keys) /\ Cardinality(keys) = m
    BY <2>1, <2>2, <2>3, OnceCount
  <2> QED
    BY <2>4
<1>12. keys \subseteq DOMAIN memo
  BY <1>3, <1>4, <1>5
<1>13. \A i \in DOMAIN recs : recs[i][3] = total[recs[i][2]]
  BY <1>3, <1>4, <1>5, <1>9
<1>14. \A i, j \in DOMAIN recs : i < j => recs[i][3] >= recs[j][3]
  <2> SUFFICES ASSUME NEW i \in 1 .. m, NEW j \in 1 .. m, i < j PROVE recs[i][3] >= recs[j][3]
    BY <1>3
  <2>1. l + 1 - j < l + 1 - i
    OBVIOUS
  <2> QED
    BY <1>4, <1>5, <1>8, <2>1
<1>15. \A k \in DOMAIN memo \ keys, i \in DOMAIN recs : total[k] <= recs[i][3]
  <2> SUFFICES ASSUME NEW k \in DOMAIN memo, k \notin keys, NEW i \in 1 .. m PROVE total[k] <= recs[i][3]
    BY <1>3
  <2>1. PICK a \in 1 .. l : sort[a].key = k
    BY <1>7
  <2>2. a < l + 1 - i
    <3> SUFFICES ASSUME a >= l + 1 - i PROVE FALSE
      OBVIOUS
    <3>1. l + 1 - a \in 1 .. m /\ l + 1 - (l + 1 - a) = a
      OBVIOUS
    <3>2. recs[l + 1 - a][2] = k
      BY <1>4, <2>1, <3>1
    <3> QED
      BY <1>3, <3>1, <3>2
  <2>3. sort[a].total <= sort[l + 1 - i].total
    BY <1>4, <1>8, <2>2
  <2> QED
    BY <1>4, <1>5, <1>9, <2>1, <2>3
<1> QED
  BY <1>1, <1>2, <1>10, <1>11, <1>12, <1>13, <1>14, <1>15 DEF IsRanking, total

-----------------------------------------------------------------------------
(* A session keeps what it has to say as long as the ranking it prints, or *)
(* the file it sends, is what it was.                                      *)

Printing(s, sort) == s.pc = "print" /\ ~s.rebuilt /\ s.num > 0 =>
  /\ SortOf(sort, s.memo, DOMAIN s.memo)
  /\ s.return_num = NumIn(sort, s.num)
  /\ s.iter = 0 \/ s.iter < s.return_num
  /\ \A i \in 1 .. s.iter : s.printed[i] = RecordIn(sort, i)
Printed(s) == s.pc = "close" /\ ~s.rebuilt /\ s.num > 0 =>
  s.return_num = Len(s.printed) /\ IsRanking(s.printed, s.memo, s.num)
FileIs(f, s) ==
  LET n == Len(f) IN
  /\ n > 1 /\ f[1] = <<"head", s.num, n - 2>> /\ f[n] = <<"foot">>
  /\ IsRanking(SubSeq(f, 2, n - 1), s.memo, s.num)
Sent(s, fs) == s.pc \in Sending /\ ~s.mixed =>
  /\ ~s.rebuilt /\ s.num > 0 => FileIs(fs[s.num], s)
  /\ Len(s.sent) <= Len(fs[s.num])
  /\ \A i \in 1 .. Len(s.sent) : s.sent[i] = fs[s.num][i]
  /\ s.pc = "sent" => Len(s.sent) = Len(fs[s.num])
Right(s, sort, fs) ==
  /\ s.pc # "idle" => s.num \in Nums
  /\ s.pc = "size" => s.iter = 0
  /\ s.pc \in Writing => s.iter = Len(s.printed) /\ s.sent = <<>>
  /\ Printing(s, sort) /\ Printed(s) /\ Sent(s, fs)

Marked(t, s) ==
  /\ t.pc = s.pc /\ t.num = s.num /\ t.return_num = s.return_num /\ t.iter = s.iter
  /\ t.printed = s.printed /\ t.sent = s.sent /\ t.memo = s.memo
  /\ s.rebuilt => t.rebuilt
  /\ s.mixed => t.mixed

LEMMA MarkedKeeps ==
  ASSUME NEW s, NEW t, NEW sort, NEW sort2, NEW fs, NEW fs2, Right(s, sort, fs), Marked(t, s),
         t.pc = "print" /\ ~t.rebuilt => sort2 = sort,
         t.pc \in Sending /\ ~t.mixed => fs2[t.num] = fs[t.num]
  PROVE  Right(t, sort2, fs2)
<1>1. Printing(t, sort2)
  BY DEF Right, Printing, Marked
<1>2. Printed(t)
  BY DEF Right, Printed, Marked
<1>3. Sent(t, fs2)
  <2> SUFFICES ASSUME t.pc \in Sending, ~t.mixed PROVE Sent(t, fs2)
    BY DEF Sent
  <2>1. s.pc \in Sending /\ ~s.mixed /\ fs2[t.num] = fs[s.num]
    BY DEF Marked
  <2>2. FileIs(fs[s.num], s) => FileIs(fs[s.num], t)
    BY DEF FileIs, Marked
  <2> QED
    BY <2>1, <2>2 DEF Right, Sent, Marked
<1> QED
  BY <1>1, <1>2, <1>3 DEF Right, Marked

-----------------------------------------------------------------------------
(* The invariant                                                           *)

Typed ==
  /\ g_hits_memo \in Memos /\ g_hits_sort \in Seq(Entries)
  /\ files \in [Nums -> Seq(Units)]
  /\ session \in [Readers -> Sessions]

(* The ranking is that of the records, as far as do_memo has inserted them.*)
Ranked ==
  /\ memoPc = "idle" => SortOf(g_hits_sort, g_hits_memo, DOMAIN g_hits_memo)
  /\ memoPc = "sort" => /\ toSort \subseteq DOMAIN g_hits_memo
                        /\ SortOf(g_hits_sort, g_hits_memo, DOMAIN g_hits_memo \ toSort)

(* Nobody writes the file of a session that is not mixed up with another,  *)
(* and its own file is empty until it closes it.                           *)
OwnFile ==
  \A r \in Readers : session[r].pc \in Writing \cup Sending /\ ~session[r].mixed =>
    /\ \A q \in Readers \ {r} : session[q].pc \in Writing => session[q].num # session[r].num
    /\ session[r].pc \in Writing => files[session[r].num] = <<>>

AllRight == \A r \in Readers : Right(session[r], g_hits_sort, files)

IInv == Typed /\ Ranked /\ OwnFile /\ AllRight

Stays(t, s) ==
  t.pc \in Writing \cup Sending =>
    /\ t.pc \in Writing <=> s.pc \in Writing
    /\ t.pc \in Sending <=> s.pc \in Sending
    /\ t.num = s.num
    /\ s.mixed => t.mixed

LEMMA OwnFileKeeps ==
  ASSUME OwnFile, files' = files, \A r \in Readers : Stays(session'[r], session[r])
  PROVE  OwnFile'
<1> SUFFICES ASSUME NEW r \in Readers, session'[r].pc \in Writing \cup Sending, ~session'[r].mixed
             PROVE  /\ \A q \in Readers \ {r} : session'[q].pc \in Writing => session'[q].num # session'[r].num
                    /\ session'[r].pc \in Writing => files[session'[r].num] = <<>>
  BY DEF OwnFile
<1>1. /\ session[r].pc \in Writing \cup Sending /\ ~session[r].mixed
      /\ session'[r].num = session[r].num
      /\ session'[r].pc \in Writing => session[r].pc \in Writing
  BY DEF Stays
<1>2. \A q \in Readers : session'[q].pc \in Writing => session[q].pc \in Writing /\ session'[q].num = session[q].num
  BY DEF Stays
<1> QED
  BY <1>1, <1>2 DEF OwnFile

LEMMA InitIsRight == Init => IInv
<1> SUFFICES ASSUME Init PROVE IInv
  OBVIOUS
<1> USE DEF Init
<1>1. g_hits_memo = NoRecords /\ g_hits_memo \in Memos /\ DOMAIN g_hits_memo = {}
  <2>1. NoRecords \in [{} -> [pc : Int, mobile : Int]] /\ DOMAIN NoRecords = {}
    BY DEF NoRecords
  <2>2. {} \in SUBSET Keys
    OBVIOUS
  <2> QED
    BY <2>1, <2>2 DEF Memos
<1>2. SessionInit \in Sessions
  BY <1>1 DEF SessionInit, Sessions
<1>3. Typed
  BY <1>1, <1>2 DEF Typed
<1>4. SortOf(g_hits_sort, g_hits_memo, DOMAIN g_hits_memo)
  BY <1>1 DEF SortOf
<1>5. \A r \in Readers : session[r].pc = "idle"
  BY DEF SessionInit
<1>6. OwnFile
  BY <1>5 DEF OwnFile, Writing, Sending
<1>7. AllRight
  BY <1>5 DEF AllRight, Right, Printing, Printed, Sent, Writing, Sending
<1> QED
  BY <1>3, <1>4, <1>6, <1>7 DEF IInv, Ranked

-----------------------------------------------------------------------------
(* The steps of do_memo                                                    *)

LEMMA MergeKeeps == IInv /\ Merge => IInv'
<1> SUFFICES ASSUME IInv, Merge PROVE IInv'
  OBVIOUS
<1>1. Typed'
  <2>1. g_hits_memo' \in Memos
    BY MergedAssumption, MapsAreMemos DEF Merge
  <2> QED
    BY <2>1 DEF Merge, IInv, Typed
<1>2. Ranked'
  BY DEF Merge, Ranked
<1>3. OwnFile'
  BY OwnFileKeeps DEF Merge, IInv, Stays
<1>4. AllRight'
  BY DEF Merge, IInv, AllRight
<1> QED
  BY <1>1, <1>2, <1>3, <1>4 DEF IInv

LEMMA DisturbMarks ==
  ASSUME Typed, Disturb
  PROVE  /\ session' \in [Readers -> Sessions]
         /\ \A r \in Readers : Marked(session'[r], session[r]) /\ (session'[r].pc = "print" => session'[r].rebuilt)
<1>1. session' = [r \in Readers |-> [session[r] EXCEPT !.rebuilt = @ \/ session[r].pc = "print"]]
  BY DEF Disturb
<1> SUFFICES ASSUME NEW r \in Readers
             PROVE  /\ session'[r] \in Sessions /\ Marked(session'[r], session[r])
                    /\ session'[r].pc = "print" => session'[r].rebuilt
  BY <1>1
<1> DEFINE s == session[r]
<1>2. s \in Sessions
  BY DEF Typed
<1>3. session'[r] = [s EXCEPT !.rebuilt = @ \/ s.pc = "print"]
  BY <1>1
<1> HIDE DEF s
<1>4. /\ session'[r].pc = s.pc /\ session'[r].num = s.num /\ session'[r].return_num = s.return_num
      /\ session'[r].iter = s.iter /\ session'[r].printed = s.printed /\ session'[r].sent = s.sent
      /\ session'[r].memo = s.memo /\ session'[r].mixed = s.mixed
  BY <1>2, <1>3 DEF Sessions
<1>5. session'[r].rebuilt = (s.rebuilt \/ s.pc = "print")
  BY <1>2, <1>3 DEF Sessions
<1>6. session'[r] \in Sessions
  BY <1>2, <1>3 DEF Sessions
<1> QED
  BY <1>4, <1>5, <1>6 DEF Marked, s

(* The steps that change the ranking, and so disturb whoever prints it.    *)
LEMMA DisturbKeeps ==
  ASSUME IInv, Disturb, files' = files
  PROVE  OwnFile' /\ AllRight'
<1>0. Typed /\ OwnFile /\ AllRight
  BY DEF IInv
<1>1. \A r \in Readers : Marked(session'[r], session[r]) /\ (session'[r].pc = "print" => session'[r].rebuilt)
  BY <1>0, DisturbMarks
<1>2. OwnFile'
  <2>1. \A r \in Readers : Stays(session'[r], session[r])
    BY <1>1 DEF Marked, Stays
  <2> QED
    BY <1>0, <2>1, OwnFileKeeps
<1>3. ASSUME NEW r \in Readers PROVE Right(session'[r], g_hits_sort', files')
  <2>1. Right(session[r], g_hits_sort, files)
    BY <1>0 DEF AllRight
  <2> QED
    BY <1>1, <2>1, MarkedKeeps
<1> QED
  BY <1>2, <1>3 DEF AllRight

LEMMA ClearSortKeeps == IInv /\ ClearSort => IInv'
<1> SUFFICES ASSUME IInv, ClearSort PROVE IInv'
  OBVIOUS
<1>1. OwnFile' /\ AllRight'
  BY DisturbKeeps DEF ClearSort
<1>2. Typed'
  <2>1. session' \in [Readers -> Sessions]
    BY DisturbMarks DEF IInv, ClearSort
  <2> QED
    BY <2>1 DEF ClearSort, IInv, Typed
<1>3. SortOf(<<>>, g_hits_memo, {})
  BY DEF SortOf
<1>4. Ranked'
  <2>1. DOMAIN g_hits_memo \ DOMAIN g_hits_memo = {}
    OBVIOUS
  <2> QED
    BY <1>3, <2>1 DEF ClearSort, Ranked
<1> QED
  BY <1>1, <1>2, <1>4 DEF IInv

LEMMA SortKeeps == IInv /\ hits_records_sort => IInv'
<1> SUFFICES ASSUME IInv, hits_records_sort PROVE IInv'
  OBVIOUS
<1>1. OwnFile' /\ AllRight'
  BY DisturbKeeps DEF hits_records_sort
<1>2. PICK k \in toSort :
        /\ g_hits_sort' = Inserted(g_hits_sort, [total |-> Total(g_hits_memo[k]), key |-> k])
        /\ toSort' = toSort \ {k}
  BY DEF hits_records_sort
<1> DEFINE K == DOMAIN g_hits_memo \ toSort
<1>3. /\ g_hits_memo \in Memos /\ g_hits_sort \in Seq(Entries)
      /\ memoPc = "sort" /\ memoPc' = "sort" /\ g_hits_memo' = g_hits_memo
      /\ toSort \subseteq DOMAIN g_hits_memo /\ SortOf(g_hits_sort, g_hits_memo, K)
  BY DEF IInv, Typed, Ranked, hits_records_sort
<1>4. K \in SUBSET DOMAIN g_hits_memo /\ k \in DOMAIN g_hits_memo /\ k \notin K
  BY <1>2, <1>3
<1>5. K \cup {k} = DOMAIN g_hits_memo' \ toSort'
  BY <1>2, <1>3
<1> HIDE DEF K
<1>6. g_hits_sort' \in Seq(Entries) /\ SortOf(g_hits_sort', g_hits_memo, K \cup {k})
  BY <1>2, <1>3, <1>4, InsertedIsSorted
<1>7. Ranked'
  BY <1>2, <1>3, <1>5, <1>6 DEF Ranked
<1>8. Typed'
  <2>1. session' \in [Readers -> Sessions]
    BY DisturbMarks DEF IInv, hits_records_sort
  <2>2. files' = files
    BY DEF hits_records_sort
  <2> QED
    BY <1>3, <1>6, <2>1, <2>2 DEF IInv, Typed
<1> QED
  BY <1>1, <1>7, <1>8 DEF IInv

LEMMA MemoDoneKeeps == IInv /\ MemoDone => IInv'
<1> SUFFICES ASSUME IInv, MemoDone PROVE IInv'
  OBVIOUS
<1>1. Typed'
  BY DEF MemoDone, IInv, Typed
<1>2. Ranked'
  <2>1. DOMAIN g_hits_memo \ {} = DOMAIN g_hits_memo
    OBVIOUS
  <2> QED
    BY <2>1 DEF MemoDone, IInv, Ranked
<1>3. OwnFile'
  BY OwnFileKeeps DEF MemoDone, IInv, Stays
<1>4. AllRight'
  BY DEF MemoDone, IInv, AllRight
<1> QED
  BY <1>1, <1>2, <1>3, <1>4 DEF IInv

-----------------------------------------------------------------------------
(* The steps of a session                                                  *)

(* A step of one session that writes no file.                              *)
LEMMA OthersKeep ==
  ASSUME IInv, NEW r \in Readers, NEW t \in Sessions, session' = [session EXCEPT ![r] = t],
         UNCHANGED <<memoVars, files>>,
         Stays(t, session[r]), Right(t, g_hits_sort, files)
  PROVE  IInv'
<1>0. Typed /\ Ranked /\ OwnFile /\ AllRight
  BY DEF IInv
<1>1. /\ g_hits_memo' = g_hits_memo /\ g_hits_sort' = g_hits_sort /\ memoPc' = memoPc
      /\ toSort' = toSort /\ files' = files
  BY DEF memoVars
<1>2. session' \in [Readers -> Sessions] /\ session'[r] = t /\ \A q \in Readers \ {r} : session'[q] = session[q]
  BY <1>0 DEF Typed
<1>3. Typed'
  BY <1>0, <1>1, <1>2 DEF Typed
<1>4. Ranked'
  BY <1>0, <1>1 DEF Ranked
<1>5. OwnFile'
  <2>1. \A q \in Readers : Stays(session'[q], session[q])
    <3>1. \A q \in Readers \ {r} : Stays(session'[q], session[q])
      BY <1>2 DEF Stays
    <3> QED
      BY <1>2, <3>1
  <2> QED
    BY <1>0, <1>1, <2>1, OwnFileKeeps
<1>6. AllRight'
  BY <1>0, <1>1, <1>2 DEF AllRight
<1> QED
  BY <1>3, <1>4, <1>5, <1>6 DEF IInv

LEMMA NumInIs == ASSUME NEW n PROVE ReturnNum(n) = NumIn(g_hits_sort, n)
  BY DEF ReturnNum, NumIn

LEMMA RecordInIs == ASSUME NEW i PROVE Record(i) = RecordIn(g_hits_sort, i)
  BY DEF Record, RecordIn

LEMMA SessionHas ==
  ASSUME IInv, NEW r \in Readers
  PROVE  session[r] \in Sessions /\ Right(session[r], g_hits_sort, files)
  BY DEF IInv, Typed, AllRight

LEMMA ReadSizeKeeps == ASSUME IInv, NEW r \in Readers, ReadSize(r) PROVE IInv'
<1> DEFINE s == session[r]
           t == [s EXCEPT !.pc = "print", !.return_num = ReturnNum(s.num),
                          !.memo = g_hits_memo, !.rebuilt = memoPc # "idle"]
<1>1. s \in Sessions /\ Right(s, g_hits_sort, files) /\ s.pc = "size"
  BY SessionHas DEF ReadSize
<1>2. session' = [session EXCEPT ![r] = t] /\ UNCHANGED <<memoVars, files>>
  BY DEF ReadSize
<1>3. ReturnNum(s.num) \in Int /\ g_hits_memo \in Memos
  BY <1>1 DEF IInv, Typed, ReturnNum, Sessions
<1>0. memoPc = "idle" => SortOf(g_hits_sort, g_hits_memo, DOMAIN g_hits_memo)
  BY DEF IInv, Ranked
<1> HIDE DEF s
<1>4. t \in Sessions
  BY <1>1, <1>3 DEF Sessions, Writing
<1>5. /\ t.pc = "print" /\ t.num = s.num /\ t.return_num = ReturnNum(s.num) /\ t.iter = s.iter
      /\ t.printed = s.printed /\ t.sent = s.sent /\ t.memo = g_hits_memo /\ t.rebuilt = (memoPc # "idle")
      /\ t.mixed = s.mixed
  BY <1>1 DEF Sessions
<1> HIDE DEF t
<1>6. s.iter = 0
  BY <1>1 DEF Right
<1>7. Right(t, g_hits_sort, files)
  <2>1. Printing(t, g_hits_sort)
    <3> SUFFICES ASSUME ~t.rebuilt
                 PROVE  /\ SortOf(g_hits_sort, t.memo, DOMAIN t.memo)
                        /\ t.return_num = NumIn(g_hits_sort, t.num) /\ t.iter = 0
      BY <1>5 DEF Printing
    <3>1. memoPc = "idle"
      BY <1>5
    <3>2. SortOf(g_hits_sort, t.memo, DOMAIN t.memo)
      BY <1>0, <1>5, <3>1
    <3>3. t.return_num = NumIn(g_hits_sort, t.num)
      BY <1>5, NumInIs
    <3> QED
      BY <1>5, <1>6, <3>2, <3>3
  <2> QED
    BY <1>1, <1>5, <2>1 DEF Right, Printed, Sent, Writing, Sending
<1>8. Stays(t, s)
  BY <1>1, <1>5 DEF Stays, Writing, Sending
<1> QED
  BY <1>2, <1>4, <1>7, <1>8, OthersKeep DEF s

LEMMA PrintRecordKeeps == ASSUME IInv, NEW r \in Readers, PrintRecord(r) PROVE IInv'
<1> DEFINE s == session[r]
           sort == g_hits_sort
           t == [s EXCEPT !.iter = @ + 1, !.printed = Append(@, Record(s.iter + 1)),
                          !.pc = IF Enough(s) THEN "close" ELSE "print"]
<1>1. s \in Sessions /\ Right(s, sort, files) /\ s.pc = "print" /\ s.iter < Len(sort)
  BY SessionHas DEF PrintRecord
<1>2. session' = [session EXCEPT ![r] = t] /\ UNCHANGED <<memoVars, files>>
  BY DEF PrintRecord
<1>3. sort \in Seq(Entries)
  BY DEF IInv, Typed
<1> HIDE DEF s
<1>4. PICK n \in Nat : n = s.iter
  BY <1>1 DEF Sessions
<1>5. PICK l \in Nat : l = Len(sort)
  BY <1>3
<1>6. Record(n + 1) \in Units /\ Record(n + 1) = RecordIn(sort, n + 1)
  <2>1. l + 1 - (n + 1) \in 1 .. l
    BY <1>1, <1>4, <1>5
  <2>2. sort[l + 1 - (n + 1)].total \in Int /\ sort[l + 1 - (n + 1)].key \in Keys
    BY <1>3, <1>5, <2>1, EntriesHave
  <2> QED
    BY <1>5, <2>2, RecordInIs DEF RecordIn, Units
<1> HIDE DEF sort
<1>7. s.printed \in Seq(Units) /\ Len(s.printed) = n /\ s.return_num \in Int /\ s.num \in Int
  BY <1>1, <1>4 DEF Sessions, Right, Writing
<1> DEFINE printed == Append(s.printed, Record(n + 1))
<1>8. /\ printed \in Seq(Units) /\ Len(printed) = n + 1 /\ printed[n + 1] = RecordIn(sort, n + 1)
      /\ \A i \in 1 .. n : printed[i] = s.printed[i]
  BY <1>6, <1>7
<1> HIDE DEF printed
<1>9. /\ t.pc = IF Enough(s) THEN "close" ELSE "print"
      /\ t.num = s.num /\ t.return_num = s.return_num /\ t.iter = n + 1
      /\ t.printed = printed /\ t.sent = s.sent /\ t.memo = s.memo /\ t.rebuilt = s.rebuilt
      /\ t.mixed = s.mixed
  BY <1>1, <1>4 DEF Sessions, printed
<1>10. t \in Sessions
  <2>1. n + 1 \in Nat
    BY <1>4
  <2>2. t = [s EXCEPT !.iter = n + 1, !.printed = printed, !.pc = IF Enough(s) THEN "close" ELSE "print"]
    BY <1>1, <1>4 DEF printed
  <2> HIDE DEF t
  <2> QED
    BY <1>1, <1>8, <2>1, <2>2 DEF Sessions, Writing
<1> HIDE DEF t
<1>11. Enough(s) <=> n + 1 >= s.return_num
  BY <1>4 DEF Enough
<1>12. ASSUME ~s.rebuilt, s.num > 0
       PROVE  /\ SortOf(sort, s.memo, DOMAIN s.memo) /\ s.return_num = NumIn(sort, s.num)
              /\ n = 0 \/ n < s.return_num
              /\ \A i \in 1 .. n + 1 : printed[i] = RecordIn(sort, i)
  <2>1. /\ SortOf(sort, s.memo, DOMAIN s.memo) /\ s.return_num = NumIn(sort, s.num)
        /\ n = 0 \/ n < s.return_num
        /\ \A i \in 1 .. n : s.printed[i] = RecordIn(sort, i)
    BY <1>1, <1>4, <1>12 DEF Right, Printing
  <2>2. \A i \in 1 .. n + 1 : i \in 1 .. n \/ i = n + 1
    BY <1>4
  <2> QED
    BY <1>8, <2>1, <2>2
<1>13. Printing(t, sort)
  <2> SUFFICES ASSUME t.pc = "print", ~t.rebuilt, t.num > 0
               PROVE  /\ SortOf(sort, t.memo, DOMAIN t.memo) /\ t.return_num = NumIn(sort, t.num)
                      /\ t.iter = 0 \/ t.iter < t.return_num
                      /\ \A i \in 1 .. t.iter : t.printed[i] = RecordIn(sort, i)
    BY DEF Printing
  <2>1. n + 1 < s.return_num
    BY <1>4, <1>7, <1>9, <1>11
  <2> QED
    BY <1>9, <1>12, <2>1
<1>14. Printed(t)
  <2> SUFFICES ASSUME t.pc = "close", ~t.rebuilt, t.num > 0
               PROVE  s.return_num = n + 1 /\ IsRanking(printed, s.memo, s.num)
    BY <1>8, <1>9 DEF Printed
  <2>1. n + 1 >= s.return_num
    BY <1>9, <1>11
  <2>2. /\ SortOf(sort, s.memo, DOMAIN s.memo) /\ s.return_num = NumIn(sort, s.num)
        /\ n = 0 \/ n < s.return_num
        /\ \A i \in 1 .. n + 1 : printed[i] = RecordIn(sort, i)
    BY <1>9, <1>12
  <2>3. s.return_num = n + 1
    BY <1>1, <1>4, <1>5, <1>7, <1>9, <2>1, <2>2 DEF NumIn
  <2>4. s.memo \in Memos /\ s.num \in Nat \ {0}
    BY <1>1, <1>7, <1>9 DEF Sessions
  <2>5. IsRanking(printed, s.memo, s.num)
    <3>1. Len(printed) = NumIn(sort, s.num) /\ \A i \in 1 .. Len(printed) : printed[i] = RecordIn(sort, i)
      BY <1>8, <2>2, <2>3
    <3> QED
      BY <1>3, <1>8, <2>2, <2>4, <3>1, BestAreRanking
  <2> QED
    BY <2>3, <2>5
<1>15. Right(t, sort, files)
  BY <1>1, <1>8, <1>9, <1>13, <1>14 DEF Right, Sent, Writing, Sending
<1>16. Stays(t, s)
  BY <1>1, <1>9 DEF Stays, Writing, Sending
<1> QED
  BY <1>2, <1>10, <1>15, <1>16, OthersKeep DEF s, sort

LEMMA PrintedAllKeeps == ASSUME IInv, NEW r \in Readers, PrintedAll(r) PROVE IInv'
<1> DEFINE s == session[r]
           sort == g_hits_sort
           t == [s EXCEPT !.pc = "close"]
<1>1. s \in Sessions /\ Right(s, sort, files) /\ s.pc = "print" /\ s.iter >= Len(sort)
  BY SessionHas DEF PrintedAll
<1>2. session' = [session EXCEPT ![r] = t] /\ UNCHANGED <<memoVars, files>>
  BY DEF PrintedAll
<1>3. sort \in Seq(Entries)
  BY DEF IInv, Typed
<1> HIDE DEF s, sort
<1>4. t \in Sessions
  BY <1>1 DEF Sessions, Writing
<1>5. /\ t.pc = "close" /\ t.num = s.num /\ t.return_num = s.return_num /\ t.iter = s.iter
      /\ t.printed = s.printed /\ t.sent = s.sent /\ t.memo = s.memo
      /\ t.rebuilt = s.rebuilt /\ t.mixed = s.mixed
  BY <1>1 DEF Sessions
<1> HIDE DEF t
<1>6. Printed(t)
  <2> SUFFICES ASSUME ~s.rebuilt, s.num > 0
               PROVE  s.return_num = Len(s.printed) /\ IsRanking(s.printed, s.memo, s.num)
    BY <1>5 DEF Printed
  <2>1. /\ SortOf(sort, s.memo, DOMAIN s.memo) /\ s.return_num = NumIn(sort, s.num)
        /\ s.iter = 0 \/ s.iter < s.return_num
        /\ \A i \in 1 .. s.iter : s.printed[i] = RecordIn(sort, i)
        /\ s.iter = Len(s.printed)
    BY <1>1 DEF Right, Printing, Writing
  <2>2. /\ s.iter \in Nat /\ s.num \in Nat \ {0} /\ s.memo \in Memos /\ s.printed \in Seq(Units)
    BY <1>1 DEF Sessions
  <2>3. PICK l \in Nat : l = Len(sort)
    BY <1>3
  <2>4. s.return_num = s.iter
    BY <1>1, <2>1, <2>2, <2>3 DEF NumIn
  <2>5. IsRanking(s.printed, s.memo, s.num)
    BY <1>3, <2>1, <2>2, <2>4, BestAreRanking
  <2> QED
    BY <2>1, <2>4, <2>5
<1>7. Right(t, sort, files)
  BY <1>1, <1>5, <1>6 DEF Right, Printing, Sent, Writing, Sending
<1>8. Stays(t, s)
  BY <1>1, <1>5 DEF Stays, Writing, Sending
<1> QED
  BY <1>2, <1>4, <1>7, <1>8, OthersKeep DEF s, sort

LEMMA SendPieceKeeps == ASSUME IInv, NEW r \in Readers, SendPiece(r) PROVE IInv'
<1> DEFINE s == session[r]
           f == files[s.num]
           sent == Append(s.sent, f[Len(s.sent) + 1])
<1>1. s \in Sessions /\ Right(s, g_hits_sort, files) /\ s.pc = "send"
  BY SessionHas DEF SendPiece
<1>2. f \in Seq(Units)
  BY <1>1 DEF IInv, Typed, Right
<1>3. UNCHANGED <<memoVars, files>>
  BY DEF SendPiece
<1>4. /\ Len(s.sent) + 1 \in DOMAIN f => session' = [session EXCEPT ![r] = [s EXCEPT !.sent = sent]]
      /\ Len(s.sent) + 1 \notin DOMAIN f => session' = [session EXCEPT ![r] = [s EXCEPT !.pc = "sent"]]
  <2> DEFINE t == IF Len(s.sent) + 1 \in DOMAIN f
                  THEN [s EXCEPT !.sent = sent] ELSE [s EXCEPT !.pc = "sent"]
  <2>1. session' = [session EXCEPT ![r] = t]
    BY DEF SendPiece
  <2> QED
    BY <2>1
<1>5. s.num \in Nums
  BY <1>1 DEF Right
<1> HIDE DEF s
<1>6. PICK n \in Nat : n = Len(s.sent)
  BY <1>1 DEF Sessions
<1>7. PICK l \in Nat : l = Len(f)
  BY <1>2
<1>8. DOMAIN f = 1 .. l
  BY <1>2, <1>7
<1>9. ~s.mixed => /\ ~s.rebuilt /\ s.num > 0 => FileIs(f, s)
                  /\ n <= l
                  /\ \A i \in 1 .. n : s.sent[i] = f[i]
  BY <1>1, <1>6, <1>7 DEF Right, Sent, Sending
<1>10. CASE n + 1 \in DOMAIN f
  <2> DEFINE t == [s EXCEPT !.sent = sent]
  <2>1. /\ sent \in Seq(Units) /\ Len(sent) = n + 1 /\ sent[n + 1] = f[n + 1]
        /\ \A i \in 1 .. n : sent[i] = s.sent[i]
    <3>1. f[n + 1] \in Units /\ s.sent \in Seq(Units)
      BY <1>1, <1>2, <1>10 DEF Sessions
    <3> QED
      BY <1>6, <3>1
  <2> HIDE DEF sent
  <2>2. t \in Sessions
    BY <1>1, <2>1 DEF Sessions
  <2>3. /\ t.pc = "send" /\ t.num = s.num /\ t.memo = s.memo /\ t.sent = sent
        /\ t.rebuilt = s.rebuilt /\ t.mixed = s.mixed
    BY <1>1 DEF Sessions
  <2> HIDE DEF t
  <2>4. FileIs(f, s) => FileIs(f, t)
    BY <2>3 DEF FileIs
  <2>5. n + 1 <= l
    BY <1>8, <1>10
  <2> HIDE DEF f
  <2>6. ~s.mixed => \A i \in 1 .. n + 1 : sent[i] = f[i]
    <3>1. \A i \in 1 .. n + 1 : i \in 1 .. n \/ i = n + 1
      BY <1>6
    <3> QED
      BY <1>9, <2>1, <3>1
  <2>7. Sent(t, files)
    <3> SUFFICES ASSUME ~t.mixed
                 PROVE  /\ ~t.rebuilt /\ t.num > 0 => FileIs(f, t)
                        /\ Len(sent) <= l /\ \A i \in 1 .. Len(sent) : sent[i] = f[i]
      BY <1>7, <2>3 DEF Sent, f
    <3> QED
      BY <1>9, <2>1, <2>3, <2>4, <2>5, <2>6
  <2>8. Right(t, g_hits_sort, files)
    BY <1>5, <2>3, <2>7 DEF Right, Printing, Printed, Writing
  <2>9. Stays(t, s)
    BY <1>1, <2>3 DEF Stays
  <2>10. session' = [session EXCEPT ![r] = t]
    BY <1>4, <1>6, <1>10 DEF t
  <2> QED
    BY <1>3, <2>2, <2>8, <2>9, <2>10, OthersKeep DEF s
<1>11. CASE n + 1 \notin DOMAIN f
  <2> DEFINE t == [s EXCEPT !.pc = "sent"]
  <2>2. t \in Sessions
    BY <1>1 DEF Sessions, Sending
  <2>3. /\ t.pc = "sent" /\ t.num = s.num /\ t.memo = s.memo /\ t.sent = s.sent
        /\ t.rebuilt = s.rebuilt /\ t.mixed = s.mixed
    BY <1>1 DEF Sessions
  <2>10. session' = [session EXCEPT ![r] = t]
    BY <1>4, <1>6, <1>11
  <2> HIDE DEF t
  <2>4. FileIs(f, s) => FileIs(f, t)
    BY <2>3 DEF FileIs
  <2>5. n >= l
    BY <1>8, <1>11
  <2> HIDE DEF f
  <2>7. Sent(t, files)
    <3> SUFFICES ASSUME ~t.mixed
                 PROVE  /\ ~t.rebuilt /\ t.num > 0 => FileIs(f, t)
                        /\ n <= l /\ n = l /\ \A i \in 1 .. n : s.sent[i] = f[i]
      BY <1>6, <1>7, <2>3 DEF Sent, f
    <3> QED
      BY <1>6, <1>7, <1>9, <2>3, <2>4, <2>5
  <2>8. Right(t, g_hits_sort, files)
    BY <1>5, <2>3, <2>7 DEF Right, Printing, Printed, Writing
  <2>9. Stays(t, s)
    BY <1>1, <2>3 DEF Stays, Writing, Sending
  <2> QED
    BY <1>3, <2>2, <2>8, <2>9, <2>10, OthersKeep DEF s
<1> QED
  BY <1>10, <1>11

LEMMA SessionInitIs ==
  /\ SessionInit \in Sessions
  /\ SessionInit.pc = "idle" /\ SessionInit.iter = 0
  /\ Len(SessionInit.printed) = 0 /\ SessionInit.sent = <<>>
<1>1. NoRecords \in [{} -> [pc : Int, mobile : Int]] /\ {} \in SUBSET Keys
  BY DEF NoRecords
<1>2. NoRecords \in Memos
  BY <1>1 DEF Memos
<1> QED
  BY <1>2 DEF SessionInit, Sessions

LEMMA NextRequestKeeps == ASSUME IInv, NEW r \in Readers, NextRequest(r) PROVE IInv'
<1>1. session' = [session EXCEPT ![r] = SessionInit] /\ UNCHANGED <<memoVars, files>>
  BY DEF NextRequest
<1>2. Right(SessionInit, g_hits_sort, files)
  BY SessionInitIs DEF Right, Printing, Printed, Sent, Writing, Sending
<1>3. Stays(SessionInit, session[r])
  BY SessionInitIs DEF Stays, Writing, Sending
<1> QED
  BY <1>1, <1>2, <1>3, SessionInitIs, OthersKeep

(* Whoever uses the file that is emptied is mixed up with this session.    *)
LEMMA OpenFileKeeps == ASSUME IInv, NEW r \in Readers, NEW n \in Nums, OpenFile(r, n) PROVE IInv'
<1> DEFINE others == \E q \in Readers \ {r} : session[q].pc \in {"size", "print", "close"} /\ session[q].num = n
           t == [SessionInit EXCEPT !.pc = "size", !.num = n, !.mixed = others]
<1>0. Typed /\ Ranked /\ OwnFile /\ AllRight
  BY DEF IInv
<1>1. /\ files' = [files EXCEPT ![n] = <<>>]
      /\ session' = [[q \in Readers |-> [session[q] EXCEPT !.mixed = @ \/ (q # r /\ session[q].num = n)]]
                       EXCEPT ![r] = t]
      /\ UNCHANGED memoVars
  BY DEF OpenFile, Emptied
<1>2. /\ g_hits_memo' = g_hits_memo /\ g_hits_sort' = g_hits_sort /\ memoPc' = memoPc /\ toSort' = toSort
  BY <1>1 DEF memoVars
<1>3. n \in Int /\ others \in BOOLEAN
  BY RankingAssumption
<1> HIDE DEF others
<1>4. t \in Sessions
  BY <1>3, SessionInitIs DEF Sessions, Writing
<1>5. /\ t.pc = "size" /\ t.num = n /\ t.mixed = others /\ t.iter = 0 /\ Len(t.printed) = 0
      /\ t.sent = <<>>
  BY SessionInitIs DEF Sessions
<1> HIDE DEF t
<1>6. session'[r] = t
  BY <1>1
<1>7. ASSUME NEW q \in Readers, q # r
      PROVE  /\ session'[q] \in Sessions /\ Marked(session'[q], session[q])
             /\ session[q].num = n => session'[q].mixed
  <2> DEFINE s == session[q]
  <2>1. s \in Sessions
    BY <1>0 DEF Typed
  <2>2. session'[q] = [s EXCEPT !.mixed = @ \/ s.num = n]
    BY <1>1, <1>7
  <2> HIDE DEF s
  <2>3. /\ session'[q].pc = s.pc /\ session'[q].num = s.num /\ session'[q].return_num = s.return_num
        /\ session'[q].iter = s.iter /\ session'[q].printed = s.printed /\ session'[q].sent = s.sent
        /\ session'[q].memo = s.memo /\ session'[q].rebuilt = s.rebuilt
    BY <2>1, <2>2 DEF Sessions
  <2>4. session'[q].mixed = (s.mixed \/ s.num = n)
    BY <2>1, <2>2 DEF Sessions
  <2>5. session'[q] \in Sessions
    BY <2>1, <2>2 DEF Sessions
  <2> QED
    BY <2>3, <2>4, <2>5 DEF Marked, s
<1>8. files' \in [Nums -> Seq(Units)] /\ files'[n] = <<>> /\ \A m \in Nums : m # n => files'[m] = files[m]
  BY <1>0, <1>1 DEF Typed
<1>9. Typed'
  <2>1. session' \in [Readers -> Sessions]
    <3>1. \A q \in Readers : session'[q] \in Sessions
      BY <1>4, <1>6, <1>7
    <3>2. session' = [q \in Readers |-> session'[q]]
      BY <1>1
    <3> QED
      BY <3>1, <3>2
  <2> QED
    BY <1>0, <1>2, <1>8, <2>1 DEF Typed
<1>10. Ranked'
  BY <1>0, <1>2 DEF Ranked
<1>11. OwnFile'
  <2> SUFFICES ASSUME NEW p \in Readers, session'[p].pc \in Writing \cup Sending, ~session'[p].mixed
               PROVE  /\ \A q \in Readers \ {p} : session'[q].pc \in Writing => session'[q].num # session'[p].num
                      /\ session'[p].pc \in Writing => files'[session'[p].num] = <<>>
    BY DEF OwnFile
  <2>1. CASE p = r
    <3>1. \A q \in Readers \ {r} : session[q].pc \in Writing => session[q].num # n
      BY <1>5, <1>6, <2>1 DEF others, Writing
    <3>2. \A q \in Readers \ {r} : session'[q].pc = session[q].pc /\ session'[q].num = session[q].num
      BY <1>7 DEF Marked
    <3> QED
      BY <1>5, <1>6, <1>8, <2>1, <3>1, <3>2
  <2>2. CASE p # r
    <3>1. /\ session'[p].pc = session[p].pc /\ session'[p].num = session[p].num /\ ~session[p].mixed
          /\ session[p].num # n
      BY <1>7, <2>2 DEF Marked
    <3>2. /\ \A q \in Readers \ {p} : session[q].pc \in Writing => session[q].num # session[p].num
          /\ session[p].pc \in Writing => files[session[p].num] = <<>>
      BY <1>0, <3>1 DEF OwnFile
    <3>3. session[p].num \in Nums
      BY <1>0, <3>1 DEF AllRight, Right, Writing, Sending
    <3>4. \A q \in Readers \ {p} : session'[q].pc \in Writing => session'[q].num # session'[p].num
      <4> SUFFICES ASSUME NEW q \in Readers, q # p, session'[q].pc \in Writing
                   PROVE  session'[q].num # session[p].num
        BY <3>1
      <4>1. CASE q = r
        BY <1>5, <1>6, <3>1, <4>1
      <4>2. CASE q # r
        <5>1. session'[q].pc = session[q].pc /\ session'[q].num = session[q].num
          BY <1>7, <4>2 DEF Marked
        <5> QED
          BY <3>2, <5>1
      <4> QED
        BY <4>1, <4>2
    <3> QED
      BY <1>8, <3>1, <3>2, <3>3, <3>4
  <2> QED
    BY <2>1, <2>2
<1>12. AllRight'
  <2> SUFFICES ASSUME NEW q \in Readers PROVE Right(session'[q], g_hits_sort', files')
    BY DEF AllRight
  <2>1. CASE q = r
    BY <1>5, <1>6, <2>1 DEF Right, Printing, Printed, Sent, Sending
  <2>2. CASE q # r
    <3>1. Right(session[q], g_hits_sort, files) /\ Marked(session'[q], session[q])
      BY <1>0, <1>7, <2>2 DEF AllRight
    <3>2. session'[q].pc \in Sending /\ ~session'[q].mixed => files'[session'[q].num] = files[session'[q].num]
      <4> SUFFICES ASSUME session'[q].pc \in Sending, ~session'[q].mixed
                   PROVE  files'[session'[q].num] = files[session'[q].num]
        OBVIOUS
      <4>1. session'[q].num = session[q].num /\ session[q].num # n /\ session[q].pc \in Sending
        BY <1>7, <2>2 DEF Marked
      <4>2. session[q].num \in Nums
        BY <3>1, <4>1 DEF Right, Sending
      <4> QED
        BY <1>8, <4>1, <4>2
    <3> QED
      BY <1>2, <3>1, <3>2, MarkedKeeps
  <2> QED
    BY <2>1, <2>2
<1> QED
  BY <1>9, <1>10, <1>11, <1>12 DEF IInv

(* What is written over an empty file is the file.                         *)
LEMMA WrittenIs ==
  ASSUME NEW s \in Sessions
  PROVE  /\ Written(s) \in Seq(Units) /\ Over(Written(s), <<>>) = Written(s)
         /\ s.return_num = Len(s.printed) /\ IsRanking(s.printed, s.memo, s.num) => FileIs(Written(s), s)
<1> DEFINE w == Written(s)
           m == Len(s.printed)
           head == <<"head", s.num, s.return_num>>
           foot == <<"foot">>
<1>1. s.printed \in Seq(Units) /\ m \in Nat
  BY DEF Sessions
<1>2. head \in Units /\ foot \in Units
  BY DEF Sessions, Units
<1> HIDE DEF head, foot
<1>3. w = <<head>> \o s.printed \o <<foot>>
  BY DEF Written, head, foot
<1>4. PICK k \in Nat : k = m
  BY <1>1
<1>5. /\ w \in Seq(Units) /\ Len(w) = k + 2 /\ w[1] = head /\ w[k + 2] = foot
      /\ \A i \in 1 .. k : w[i + 1] = s.printed[i]
  <2> DEFINE a == <<head>> \o s.printed
  <2>1. a \in Seq(Units) /\ Len(a) = k + 1 /\ a[1] = head /\ \A i \in 1 .. k : a[i + 1] = s.printed[i]
    BY <1>1, <1>2, <1>4
  <2> HIDE DEF a
  <2>2. w = a \o <<foot>>
    BY <1>3 DEF a
  <2>3. w \in Seq(Units) /\ Len(w) = k + 2 /\ \A i \in 1 .. k + 1 : w[i] = a[i]
    BY <1>2, <1>4, <2>1, <2>2
  <2>4. w[k + 2] = foot
    BY <1>2, <1>4, <2>1, <2>2
  <2>5. 1 \in 1 .. k + 1 /\ \A i \in 1 .. k : i + 1 \in 1 .. k + 1
    BY <1>4
  <2> QED
    BY <2>1, <2>3, <2>4, <2>5
<1> HIDE DEF w
<1>6. Over(w, <<>>) = w
  BY <1>5 DEF Over
<1>7. ASSUME s.return_num = Len(s.printed), IsRanking(s.printed, s.memo, s.num) PROVE FileIs(w, s)
  <2>1. SubSeq(w, 2, k + 1) = s.printed
    <3>1. Len(SubSeq(w, 2, k + 1)) = k /\ \A i \in 1 .. k : SubSeq(w, 2, k + 1)[i] = w[i + 1]
      BY <1>4, <1>5
    <3>2. SubSeq(w, 2, k + 1) \in Seq(Units)
      BY <1>4, <1>5
    <3> QED
      BY <1>1, <1>4, <1>5, <3>1, <3>2
  <2>2. s.return_num = k /\ k + 2 - 2 = k /\ k + 2 - 1 = k + 1
    BY <1>4, <1>7
  <2>3. w[1] = <<"head", s.num, k>> /\ w[k + 2] = <<"foot">>
    BY <1>5, <2>2 DEF head, foot
  <2>4. IsRanking(SubSeq(w, 2, k + 2 - 1), s.memo, s.num)
    BY <1>7, <2>1, <2>2
  <2>5. Len(w) = k + 2 /\ k + 2 > 1
    BY <1>4, <1>5
  <2> QED
    BY <2>2, <2>3, <2>4, <2>5 DEF FileIs
<1> QED
  BY <1>5, <1>6, <1>7 DEF w

LEMMA OverType == ASSUME NEW new \in Seq(Units), NEW old \in Seq(Units) PROVE Over(new, old) \in Seq(Units)
<1> DEFINE tail == SubSeq(old, Len(new) + 1, Len(old))
<1>1. tail \in Seq(Units)
  <2>1. PICK n \in Nat : n = Len(old)
    OBVIOUS
  <2>2. PICK m \in Nat : m = Len(new)
    OBVIOUS
  <2> QED
    BY <2>1, <2>2
<1> HIDE DEF tail
<1> QED
  BY <1>1 DEF Over, tail

(* The file is written for the session alone, unless it is mixed up.       *)
LEMMA CloseFileKeeps == ASSUME IInv, NEW r \in Readers, CloseFile(r) PROVE IInv'
<1> DEFINE s == session[r]
           t == [s EXCEPT !.pc = "send", !.iter = 0, !.return_num = 0, !.printed = <<>>]
           f == Over(Written(s), files[s.num])
<1>0. Typed /\ Ranked /\ OwnFile /\ AllRight
  BY DEF IInv
<1>1. s \in Sessions /\ Right(s, g_hits_sort, files) /\ s.pc = "close"
  BY SessionHas DEF CloseFile
<1>2. /\ session' = [session EXCEPT ![r] = t] /\ files' = [files EXCEPT ![s.num] = f]
      /\ UNCHANGED memoVars
  BY DEF CloseFile
<1>3. /\ g_hits_memo' = g_hits_memo /\ g_hits_sort' = g_hits_sort /\ memoPc' = memoPc /\ toSort' = toSort
  BY <1>2 DEF memoVars
<1>4. s.num \in Nums
  BY <1>1 DEF Right
<1>5. ~s.mixed => /\ files[s.num] = <<>>
                  /\ \A q \in Readers \ {r} : session[q].pc \in Writing => session[q].num # s.num
  BY <1>0, <1>1 DEF OwnFile, Writing
<1>6. \A q \in Readers \ {r} : session[q].pc \in Sending /\ ~session[q].mixed => session[q].num # s.num
  BY <1>0, <1>1 DEF OwnFile, Writing
<1>7. \A q \in Readers \ {r} : session[q].pc \in Writing /\ ~session[q].mixed => session[q].num # s.num
  BY <1>0, <1>1 DEF OwnFile, Writing
<1>8. \A q \in Readers \ {r} : session'[q] = session[q]
  BY <1>2
<1>9. session'[r] = t
  BY <1>0, <1>2 DEF Typed
<1> HIDE DEF s
<1>10. t \in Sessions
  <2>1. 0 \in Nat /\ 0 \in Int /\ <<>> \in Seq(Units) /\ "send" \in {"idle"} \cup Writing \cup Sending
    BY DEF Sending
  <2> QED
    BY <1>1, <2>1 DEF Sessions
<1>11. /\ t.pc = "send" /\ t.num = s.num /\ t.memo = s.memo /\ t.sent = s.sent
       /\ t.rebuilt = s.rebuilt /\ t.mixed = s.mixed
  BY <1>1 DEF Sessions
<1> HIDE DEF t
<1>12. f \in Seq(Units)
  <2>1. Written(s) \in Seq(Units) /\ files[s.num] \in Seq(Units)
    BY <1>0, <1>1, <1>4, WrittenIs DEF Typed
  <2> QED
    BY <2>1, OverType
<1>13. ~s.mixed => f = Written(s)
  BY <1>1, <1>5, WrittenIs
<1> HIDE DEF f
<1>14. files' \in [Nums -> Seq(Units)] /\ files'[s.num] = f /\ \A m \in Nums : m # s.num => files'[m] = files[m]
  BY <1>0, <1>2, <1>4, <1>12 DEF Typed
<1>15. Typed'
  <2>1. session' \in [Readers -> Sessions]
    BY <1>0, <1>2, <1>10 DEF Typed
  <2> QED
    BY <1>0, <1>3, <1>14, <2>1 DEF Typed
<1>16. Ranked'
  BY <1>0, <1>3 DEF Ranked
<1>17. OwnFile'
  <2> SUFFICES ASSUME NEW p \in Readers, session'[p].pc \in Writing \cup Sending, ~session'[p].mixed
               PROVE  /\ \A q \in Readers \ {p} : session'[q].pc \in Writing => session'[q].num # session'[p].num
                      /\ session'[p].pc \in Writing => files'[session'[p].num] = <<>>
    BY DEF OwnFile
  <2>1. CASE p = r
    BY <1>5, <1>8, <1>9, <1>11, <2>1 DEF Writing
  <2>2. CASE p # r
    <3>1. session'[p] = session[p]
      BY <1>8, <2>2
    <3>2. /\ \A q \in Readers \ {p} : session[q].pc \in Writing => session[q].num # session[p].num
          /\ session[p].pc \in Writing => files[session[p].num] = <<>>
      BY <1>0, <3>1 DEF OwnFile
    <3>3. \A q \in Readers \ {p} : session'[q].pc \in Writing => session'[q].num # session'[p].num
      <4>1. session'[r].pc \notin Writing
        BY <1>9, <1>11 DEF Writing
      <4> QED
        BY <1>8, <3>1, <3>2, <4>1
    <3>4. session[p].pc \in Writing => session[p].num \in Nums /\ session[p].num # s.num
      BY <1>0, <1>7, <2>2, <3>1 DEF AllRight, Right, Writing
    <3> QED
      BY <1>14, <3>1, <3>2, <3>3, <3>4
  <2> QED
    BY <2>1, <2>2
<1>18. AllRight'
  <2> SUFFICES ASSUME NEW q \in Readers PROVE Right(session'[q], g_hits_sort', files')
    BY DEF AllRight
  <2>1. CASE q = r
    <3>1. s.sent = <<>>
      BY <1>1 DEF Right, Writing
    <3>2. Sent(t, files')
      <4> SUFFICES ASSUME ~s.mixed
                   PROVE  /\ ~s.rebuilt /\ s.num > 0 => FileIs(f, t)
                          /\ Len(s.sent) <= Len(f) /\ \A i \in 1 .. Len(s.sent) : s.sent[i] = f[i]
        BY <1>11, <1>14 DEF Sent
      <4>1. Len(s.sent) = 0 /\ Len(f) \in Nat
        BY <1>12, <3>1
      <4>2. FileIs(f, s) => FileIs(f, t)
        BY <1>11 DEF FileIs
      <4>3. ~s.rebuilt /\ s.num > 0 => FileIs(f, s)
        BY <1>1, <1>13, WrittenIs DEF Right, Printed
      <4> QED
        BY <4>1, <4>2, <4>3
    <3> QED
      BY <1>4, <1>9, <1>11, <2>1, <3>2 DEF Right, Printing, Printed, Writing
  <2>2. CASE q # r
    <3>1. Right(session[q], g_hits_sort, files)
      BY <1>0 DEF AllRight
    <3>2. session[q].pc \in Sending /\ ~session[q].mixed => files'[session[q].num] = files[session[q].num]
      BY <1>6, <1>14, <2>2, <3>1 DEF Right, Sending
    <3> QED
      BY <1>3, <1>8, <2>2, <3>1, <3>2, MarkedKeeps DEF Marked
  <2> QED
    BY <2>1, <2>2
<1> QED
  BY <1>15, <1>16, <1>17, <1>18 DEF IInv

-----------------------------------------------------------------------------
LEMMA StepKeeps == IInv /\ [Next]_vars => IInv'
<1> SUFFICES ASSUME IInv, [Next]_vars PROVE IInv'
  OBVIOUS
<1>1. CASE do_memo
  BY <1>1, MergeKeeps, ClearSortKeeps, SortKeeps, MemoDoneKeeps DEF do_memo
<1>2. CASE \E r \in Readers : Reader(r)
  <2>1. PICK r \in Readers : Reader(r)
    BY <1>2
  <2>2. CASE \E n \in Nums : OpenFile(r, n)
    BY <2>2, OpenFileKeeps
  <2>3. CASE ReadSize(r)
    BY <2>3, ReadSizeKeeps
  <2>4. CASE PrintRecord(r)
    BY <2>4, PrintRecordKeeps
  <2>5. CASE PrintedAll(r)
    BY <2>5, PrintedAllKeeps
  <2>6. CASE CloseFile(r)
    BY <2>6, CloseFileKeeps
  <2>7. CASE SendPiece(r)
    BY <2>7, SendPieceKeeps
  <2>8. CASE NextRequest(r)
    BY <2>8, NextRequestKeeps
  <2> QED
    BY <2>1, <2>2, <2>3, <2>4, <2>5, <2>6, <2>7, <2>8 DEF Reader
<1>3. CASE UNCHANGED vars
  BY <1>3 DEF IInv, Typed, Ranked, OwnFile, AllRight, vars, memoVars
<1> QED
  BY <1>1, <1>2, <1>3 DEF Next

(* What was sent is the whole of the file that the session wrote.          *)
LEMMA RightIsServed ==
  ASSUME IInv, NEW r \in Readers, session[r].pc = "sent", session[r].num > 0,
         ~session[r].rebuilt, ~session[r].mixed
  PROVE  FileIs(session[r].sent, session[r])
<1> DEFINE s == session[r]
           f == files[s.num]
<1>1. s \in Sessions /\ Right(s, g_hits_sort, files)
  BY SessionHas
<1>2. /\ FileIs(f, s) /\ Len(s.sent) = Len(f) /\ \A i \in 1 .. Len(s.sent) : s.sent[i] = f[i]
  BY <1>1 DEF Right, Sent, Sending
<1>3. s.sent \in Seq(Units) /\ f \in Seq(Units)
  BY <1>1 DEF IInv, Typed, Right, Sessions
<1> HIDE DEF s, f
<1>4. s.sent = f
  BY <1>2, <1>3
<1>5. FileIs(s.sent, s)
  BY <1>2, <1>4
<1> QED
  BY <1>5 DEF s

(* A get_hottest for the best num is answered with them, whole, in order   *)
(* and as many as the head says, whatever trees are merged, however often  *)
(* and by however many sessions it is asked, unless do_memo was at work in *)
(* the loop of hits_get_hottest or another session asked for the same num. *)
THEOREM BestAreServed == Spec => []RankingServed
<1>1. IInv => RankingServed
  <2> SUFFICES ASSUME IInv, NEW r \in Readers, session[r].pc = "sent", session[r].num > 0,
                      ~session[r].rebuilt, ~session[r].mixed
               PROVE  LET s == session[r]
                          n == Len(s.sent)
                      IN  /\ n > 1 /\ s.sent[n] = <<"foot">>
                          /\ s.sent[1] = <<"head", s.num, n - 2>>
                          /\ IsRanking(SubSeq(s.sent, 2, n - 1), s.memo, s.num)
    BY DEF RankingServed
  <2> QED
    BY RightIsServed DEF FileIs
<1> QED
  BY InitIsRight, StepKeeps, <1>1, PTL DEF Spec

-----------------------------------------------------------------------------
(* Sums                                                                    *)

LEMMA SumLoop ==
  ASSUME NEW k \in Nat, NEW f \in [1 .. k -> Nat]
  PROVE  \E h \in [0 .. k -> Nat] :
           /\ h[0] = 0 /\ SumOf(f) = h[k]
           /\ \A i \in 1 .. k : h[i] = h[i - 1] + f[i]
<1> DEFINE n == k
           G == [i \in 1 .. n |-> [acc \in Nat |-> acc + f[i]]]
           IsIter(iter) == iter = [S \in SUBSET DOMAIN f |->
             IF S = {} THEN 0 ELSE iter[S \ {Max(S)}] + f[Max(S)]]
<1>0. n \in Nat /\ DOMAIN f = 1 .. n /\ 0 \in Nat
  OBVIOUS
<1>a. ASSUME NEW i \in 1 .. n, NEW acc \in Nat PROVE acc + f[i] \in Nat
  OBVIOUS
<1>1. G \in [1 .. n -> [Nat -> Nat]]
  BY <1>a
<1>2. SumOf(f) = (CHOOSE g : IsIter(g))[DOMAIN f]
  BY DEF SumOf, FoldLeft, MapThenFoldSet
<1> HIDE DEF n
<1>3. PICK g \in [SUBSET (1 .. n) -> Nat] : IsLoop(g, n, 0, G)
  <2> HIDE DEF G, IsIter
  <2> QED
    BY <1>0, <1>1, LoopExists, Zenon
<1>4. IsIter(g)
  <2>1. ASSUME NEW S \in SUBSET (1 .. n), S # {}
        PROVE  G[Max(S)][g[S \ {Max(S)}]] = g[S \ {Max(S)}] + f[Max(S)]
    <3>1. Max(S) \in 1 .. n /\ S \ {Max(S)} \in SUBSET (1 .. n)
      BY <1>0, <2>1, MaxIsIn
    <3>2. g[S \ {Max(S)}] \in Nat
      BY <1>3, <3>1
    <3> QED
      BY <3>1, <3>2
  <2> HIDE DEF G
  <2>2. [S \in SUBSET (1 .. n) |-> IF S = {} THEN 0 ELSE G[Max(S)][g[S \ {Max(S)}]]]
        = [S \in SUBSET (1 .. n) |-> IF S = {} THEN 0 ELSE g[S \ {Max(S)}] + f[Max(S)]]
    BY <2>1
  <2> QED
    BY <1>0, <1>3, <2>2, Zenon DEF IsLoop
<1>5. PICK iter : IsIter(iter) /\ SumOf(f) = iter[1 .. n]
  <2> HIDE DEF IsIter
  <2> QED
    BY <1>0, <1>2, <1>4, Zenon
<1>6. /\ iter[{}] = 0
      /\ \A S \in SUBSET (1 .. n) : S # {} => iter[S] = iter[S \ {Max(S)}] + f[Max(S)]
  <2>1. \A S \in SUBSET (1 .. n) : iter[S] = IF S = {} THEN 0 ELSE iter[S \ {Max(S)}] + f[Max(S)]
    BY <1>0, <1>5
  <2> QED
    BY <2>1
<1>7. ASSUME NEW S \in SUBSET (1 .. n), S # {}, iter[S \ {Max(S)}] \in Nat
      PROVE  iter[S] = G[Max(S)][iter[S \ {Max(S)}]]
  <2>1. Max(S) \in 1 .. n
    BY <1>0, <1>7, MaxIsIn
  <2>2. iter[S] = iter[S \ {Max(S)}] + f[Max(S)]
    BY <1>6, <1>7, Zenon
  <2> QED
    BY <1>7, <2>1, <2>2
<1>8. \A i \in 1 .. n : \A acc \in Nat : G[i][acc] = acc + f[i]
  OBVIOUS
<1> HIDE DEF G, IsIter
<1>b. Iterates(iter, n, Nat, 0, G)
  <2>1. iter[{}] = 0
    BY <1>6
  <2>2. \A S \in SUBSET (1 .. n) :
          S # {} /\ iter[S \ {Max(S)}] \in Nat => iter[S] = G[Max(S)][iter[S \ {Max(S)}]]
    BY <1>7, Zenon
  <2> QED
    BY <2>1, <2>2, Zenon DEF Iterates
<1>9. PICK h \in [0 .. n -> Nat] : IsRounds(h, iter, n, 0, G)
  <2>1. /\ n \in Nat /\ 0 \in Nat /\ G \in [1 .. n -> [Nat -> Nat]]
        /\ Iterates(iter, n, Nat, 0, G)
    BY <1>0, <1>1, <1>b
  <2> QED
    BY <2>1, LoopRounds, Zenon
<1>10. \A i \in 1 .. n : h[i] = h[i - 1] + f[i]
  <2> SUFFICES ASSUME NEW i \in 1 .. n PROVE h[i] = h[i - 1] + f[i]
    OBVIOUS
  <2>1. h[i - 1] \in Nat
    BY <1>0, <1>9
  <2> QED
    BY <1>8, <1>9, <2>1 DEF IsRounds
<1> QED
  BY <1>5, <1>9, <1>10 DEF n, IsRounds

LEMMA SumIsNat == ASSUME NEW n \in Nat, NEW f \in [1 .. n -> Nat] PROVE SumOf(f) \in Nat
  BY SumLoop

(* What grows by f[i] in round i has grown by the sum after all of them.   *)
LEMMA SumOfSteps ==
  ASSUME NEW n \in Nat, NEW f \in [1 .. n -> Nat], NEW m, m[0] \in Nat,
         \A i \in 1 .. n : m[i] = m[i - 1] + f[i]
  PROVE  m[n] = m[0] + SumOf(f)
<1>1. PICK h \in [0 .. n -> Nat] :
        h[0] = 0 /\ (\A i \in 1 .. n : h[i] = h[i - 1] + f[i]) /\ SumOf(f) = h[n]
  BY SumLoop
<1> DEFINE T == {k \in 0 .. n : m[k] = m[0] + h[k]}
<1>2. 0 \in T
  BY <1>1
<1>3. \A k \in 0 .. n : k \in T /\ k < n => k + 1 \in T
  <2> SUFFICES ASSUME NEW k \in 0 .. n, k \in T, k < n PROVE k + 1 \in T
    OBVIOUS
  <2>1. k + 1 \in 1 .. n /\ k + 1 \in 0 .. n /\ (k + 1) - 1 = k
    OBVIOUS
  <2>2. h[k] \in Nat /\ h[k + 1] = h[k] + f[k + 1] /\ m[k + 1] = m[k] + f[k + 1] /\ f[k + 1] \in Nat
    BY <1>1, <2>1
  <2>3. m[k] = m[0] + h[k]
    OBVIOUS
  <2> HIDE DEF T
  <2>4. m[k + 1] = m[0] + h[k + 1]
    BY <2>2, <2>3
  <2> QED
    BY <2>1, <2>4 DEF T
<1> HIDE DEF T
<1>4. \A k \in 0 .. n : k \in T
  BY <1>2, <1>3, Upwards, Zenon
<1>5. n \in T
  BY <1>4
<1> QED
  BY <1>1, <1>5 DEF T

(* Two sums, one behind the other.                                         *)
LEMMA ConcatIs ==
  ASSUME NEW S, NEW a \in Seq(S), NEW b \in Seq(S)
  PROVE  /\ Len(a) \in Nat /\ Len(b) \in Nat /\ a \in [1 .. Len(a) -> S] /\ b \in [1 .. Len(b) -> S]
         /\ Len(a \o b) = Len(a) + Len(b) /\ a \o b \in [1 .. Len(a) + Len(b) -> S]
         /\ \A i \in 1 .. Len(a) : (a \o b)[i] = a[i]
         /\ \A i \in 1 .. Len(b) : (a \o b)[Len(a) + i] = b[i]
<1>1. Len(a) \in Nat /\ Len(b) \in Nat /\ a \in [1 .. Len(a) -> S] /\ b \in [1 .. Len(b) -> S]
  OBVIOUS
<1>2. a \o b \in Seq(S) /\ Len(a \o b) = Len(a) + Len(b)
  OBVIOUS
<1>3. a \o b \in [1 .. Len(a \o b) -> S]
  <2>1. \A c \in Seq(S) : c \in [1 .. Len(c) -> S]
    OBVIOUS
  <2> QED
    BY <1>2, <2>1, Zenon
<1>4. \A i \in 1 .. Len(a) : (a \o b)[i] = a[i]
  OBVIOUS
<1>5. \A i \in 1 .. Len(b) : (a \o b)[Len(a) + i] = b[i]
  OBVIOUS
<1> QED
  BY <1>1, <1>2, <1>3, <1>4, <1>5

LEMMA SumOfConcat ==
  ASSUME NEW a \in Seq(Nat), NEW b \in Seq(Nat)
  PROVE  SumOf(a \o b) = SumOf(a) + SumOf(b)
<1>0. /\ Len(a) \in Nat /\ Len(b) \in Nat /\ a \in [1 .. Len(a) -> Nat] /\ b \in [1 .. Len(b) -> Nat]
      /\ Len(a \o b) = Len(a) + Len(b) /\ a \o b \in [1 .. Len(a) + Len(b) -> Nat]
      /\ \A i \in 1 .. Len(a) : (a \o b)[i] = a[i]
      /\ \A i \in 1 .. Len(b) : (a \o b)[Len(a) + i] = b[i]
  BY ConcatIs
<1> DEFINE n == Len(a)  k == Len(b)  c == a \o b
<1> HIDE DEF n, k, c
<1>1. /\ n \in Nat /\ k \in Nat /\ n + k \in Nat /\ a \in [1 .. n -> Nat] /\ b \in [1 .. k -> Nat]
      /\ c \in [1 .. n + k -> Nat]
      /\ \A i \in 1 .. n : c[i] = a[i]
      /\ \A i \in 1 .. k : c[n + i] = b[i]
  BY <1>0 DEF n, k, c
<1>2. PICK h \in [0 .. n + k -> Nat] :
        h[0] = 0 /\ (\A i \in 1 .. n + k : h[i] = h[i - 1] + c[i]) /\ SumOf(c) = h[n + k]
  BY <1>1, SumLoop
<1>3. h[n] = h[0] + SumOf(a)
  <2>1. \A i \in 1 .. n : h[i] = h[i - 1] + a[i]
    BY <1>1, <1>2
  <2>2. h[0] \in Nat
    BY <1>2
  <2> QED
    BY <1>1, <2>1, <2>2, SumOfSteps
<1> DEFINE m == [i \in 0 .. k |-> h[n + i]]
<1>4. m[0] = h[n] /\ m[k] = h[n + k] /\ m[0] \in Nat
  <2>1. n + 0 = n /\ n \in 0 .. n + k
    BY <1>1
  <2> QED
    BY <1>1, <2>1
<1>5. \A i \in 1 .. k : m[i] = m[i - 1] + b[i]
  <2> SUFFICES ASSUME NEW i \in 1 .. k PROVE m[i] = m[i - 1] + b[i]
    OBVIOUS
  <2>1. n + i \in 1 .. n + k /\ (n + i) - 1 = n + (i - 1) /\ i \in 0 .. k /\ i - 1 \in 0 .. k
    BY <1>1
  <2>2. h[n + i] = h[n + (i - 1)] + c[n + i] /\ c[n + i] = b[i]
    BY <1>1, <1>2, <2>1
  <2> QED
    BY <2>1, <2>2
<1> HIDE DEF m
<1>6. m[k] = m[0] + SumOf(b)
  BY <1>1, <1>4, <1>5, SumOfSteps
<1>7. SumOf(a) \in Nat /\ SumOf(b) \in Nat
  BY <1>1, SumIsNat
<1>8. SumOf(c) = SumOf(a) + SumOf(b)
  BY <1>2, <1>3, <1>4, <1>6, <1>7
<1> QED
  BY <1>8 DEF c
-----------------------------------------------------------------------------
(* What is read from a tree                                                *)

RawHits == [hash_id : STRING \cup {NoName}, hits_num : Int]
ValidHits == [hash_id : ValidIds, hits_num : Nat \ {0}]
AreasOf(ids) == [area_id : ids, hashid_list : Seq(ValidHits)]
Areas == AreasOf(Int)
Stats == [start_time : Nat, pc_list : Seq(Areas), mobile_list : Seq(Areas)]

(* How often the hash id, or a key, was played by a list.                  *)
HitSum(list, id) == SumOf([i \in DOMAIN list |-> IF list[i].hash_id = id THEN list[i].hits_num ELSE 0])
AreaSum(area, key) == IF area.area_id = key[2] THEN HitSum(area.hashid_list, key[1]) ELSE 0
ListSum(list, key) == SumOf([i \in DOMAIN list |-> AreaSum(list[i], key)])

LEMMA SeqIs ==
  ASSUME NEW s, s \in Seq(ToSet(s))
  PROVE  Len(s) \in Nat /\ DOMAIN s = 1 .. Len(s)
OBVIOUS

LEMMA EmptySum == SumOf(<<>>) = 0
<1>1. <<>> \in [1 .. 0 -> Nat]
  OBVIOUS
<1>2. PICK h \in [0 .. 0 -> Nat] : h[0] = 0 /\ SumOf(<<>>) = h[0]
  BY <1>1, SumLoop
<1> QED
  BY <1>2

LEMMA SingleSum == ASSUME NEW f \in [1 .. 1 -> Nat] PROVE SumOf(f) = f[1]
<1>1. PICK h \in [0 .. 1 -> Nat] : h[0] = 0 /\ SumOf(f) = h[1] /\ \A i \in 1 .. 1 : h[i] = h[i - 1] + f[i]
  <2>1. 1 \in Nat
    OBVIOUS
  <2> QED
    BY <2>1, SumLoop, Zenon
<1>2. h[1] = h[1 - 1] + f[1] /\ 1 - 1 = 0 /\ f[1] \in Nat
  BY <1>1
<1> QED
  BY <1>1, <1>2

LEMMA HitSumIs ==
  ASSUME NEW list \in Seq(ValidHits), NEW id
  PROVE  /\ HitSum(list, id) \in Nat /\ HitSum(<<>>, id) = 0
         /\ \A h \in ValidHits :
              HitSum(Append(list, h), id) = HitSum(list, id) + IF h.hash_id = id THEN h.hits_num ELSE 0
<1> DEFINE Of(h) == IF h.hash_id = id THEN h.hits_num ELSE 0
           f == [i \in DOMAIN list |-> Of(list[i])]
<1>1. \A h \in ValidHits : Of(h) \in Nat
  BY DEF ValidHits
<1>2. DOMAIN list = 1 .. Len(list) /\ Len(list) \in Nat /\ \A i \in 1 .. Len(list) : list[i] \in ValidHits
  OBVIOUS
<1>3. f \in Seq(Nat) /\ f \in [1 .. Len(list) -> Nat] /\ Len(f) = Len(list)
  <2>1. f \in [1 .. Len(list) -> Nat]
    BY <1>1, <1>2
  <2> HIDE DEF f
  <2> QED
    BY <1>2, <2>1
<1>4. HitSum(list, id) = SumOf(f)
  BY DEF HitSum
<1>5. HitSum(<<>>, id) = 0
  <2>1. [i \in DOMAIN <<>> |-> IF <<>>[i].hash_id = id THEN <<>>[i].hits_num ELSE 0] = <<>>
    OBVIOUS
  <2> QED
    BY <2>1, EmptySum, Zenon DEF HitSum
<1>6. ASSUME NEW h \in ValidHits PROVE HitSum(Append(list, h), id) = HitSum(list, id) + Of(h)
  <2> DEFINE more == Append(list, h)
             g == [i \in DOMAIN more |-> Of(more[i])]
  <2>1. DOMAIN more = 1 .. Len(list) + 1 /\ more[Len(list) + 1] = h /\ \A i \in 1 .. Len(list) : more[i] = list[i]
    OBVIOUS
  <2>2. Of(h) \in Nat /\ <<Of(h)>> \in Seq(Nat)
    <3>1. Of(h) \in Nat
      BY <1>1
    <3> HIDE DEF Of
    <3> QED
      BY <3>1
  <2>3. g = f \o <<Of(h)>>
    <3> HIDE DEF more
    <3> DEFINE o == <<Of(h)>>  c == f \o o
    <3>1. o \in Seq(Nat) /\ Len(o) = 1 /\ o[1] = Of(h)
      BY <2>2
    <3> HIDE DEF f, o
    <3>2. /\ c \in [1 .. Len(f) + 1 -> Nat]
          /\ \A i \in 1 .. Len(f) : c[i] = f[i]
          /\ \A i \in 1 .. Len(o) : c[Len(f) + i] = o[i]
      <4>1. /\ f \o o \in [1 .. Len(f) + Len(o) -> Nat]
            /\ \A i \in 1 .. Len(f) : (f \o o)[i] = f[i]
            /\ \A i \in 1 .. Len(o) : (f \o o)[Len(f) + i] = o[i]
        <5>1. f \in Seq(Nat) /\ o \in Seq(Nat)
          BY <1>3, <3>1
        <5> HIDE DEF c
        <5>2. \A x, y \in Seq(Nat) :
                /\ x \o y \in [1 .. Len(x) + Len(y) -> Nat]
                /\ \A i \in 1 .. Len(x) : (x \o y)[i] = x[i]
                /\ \A i \in 1 .. Len(y) : (x \o y)[Len(x) + i] = y[i]
          BY ConcatIs
        <5> QED
          BY <5>1, <5>2, Zenon
      <4> QED
        BY <3>1, <4>1
    <3> HIDE DEF c, more
    <3>3. \A i \in 1 .. Len(list) + 1 : c[i] = Of(more[i])
      <4> SUFFICES ASSUME NEW i \in 1 .. Len(list) + 1 PROVE c[i] = Of(more[i])
        OBVIOUS
      <4>1. CASE i = Len(list) + 1
        <5>1. c[i] = o[1]
          BY <1>3, <3>1, <3>2, <4>1
        <5> QED
          BY <2>1, <3>1, <4>1, <5>1
      <4>2. CASE i # Len(list) + 1
        <5>1. i \in 1 .. Len(list) /\ more[i] = list[i] /\ c[i] = f[i]
          BY <1>2, <1>3, <2>1, <3>2, <4>2
        <5> QED
          BY <1>2, <5>1 DEF f
      <4> QED
        BY <4>1, <4>2
    <3> HIDE DEF Of
    <3>4. c = [i \in 1 .. Len(list) + 1 |-> c[i]]
      BY <1>3, <3>2
    <3>5. c = g
      BY <2>1, <3>3, <3>4
    <3> QED
      BY <3>5 DEF c, o
  <2>4. SumOf(<<Of(h)>>) = Of(h)
    <3> DEFINE x == Of(h)  o == <<x>>
    <3>1. x \in Nat
      BY <2>2
    <3> HIDE DEF x
    <3>2. o \in [1 .. 1 -> Nat] /\ o[1] = x
      BY <3>1
    <3> HIDE DEF o
    <3>3. SumOf(o) = x
      BY <3>2, SingleSum
    <3> QED
      BY <3>3 DEF o, x
  <2>5. HitSum(more, id) = SumOf(g)
    BY DEF HitSum
  <2> HIDE DEF Of, f, g, more
  <2>6. SumOf(f \o <<Of(h)>>) = SumOf(f) + SumOf(<<Of(h)>>)
    BY <1>3, <2>2, SumOfConcat
  <2> QED
    BY <1>4, <2>3, <2>4, <2>5, <2>6 DEF more
<1>7. HitSum(list, id) \in Nat
  BY <1>2, <1>3, <1>4, SumIsNat
<1> QED
  BY <1>5, <1>6, <1>7

(* One hash object: its hit counts, if it is valid, what the object means. *)
HashidRound(h, e) == read_tree_playnum([h EXCEPT !.hash_id = e[1]], e[2])

LEMMA HashidLoop ==
  ASSUME NEW v, IsHashid(v)
  PROVE  \E h \in [0 .. Len(Elems(v, "object")) -> RawHits] :
           /\ h[0] = NoHits /\ read_tree_hashid(NoHits, v) = h[Len(Elems(v, "object"))]
           /\ \A i \in 1 .. Len(Elems(v, "object")) : h[i] = HashidRound(h[i - 1], Elems(v, "object")[i])
<1> DEFINE n == Len(Elems(v, "object"))
           G == [i \in 1 .. n |-> [acc \in RawHits |-> HashidRound(acc, Elems(v, "object")[i])]]
           IsIter(iter) == iter = [S \in SUBSET DOMAIN Elems(v, "object") |->
             IF S = {} THEN NoHits ELSE HashidRound(iter[S \ {Max(S)}], Elems(v, "object")[Max(S)])]
<1>0. n \in Nat /\ DOMAIN Elems(v, "object") = 1 .. n /\ NoHits \in RawHits
  <2>1. Elems(v, "object") \in Seq(ToSet(Elems(v, "object")))
    BY DEF IsHashid, Each
  <2>2. NoHits \in RawHits
    BY DEF NoHits, RawHits
  <2> QED
    BY <2>1, <2>2, SeqIs
<1>a. ASSUME NEW i \in 1 .. n, NEW acc \in RawHits PROVE HashidRound(acc, Elems(v, "object")[i]) \in RawHits
  <2>1. Elems(v, "object")[i][1] \in STRING /\ IsPlaynum(Elems(v, "object")[i][2])
    BY <1>0 DEF IsHashid, Each
  <2> QED
    BY <2>1 DEF RawHits, HashidRound, read_tree_playnum, IsPlaynum
<1>1. G \in [1 .. n -> [RawHits -> RawHits]]
  BY <1>a
<1>2. read_tree_hashid(NoHits, v) = (CHOOSE g : IsIter(g))[DOMAIN Elems(v, "object")]
  BY DEF read_tree_hashid, HashidRound, FoldLeft, MapThenFoldSet
<1> HIDE DEF n
<1>3. PICK g \in [SUBSET (1 .. n) -> RawHits] : IsLoop(g, n, NoHits, G)
  <2> HIDE DEF G, IsIter
  <2> QED
    BY <1>0, <1>1, LoopExists, Zenon
<1>4. IsIter(g)
  <2>1. ASSUME NEW S \in SUBSET (1 .. n), S # {}
        PROVE  G[Max(S)][g[S \ {Max(S)}]] = HashidRound(g[S \ {Max(S)}], Elems(v, "object")[Max(S)])
    <3>1. Max(S) \in 1 .. n /\ S \ {Max(S)} \in SUBSET (1 .. n)
      BY <1>0, <2>1, MaxIsIn
    <3>2. g[S \ {Max(S)}] \in RawHits
      BY <1>3, <3>1
    <3> QED
      BY <3>1, <3>2
  <2> HIDE DEF G
  <2>2. [S \in SUBSET (1 .. n) |-> IF S = {} THEN NoHits ELSE G[Max(S)][g[S \ {Max(S)}]]]
        = [S \in SUBSET (1 .. n) |-> IF S = {} THEN NoHits ELSE HashidRound(g[S \ {Max(S)}], Elems(v, "object")[Max(S)])]
    BY <2>1
  <2> QED
    BY <1>0, <1>3, <2>2, Zenon DEF IsLoop
<1>5. PICK iter : IsIter(iter) /\ read_tree_hashid(NoHits, v) = iter[1 .. n]
  <2> HIDE DEF IsIter
  <2> QED
    BY <1>0, <1>2, <1>4, Zenon
<1>6. /\ iter[{}] = NoHits
      /\ \A S \in SUBSET (1 .. n) : S # {} => iter[S] = HashidRound(iter[S \ {Max(S)}], Elems(v, "object")[Max(S)])
  <2>1. \A S \in SUBSET (1 .. n) : iter[S] = IF S = {} THEN NoHits ELSE HashidRound(iter[S \ {Max(S)}], Elems(v, "object")[Max(S)])
    BY <1>0, <1>5
  <2> QED
    BY <2>1
<1>7. ASSUME NEW S \in SUBSET (1 .. n), S # {}, iter[S \ {Max(S)}] \in RawHits
      PROVE  iter[S] = G[Max(S)][iter[S \ {Max(S)}]]
  <2>1. Max(S) \in 1 .. n
    BY <1>0, <1>7, MaxIsIn
  <2>2. iter[S] = HashidRound(iter[S \ {Max(S)}], Elems(v, "object")[Max(S)])
    BY <1>6, <1>7, Zenon
  <2> QED
    BY <1>7, <2>1, <2>2
<1>8. \A i \in 1 .. n : \A acc \in RawHits : G[i][acc] = HashidRound(acc, Elems(v, "object")[i])
  OBVIOUS
<1> HIDE DEF G, IsIter
<1>b. Iterates(iter, n, RawHits, NoHits, G)
  <2>1. iter[{}] = NoHits
    BY <1>6
  <2>2. \A S \in SUBSET (1 .. n) :
          S # {} /\ iter[S \ {Max(S)}] \in RawHits => iter[S] = G[Max(S)][iter[S \ {Max(S)}]]
    BY <1>7, Zenon
  <2> QED
    BY <2>1, <2>2, Zenon DEF Iterates
<1>9. PICK h \in [0 .. n -> RawHits] : IsRounds(h, iter, n, NoHits, G)
  <2>1. /\ n \in Nat /\ NoHits \in RawHits /\ G \in [1 .. n -> [RawHits -> RawHits]]
        /\ Iterates(iter, n, RawHits, NoHits, G)
    BY <1>0, <1>1, <1>b
  <2> QED
    BY <2>1, LoopRounds, Zenon
<1>10. \A i \in 1 .. n : h[i] = HashidRound(h[i - 1], Elems(v, "object")[i])
  <2> SUFFICES ASSUME NEW i \in 1 .. n PROVE h[i] = HashidRound(h[i - 1], Elems(v, "object")[i])
    OBVIOUS
  <2>1. h[i - 1] \in RawHits
    BY <1>0, <1>9
  <2> QED
    BY <1>8, <1>9, <2>1 DEF IsRounds
<1> QED
  BY <1>5, <1>9, <1>10 DEF n, IsRounds

LEMMA HashidIs ==
  ASSUME NEW v, IsHashid(v)
  PROVE  LET h == read_tree_hashid(NoHits, v) IN
         /\ hashid_stat_valid(h) => h \in ValidHits
         /\ \A id \in ValidIds :
              /\ InHashid(v, id) \in Nat
              /\ InHashid(v, id) = IF hashid_stat_valid(h) /\ h.hash_id = id THEN h.hits_num ELSE 0
<1> DEFINE s == Elems(v, "object")  n == Len(s)  r == read_tree_hashid(NoHits, v)
<1>1. PICK h \in [0 .. n -> RawHits] :
        h[0] = NoHits /\ r = h[n] /\ \A i \in 1 .. n : h[i] = HashidRound(h[i - 1], s[i])
  BY HashidLoop
<1>2. n \in Nat /\ n <= 1 /\ DOMAIN s = 1 .. n /\ \A i \in 1 .. n : s[i][1] \in STRING /\ IsPlaynum(s[i][2])
  <2>1. s \in Seq(ToSet(s)) /\ n <= 1 /\ \A i \in DOMAIN s : s[i][1] \in STRING /\ IsPlaynum(s[i][2])
    BY DEF IsHashid, Each
  <2> HIDE DEF s
  <2> QED
    BY <2>1, SeqIs
<1>3. r \in RawHits
  BY <1>1, <1>2
<1>4. hashid_stat_valid(r) => r \in ValidHits
  BY <1>3 DEF hashid_stat_valid, RawHits, ValidHits
<1>5. ASSUME NEW id \in ValidIds
      PROVE  InHashid(v, id) = (IF hashid_stat_valid(r) /\ r.hash_id = id THEN r.hits_num ELSE 0)
             /\ InHashid(v, id) \in Nat
  <2> DEFINE Of(e) == IF e[1] = id THEN Playnum(e[2]) ELSE 0
             f == [i \in DOMAIN s |-> Of(s[i])]
  <2>1. InHashid(v, id) = SumOf(f)
    BY DEF InHashid, SumOver
  <2>2. CASE n = 0
    <3>1. f = <<>>
      BY <1>2, <2>2
    <3>2. SumOf(f) = 0
      BY <3>1, EmptySum, Zenon
    <3>3. r = NoHits
      BY <1>1, <2>2
    <3>4. ~hashid_stat_valid(NoHits)
      BY DEF hashid_stat_valid, NoHits
    <3> HIDE DEF r
    <3> QED
      BY <2>1, <3>2, <3>3, <3>4
  <2>3. CASE n = 1
    <3>1. r = HashidRound(NoHits, s[1])
      BY <1>1, <2>3
    <3>2. IsPlaynum(s[1][2])
      BY <1>2, <2>3
    <3>3. Of(s[1]) \in Nat /\ Of(s[1]) = IF hashid_stat_valid(r) /\ r.hash_id = id THEN r.hits_num ELSE 0
      <4> DEFINE e == s[1]
      <4>1. r = read_tree_playnum([NoHits EXCEPT !.hash_id = e[1]], e[2]) /\ IsPlaynum(e[2])
        BY <3>1, <3>2 DEF HashidRound
      <4> HIDE DEF s, r, e
      <4>2. [NoHits EXCEPT !.hash_id = e[1]] = [hash_id |-> e[1], hits_num |-> 0]
        BY DEF NoHits
      <4>3. CASE e[2].type \in {"string", "int"}
        <5>1. r = [hash_id |-> e[1], hits_num |-> e[2].num] /\ e[2].num \in Int
          BY <4>1, <4>2, <4>3 DEF read_tree_playnum, IsPlaynum
        <5>2. Playnum(e[2]) = IF e[2].num > 0 THEN e[2].num ELSE 0
          BY <4>3 DEF Playnum
        <5>3. Of(e) \in Nat /\ Of(e) = IF hashid_stat_valid(r) /\ r.hash_id = id THEN r.hits_num ELSE 0
          BY <5>1, <5>2 DEF hashid_stat_valid
        <5> QED
          BY <5>3 DEF e
      <4>4. CASE e[2].type \notin {"string", "int"}
        <5>1. r = [hash_id |-> e[1], hits_num |-> 0]
          BY <4>1, <4>2, <4>4 DEF read_tree_playnum
        <5>2. Playnum(e[2]) = 0
          BY <4>4 DEF Playnum
        <5>3. Of(e) \in Nat /\ Of(e) = IF hashid_stat_valid(r) /\ r.hash_id = id THEN r.hits_num ELSE 0
          BY <5>1, <5>2 DEF hashid_stat_valid
        <5> QED
          BY <5>3 DEF e
      <4> QED
        BY <4>3, <4>4
    <3>4. f \in [1 .. 1 -> Nat] /\ f[1] = Of(s[1])
      <4> HIDE DEF Of
      <4> QED
        BY <1>2, <2>3, <3>3
    <3> HIDE DEF f, Of
    <3>5. SumOf(f) = Of(s[1])
      BY <3>4, SingleSum
    <3> QED
      BY <2>1, <3>3, <3>5
  <2> QED
    BY <1>2, <2>2, <2>3
<1> QED
  BY <1>4, <1>5

(* The hashes of an area: what is valid is appended.                       *)
LEMMA HashidsLoop ==
  ASSUME NEW ids, NEW a \in AreasOf(ids), NEW v, Each(v, "array", IsHashid)
  PROVE  \E h \in [0 .. Len(Elems(v, "array")) -> AreasOf(ids)] :
           /\ h[0] = a /\ read_tree_hashids(a, v) = h[Len(Elems(v, "array"))]
           /\ \A i \in 1 .. Len(Elems(v, "array")) : h[i] = WithHit(h[i - 1], read_tree_hashid(NoHits, Elems(v, "array")[i]))
<1> DEFINE n == Len(Elems(v, "array"))
           G == [i \in 1 .. n |-> [acc \in AreasOf(ids) |-> WithHit(acc, read_tree_hashid(NoHits, Elems(v, "array")[i]))]]
           IsIter(iter) == iter = [S \in SUBSET DOMAIN Elems(v, "array") |->
             IF S = {} THEN a ELSE WithHit(iter[S \ {Max(S)}], read_tree_hashid(NoHits, Elems(v, "array")[Max(S)]))]
<1>0. n \in Nat /\ DOMAIN Elems(v, "array") = 1 .. n /\ a \in AreasOf(ids)
  BY SeqIs DEF Each
<1>a. ASSUME NEW i \in 1 .. n, NEW acc \in AreasOf(ids) PROVE WithHit(acc, read_tree_hashid(NoHits, Elems(v, "array")[i])) \in AreasOf(ids)
  <2>1. IsHashid(Elems(v, "array")[i])
    BY <1>0 DEF Each
  <2> DEFINE h == read_tree_hashid(NoHits, Elems(v, "array")[i])
  <2>2. hashid_stat_valid(h) => h \in ValidHits
    BY <2>1, HashidIs
  <2> HIDE DEF h
  <2>3. acc.hashid_list \in Seq(ValidHits)
    BY DEF AreasOf
  <2>4. hashid_stat_valid(h) => Append(acc.hashid_list, h) \in Seq(ValidHits)
    BY <2>2, <2>3
  <2>5. WithHit(acc, h) \in AreasOf(ids)
    BY <2>4 DEF WithHit, AreasOf
  <2> QED
    BY <2>5 DEF h
<1>1. G \in [1 .. n -> [AreasOf(ids) -> AreasOf(ids)]]
  BY <1>a
<1>2. read_tree_hashids(a, v) = (CHOOSE g : IsIter(g))[DOMAIN Elems(v, "array")]
  BY DEF read_tree_hashids, FoldLeft, MapThenFoldSet
<1> HIDE DEF n
<1>3. PICK g \in [SUBSET (1 .. n) -> AreasOf(ids)] : IsLoop(g, n, a, G)
  <2> HIDE DEF G, IsIter
  <2> QED
    BY <1>0, <1>1, LoopExists, Zenon
<1>4. IsIter(g)
  <2>1. ASSUME NEW S \in SUBSET (1 .. n), S # {}
        PROVE  G[Max(S)][g[S \ {Max(S)}]] = WithHit(g[S \ {Max(S)}], read_tree_hashid(NoHits, Elems(v, "array")[Max(S)]))
    <3>1. Max(S) \in 1 .. n /\ S \ {Max(S)} \in SUBSET (1 .. n)
      BY <1>0, <2>1, MaxIsIn
    <3>2. g[S \ {Max(S)}] \in AreasOf(ids)
      BY <1>3, <3>1
    <3> QED
      BY <3>1, <3>2
  <2> HIDE DEF G
  <2>2. [S \in SUBSET (1 .. n) |-> IF S = {} THEN a ELSE G[Max(S)][g[S \ {Max(S)}]]]
        = [S \in SUBSET (1 .. n) |-> IF S = {} THEN a ELSE WithHit(g[S \ {Max(S)}], read_tree_hashid(NoHits, Elems(v, "array")[Max(S)]))]
    BY <2>1
  <2> QED
    BY <1>0, <1>3, <2>2, Zenon DEF IsLoop
<1>5. PICK iter : IsIter(iter) /\ read_tree_hashids(a, v) = iter[1 .. n]
  <2> HIDE DEF IsIter
  <2> QED
    BY <1>0, <1>2, <1>4, Zenon
<1>6. /\ iter[{}] = a
      /\ \A S \in SUBSET (1 .. n) : S # {} => iter[S] = WithHit(iter[S \ {Max(S)}], read_tree_hashid(NoHits, Elems(v, "array")[Max(S)]))
  <2>1. \A S \in SUBSET (1 .. n) : iter[S] = IF S = {} THEN a ELSE WithHit(iter[S \ {Max(S)}], read_tree_hashid(NoHits, Elems(v, "array")[Max(S)]))
    BY <1>0, <1>5
  <2> QED
    BY <2>1
<1>7. ASSUME NEW S \in SUBSET (1 .. n), S # {}, iter[S \ {Max(S)}] \in AreasOf(ids)
      PROVE  iter[S] = G[Max(S)][iter[S \ {Max(S)}]]
  <2>1. Max(S) \in 1 .. n
    BY <1>0, <1>7, MaxIsIn
  <2>2. iter[S] = WithHit(iter[S \ {Max(S)}], read_tree_hashid(NoHits, Elems(v, "array")[Max(S)]))
    BY <1>6, <1>7, Zenon
  <2> QED
    BY <1>7, <2>1, <2>2
<1>8. \A i \in 1 .. n : \A acc \in AreasOf(ids) : G[i][acc] = WithHit(acc, read_tree_hashid(NoHits, Elems(v, "array")[i]))
  OBVIOUS
<1> HIDE DEF G, IsIter
<1>b. Iterates(iter, n, AreasOf(ids), a, G)
  <2>1. iter[{}] = a
    BY <1>6
  <2>2. \A S \in SUBSET (1 .. n) :
          S # {} /\ iter[S \ {Max(S)}] \in AreasOf(ids) => iter[S] = G[Max(S)][iter[S \ {Max(S)}]]
    BY <1>7, Zenon
  <2> QED
    BY <2>1, <2>2, Zenon DEF Iterates
<1>9. PICK h \in [0 .. n -> AreasOf(ids)] : IsRounds(h, iter, n, a, G)
  <2>1. /\ n \in Nat /\ a \in AreasOf(ids) /\ G \in [1 .. n -> [AreasOf(ids) -> AreasOf(ids)]]
        /\ Iterates(iter, n, AreasOf(ids), a, G)
    BY <1>0, <1>1, <1>b
  <2> QED
    BY <2>1, LoopRounds, Zenon
<1>10. \A i \in 1 .. n : h[i] = WithHit(h[i - 1], read_tree_hashid(NoHits, Elems(v, "array")[i]))
  <2> SUFFICES ASSUME NEW i \in 1 .. n PROVE h[i] = WithHit(h[i - 1], read_tree_hashid(NoHits, Elems(v, "array")[i]))
    OBVIOUS
  <2>1. h[i - 1] \in AreasOf(ids)
    BY <1>0, <1>9
  <2> QED
    BY <1>8, <1>9, <2>1 DEF IsRounds
<1> QED
  BY <1>5, <1>9, <1>10 DEF n, IsRounds

LEMMA HashidsAre ==
  ASSUME NEW ids, NEW a \in AreasOf(ids), NEW v, Each(v, "array", IsHashid), NEW id \in ValidIds
  PROVE  InHashids(v, id) \in Nat /\ HitSum(read_tree_hashids(a, v).hashid_list, id) = HitSum(a.hashid_list, id) + InHashids(v, id)
<1> DEFINE s == Elems(v, "array")
           n == Len(s)
           r == read_tree_hashids(a, v)
           Of(e) == InHashid(e, id)
           M(x) == HitSum(x.hashid_list, id)
           f == [i \in DOMAIN s |-> Of(s[i])]
<1>1. n \in Nat /\ DOMAIN s = 1 .. n /\ a \in AreasOf(ids)
  BY SeqIs DEF Each
<1>2. PICK h \in [0 .. n -> AreasOf(ids)] :
        h[0] = a /\ r = h[n] /\ \A i \in 1 .. n : h[i] = WithHit(h[i - 1], read_tree_hashid(NoHits, s[i]))
  BY HashidsLoop
<1>3. InHashids(v, id) = SumOf(f)
  BY DEF InHashids, SumOver
<1> HIDE DEF n, r
<1>4. ASSUME NEW i \in 1 .. n PROVE Of(s[i]) \in Nat
  <2>1. IsHashid(s[i])
    BY <1>1 DEF Each
  <2> HIDE DEF s
  <2> QED
    BY <2>1, HashidIs
<1>5. ASSUME NEW i \in 1 .. n, NEW x \in AreasOf(ids) PROVE M(WithHit(x, read_tree_hashid(NoHits, s[i]))) = M(x) + Of(s[i])
  <2>1. IsHashid(s[i])
    BY <1>1 DEF Each
  <2> DEFINE g == read_tree_hashid(NoHits, s[i])
  <2> HIDE DEF s
  <2>2. /\ hashid_stat_valid(g) => g \in ValidHits
        /\ InHashid(s[i], id) = IF hashid_stat_valid(g) /\ g.hash_id = id THEN g.hits_num ELSE 0
    BY <2>1, HashidIs
  <2> HIDE DEF g
  <2>3. x.hashid_list \in Seq(ValidHits) /\ x = [area_id |-> x.area_id, hashid_list |-> x.hashid_list]
    BY DEF AreasOf
  <2>4. HitSum(x.hashid_list, id) \in Nat
    BY <2>3, HitSumIs
  <2>5. CASE hashid_stat_valid(g)
    <3>1. WithHit(x, g).hashid_list = Append(x.hashid_list, g)
      BY <2>3, <2>5 DEF WithHit
    <3>2. HitSum(Append(x.hashid_list, g), id) = HitSum(x.hashid_list, id) + IF g.hash_id = id THEN g.hits_num ELSE 0
      BY <2>2, <2>3, <2>5, HitSumIs
    <3>3. M(WithHit(x, g)) = M(x) + Of(s[i])
      BY <2>2, <2>5, <3>1, <3>2
    <3> QED
      BY <3>3 DEF g
  <2>6. CASE ~hashid_stat_valid(g)
    <3>1. WithHit(x, g) = x
      BY <2>6 DEF WithHit
    <3>3. M(WithHit(x, g)) = M(x) + Of(s[i])
      BY <2>2, <2>4, <2>6, <3>1
    <3> QED
      BY <3>3 DEF g
  <2> QED
    BY <2>5, <2>6
<1>6. M(a) \in Nat
  BY HitSumIs DEF AreasOf
<1> DEFINE grown == [i \in 0 .. n |-> M(h[i])]
<1> HIDE DEF Of, M, s
<1>7. f \in [1 .. n -> Nat] /\ \A i \in 1 .. n : f[i] = Of(s[i])
  BY <1>1, <1>4
<1> HIDE DEF f
<1>8. grown[0] = M(a) /\ grown[n] = M(r)
  BY <1>1, <1>2
<1>9. \A i \in 1 .. n : grown[i] = grown[i - 1] + f[i]
  <2> SUFFICES ASSUME NEW i \in 1 .. n PROVE grown[i] = grown[i - 1] + f[i]
    OBVIOUS
  <2>1. i \in 0 .. n /\ i - 1 \in 0 .. n
    BY <1>1
  <2>2. h[i - 1] \in AreasOf(ids) /\ h[i] = WithHit(h[i - 1], read_tree_hashid(NoHits, s[i]))
    BY <1>1, <1>2, <2>1
  <2>3. M(h[i]) = M(h[i - 1]) + Of(s[i])
    BY <1>5, <2>2
  <2> QED
    BY <1>7, <2>1, <2>3
<1> HIDE DEF grown
<1>10. grown[n] = grown[0] + SumOf(f)
  BY <1>1, <1>6, <1>7, <1>8, <1>9, SumOfSteps
<1>11. SumOf(f) \in Nat
  BY <1>1, <1>7, SumIsNat
<1>12. InHashids(v, id) \in Nat /\ M(r) = M(a) + InHashids(v, id)
  BY <1>3, <1>8, <1>10, <1>11
<1> QED
  BY <1>12 DEF M, r

(* One area object: its hit counts are what the object means.              *)
AreaRound(a, e) == read_tree_hashids([a EXCEPT !.area_id = atoi[e[1]]], e[2])

(* What it is to add hashes to an area.                                    *)
LEMMA HashidsAdded ==
  ASSUME NEW ids, NEW a \in AreasOf(ids), NEW v, Each(v, "array", IsHashid)
  PROVE  read_tree_hashids(a, v) \in AreasOf(ids)
<1> DEFINE n == Len(Elems(v, "array"))
<1>1. PICK h \in [0 .. n -> AreasOf(ids)] :
        h[0] = a /\ read_tree_hashids(a, v) = h[n]
        /\ \A i \in 1 .. n : h[i] = WithHit(h[i - 1], read_tree_hashid(NoHits, Elems(v, "array")[i]))
  BY HashidsLoop
<1>2. n \in Nat
  BY SeqIs DEF Each
<1> HIDE DEF n
<1> QED
  BY <1>1, <1>2

LEMMA AreaRoundIs ==
  ASSUME NEW a \in Areas, NEW e, atoi[e[1]] \in Int, Each(e[2], "array", IsHashid)
  PROVE  /\ AreaRound(a, e) \in Areas /\ AreaRound(a, e).area_id = atoi[e[1]]
         /\ \A id \in ValidIds :
              /\ InHashids(e[2], id) \in Nat
              /\ HitSum(AreaRound(a, e).hashid_list, id) = HitSum(a.hashid_list, id) + InHashids(e[2], id)
<1> DEFINE b == [a EXCEPT !.area_id = atoi[e[1]]]
<1>1. b \in AreasOf({atoi[e[1]]}) /\ b.hashid_list = a.hashid_list
  BY DEF Areas, AreasOf
<1>2. AreaRound(a, e) = read_tree_hashids(b, e[2])
  BY DEF AreaRound
<1> HIDE DEF b
<1>3. AreaRound(a, e) \in AreasOf({atoi[e[1]]})
  BY <1>1, <1>2, HashidsAdded
<1>4. \A id \in ValidIds :
        /\ InHashids(e[2], id) \in Nat
        /\ HitSum(AreaRound(a, e).hashid_list, id) = HitSum(a.hashid_list, id) + InHashids(e[2], id)
  BY <1>1, <1>2, HashidsAre
<1> QED
  BY <1>3, <1>4 DEF Areas, AreasOf

LEMMA AreaLoop ==
  ASSUME NEW v, IsArea(v)
  PROVE  \E h \in [0 .. Len(Elems(v, "object")) -> Areas] :
           /\ h[0] = NoArea /\ read_tree_area(NoArea, v) = h[Len(Elems(v, "object"))]
           /\ \A i \in 1 .. Len(Elems(v, "object")) : h[i] = AreaRound(h[i - 1], Elems(v, "object")[i])
<1> DEFINE n == Len(Elems(v, "object"))
           G == [i \in 1 .. n |-> [acc \in Areas |-> AreaRound(acc, Elems(v, "object")[i])]]
           IsIter(iter) == iter = [S \in SUBSET DOMAIN Elems(v, "object") |->
             IF S = {} THEN NoArea ELSE AreaRound(iter[S \ {Max(S)}], Elems(v, "object")[Max(S)])]
<1>0. n \in Nat /\ DOMAIN Elems(v, "object") = 1 .. n /\ NoArea \in Areas
  <2>1. NoArea \in Areas
    BY DEF NoArea, Areas, AreasOf
  <2> QED
    BY <2>1, SeqIs DEF IsArea, Each
<1>a. ASSUME NEW i \in 1 .. n, NEW acc \in Areas PROVE AreaRound(acc, Elems(v, "object")[i]) \in Areas
  <2> DEFINE e == Elems(v, "object")[i]
  <2>1. atoi[e[1]] \in Int /\ Each(e[2], "array", IsHashid)
    <3>1. Each(v, "object", LAMBDA x : atoi[x[1]] \in Int /\ Each(x[2], "array", IsHashid))
      BY DEF IsArea
    <3> QED
      BY <1>0, <3>1 DEF Each
  <2> HIDE DEF e
  <2>2. AreaRound(acc, e) \in Areas
    BY <2>1, AreaRoundIs
  <2> QED
    BY <2>2 DEF e
<1>1. G \in [1 .. n -> [Areas -> Areas]]
  BY <1>a
<1>2. read_tree_area(NoArea, v) = (CHOOSE g : IsIter(g))[DOMAIN Elems(v, "object")]
  BY DEF read_tree_area, AreaRound, FoldLeft, MapThenFoldSet
<1> HIDE DEF n
<1>3. PICK g \in [SUBSET (1 .. n) -> Areas] : IsLoop(g, n, NoArea, G)
  <2> HIDE DEF G, IsIter
  <2> QED
    BY <1>0, <1>1, LoopExists, Zenon
<1>4. IsIter(g)
  <2>1. ASSUME NEW S \in SUBSET (1 .. n), S # {}
        PROVE  G[Max(S)][g[S \ {Max(S)}]] = AreaRound(g[S \ {Max(S)}], Elems(v, "object")[Max(S)])
    <3>1. Max(S) \in 1 .. n /\ S \ {Max(S)} \in SUBSET (1 .. n)
      BY <1>0, <2>1, MaxIsIn
    <3>2. g[S \ {Max(S)}] \in Areas
      BY <1>3, <3>1
    <3> QED
      BY <3>1, <3>2
  <2> HIDE DEF G
  <2>2. [S \in SUBSET (1 .. n) |-> IF S = {} THEN NoArea ELSE G[Max(S)][g[S \ {Max(S)}]]]
        = [S \in SUBSET (1 .. n) |-> IF S = {} THEN NoArea ELSE AreaRound(g[S \ {Max(S)}], Elems(v, "object")[Max(S)])]
    BY <2>1
  <2> QED
    BY <1>0, <1>3, <2>2, Zenon DEF IsLoop
<1>5. PICK iter : IsIter(iter) /\ read_tree_area(NoArea, v) = iter[1 .. n]
  <2> HIDE DEF IsIter
  <2> QED
    BY <1>0, <1>2, <1>4, Zenon
<1>6. /\ iter[{}] = NoArea
      /\ \A S \in SUBSET (1 .. n) : S # {} => iter[S] = AreaRound(iter[S \ {Max(S)}], Elems(v, "object")[Max(S)])
  <2>1. \A S \in SUBSET (1 .. n) : iter[S] = IF S = {} THEN NoArea ELSE AreaRound(iter[S \ {Max(S)}], Elems(v, "object")[Max(S)])
    BY <1>0, <1>5
  <2> QED
    BY <2>1
<1>7. ASSUME NEW S \in SUBSET (1 .. n), S # {}, iter[S \ {Max(S)}] \in Areas
      PROVE  iter[S] = G[Max(S)][iter[S \ {Max(S)}]]
  <2>1. Max(S) \in 1 .. n
    BY <1>0, <1>7, MaxIsIn
  <2>2. iter[S] = AreaRound(iter[S \ {Max(S)}], Elems(v, "object")[Max(S)])
    BY <1>6, <1>7, Zenon
  <2> QED
    BY <1>7, <2>1, <2>2
<1>8. \A i \in 1 .. n : \A acc \in Areas : G[i][acc] = AreaRound(acc, Elems(v, "object")[i])
  OBVIOUS
<1> HIDE DEF G, IsIter
<1>b. Iterates(iter, n, Areas, NoArea, G)
  <2>1. iter[{}] = NoArea
    BY <1>6
  <2>2. \A S \in SUBSET (1 .. n) :
          S # {} /\ iter[S \ {Max(S)}] \in Areas => iter[S] = G[Max(S)][iter[S \ {Max(S)}]]
    BY <1>7, Zenon
  <2> QED
    BY <2>1, <2>2, Zenon DEF Iterates
<1>9. PICK h \in [0 .. n -> Areas] : IsRounds(h, iter, n, NoArea, G)
  <2>1. /\ n \in Nat /\ NoArea \in Areas /\ G \in [1 .. n -> [Areas -> Areas]]
        /\ Iterates(iter, n, Areas, NoArea, G)
    BY <1>0, <1>1, <1>b
  <2> QED
    BY <2>1, LoopRounds, Zenon
<1>10. \A i \in 1 .. n : h[i] = AreaRound(h[i - 1], Elems(v, "object")[i])
  <2> SUFFICES ASSUME NEW i \in 1 .. n PROVE h[i] = AreaRound(h[i - 1], Elems(v, "object")[i])
    OBVIOUS
  <2>1. h[i - 1] \in Areas
    BY <1>0, <1>9
  <2> QED
    BY <1>8, <1>9, <2>1 DEF IsRounds
<1> QED
  BY <1>5, <1>9, <1>10 DEF n, IsRounds

KeysOf == ValidIds \X Int

LEMMA AreaIs ==
  ASSUME NEW v, IsArea(v)
  PROVE  LET a == read_tree_area(NoArea, v) IN
         a \in Areas /\ \A key \in KeysOf : InArea(v, key) \in Nat /\ AreaSum(a, key) = InArea(v, key)
<1> DEFINE s == Elems(v, "object")  n == Len(s)  r == read_tree_area(NoArea, v)
<1>1. PICK h \in [0 .. n -> Areas] :
        h[0] = NoArea /\ r = h[n] /\ \A i \in 1 .. n : h[i] = AreaRound(h[i - 1], s[i])
  BY AreaLoop
<1>2. /\ n \in Nat /\ n <= 1 /\ DOMAIN s = 1 .. n
      /\ \A i \in 1 .. n : atoi[s[i][1]] \in Int /\ Each(s[i][2], "array", IsHashid)
  <2>1. /\ Each(v, "object", LAMBDA x : atoi[x[1]] \in Int /\ Each(x[2], "array", IsHashid))
        /\ n <= 1
    BY DEF IsArea
  <2>2. s \in Seq(ToSet(s)) /\ \A i \in DOMAIN s : atoi[s[i][1]] \in Int /\ Each(s[i][2], "array", IsHashid)
    BY <2>1 DEF Each
  <2> HIDE DEF s
  <2> QED
    BY <2>1, <2>2, SeqIs
<1> HIDE DEF r
<1>3. r \in Areas
  BY <1>1, <1>2
<1>4. ASSUME NEW key \in KeysOf
      PROVE  InArea(v, key) \in Nat /\ AreaSum(r, key) = InArea(v, key)
  <2> DEFINE Of(e) == IF atoi[e[1]] = key[2] THEN InHashids(e[2], key[1]) ELSE 0
             f == [i \in DOMAIN s |-> Of(s[i])]
  <2>1. InArea(v, key) = SumOf(f)
    BY DEF InArea, SumOver
  <2>2. key[1] \in ValidIds
    BY DEF KeysOf
  <2>3. HitSum(<<>>, key[1]) = 0
    BY HitSumIs
  <2> HIDE DEF n, s
  <2>4. CASE n = 0
    <3>1. f = <<>>
      BY <1>2, <2>4
    <3>2. SumOf(f) = 0
      BY <3>1, EmptySum, Zenon
    <3>3. r = NoArea
      BY <1>1, <2>4
    <3>4. AreaSum(r, key) = 0
      BY <2>3, <3>3 DEF AreaSum, NoArea
    <3> HIDE DEF f
    <3> QED
      BY <2>1, <3>2, <3>4
  <2>5. CASE n = 1
    <3> DEFINE e == s[1]
    <3>1. r = AreaRound(NoArea, e)
      BY <1>1, <2>5
    <3>2. atoi[e[1]] \in Int /\ Each(e[2], "array", IsHashid)
      BY <1>2, <2>5
    <3>3. NoArea \in Areas /\ NoArea.hashid_list = <<>>
      BY DEF NoArea, Areas, AreasOf
    <3> HIDE DEF e
    <3>4. /\ r.area_id = atoi[e[1]] /\ InHashids(e[2], key[1]) \in Nat
          /\ HitSum(r.hashid_list, key[1]) = HitSum(<<>>, key[1]) + InHashids(e[2], key[1])
      BY <2>2, <3>1, <3>2, <3>3, AreaRoundIs
    <3>5. Of(e) \in Nat /\ AreaSum(r, key) = Of(e)
      BY <2>3, <3>4 DEF AreaSum
    <3> HIDE DEF Of
    <3>6. f \in [1 .. 1 -> Nat] /\ f[1] = Of(e)
      BY <1>2, <2>5, <3>5 DEF e
    <3> HIDE DEF f
    <3>7. SumOf(f) = Of(e)
      BY <3>6, SingleSum
    <3> QED
      BY <2>1, <3>5, <3>7
  <2> QED
    BY <1>2, <2>4, <2>5
<1> QED
  BY <1>3, <1>4 DEF r

(* A list of areas, one behind another.                                    *)
LEMMA AreaSumIs == ASSUME NEW a \in Areas, NEW key PROVE AreaSum(a, key) \in Nat
  BY HitSumIs DEF AreaSum, Areas, AreasOf

LEMMA ListSumIs ==
  ASSUME NEW list \in Seq(Areas), NEW key
  PROVE  /\ [i \in DOMAIN list |-> AreaSum(list[i], key)] \in Seq(Nat)
         /\ Len([i \in DOMAIN list |-> AreaSum(list[i], key)]) = Len(list)
         /\ ListSum(list, key) \in Nat /\ ListSum(<<>>, key) = 0
<1> DEFINE f == [i \in DOMAIN list |-> AreaSum(list[i], key)]
<1>1. DOMAIN list = 1 .. Len(list) /\ Len(list) \in Nat /\ \A i \in 1 .. Len(list) : list[i] \in Areas
  OBVIOUS
<1>2. f \in [1 .. Len(list) -> Nat]
  BY <1>1, AreaSumIs
<1>3. ListSum(list, key) = SumOf(f)
  BY DEF ListSum
<1>4. ListSum(<<>>, key) = 0
  <2>1. [i \in DOMAIN <<>> |-> AreaSum(<<>>[i], key)] = <<>>
    OBVIOUS
  <2> QED
    BY <2>1, EmptySum, Zenon DEF ListSum
<1> HIDE DEF f
<1>5. f \in Seq(Nat) /\ Len(f) = Len(list) /\ SumOf(f) \in Nat
  BY <1>1, <1>2, SumIsNat
<1> QED
  BY <1>3, <1>4, <1>5 DEF f

LEMMA ListSumConcat ==
  ASSUME NEW a \in Seq(Areas), NEW b \in Seq(Areas), NEW key
  PROVE  ListSum(a \o b, key) = ListSum(a, key) + ListSum(b, key)
<1> DEFINE F(list) == [i \in DOMAIN list |-> AreaSum(list[i], key)]
           c == a \o b
<1>1. F(a) \in Seq(Nat) /\ F(b) \in Seq(Nat) /\ Len(F(a)) = Len(a) /\ Len(F(b)) = Len(b)
  BY ListSumIs
<1>2. F(c) = F(a) \o F(b)
  <2>1. /\ Len(a) \in Nat /\ Len(b) \in Nat /\ DOMAIN a = 1 .. Len(a) /\ DOMAIN b = 1 .. Len(b)
        /\ DOMAIN c = 1 .. Len(a) + Len(b)
        /\ \A i \in 1 .. Len(a) : c[i] = a[i]
        /\ \A i \in 1 .. Len(b) : c[Len(a) + i] = b[i]
    OBVIOUS
  <2> DEFINE x == F(a)  y == F(b)
  <2>2. /\ x \o y \in [1 .. Len(x) + Len(y) -> Nat]
        /\ \A i \in 1 .. Len(x) : (x \o y)[i] = x[i]
        /\ \A i \in 1 .. Len(y) : (x \o y)[Len(x) + i] = y[i]
    <3> HIDE DEF x, y
    <3>1. x \in Seq(Nat) /\ y \in Seq(Nat)
      BY <1>1 DEF x, y
    <3>2. \A S : \A p, q \in Seq(S) :
            /\ p \o q \in [1 .. Len(p) + Len(q) -> S]
            /\ \A i \in 1 .. Len(p) : (p \o q)[i] = p[i]
            /\ \A i \in 1 .. Len(q) : (p \o q)[Len(p) + i] = q[i]
      BY ConcatIs
    <3> QED
      BY <3>1, <3>2
  <2> DEFINE z == x \o y
  <2>3. Len(x) = Len(a) /\ Len(y) = Len(b)
    BY <1>1
  <2>4. (\A i \in 1 .. Len(a) : x[i] = AreaSum(a[i], key)) /\ (\A i \in 1 .. Len(b) : y[i] = AreaSum(b[i], key))
    BY <2>1
  <2> HIDE DEF c, x, y
  <2>5. /\ z = [i \in 1 .. Len(a) + Len(b) |-> z[i]]
        /\ \A i \in 1 .. Len(a) : z[i] = x[i]
        /\ \A i \in 1 .. Len(b) : z[Len(a) + i] = y[i]
    BY <2>2, <2>3
  <2> HIDE DEF z
  <2>6. ASSUME NEW i \in 1 .. Len(a) + Len(b) PROVE z[i] = AreaSum(c[i], key)
    <3>1. CASE i <= Len(a)
      <4>1. i \in 1 .. Len(a)
        BY <2>1, <3>1
      <4> QED
        BY <2>1, <2>4, <2>5, <4>1
    <3>2. CASE i > Len(a)
      <4>1. i - Len(a) \in 1 .. Len(b) /\ i = Len(a) + (i - Len(a))
        BY <2>1, <3>2
      <4>2. z[i] = y[i - Len(a)] /\ c[i] = b[i - Len(a)]
        BY <2>1, <2>5, <4>1
      <4> QED
        BY <2>4, <4>1, <4>2
    <3> QED
      BY <2>1, <3>1, <3>2
  <2>7. z = F(c)
    BY <2>1, <2>5, <2>6
  <2> QED
    BY <2>7 DEF x, y, z
<1>3. ListSum(c, key) = SumOf(F(c)) /\ ListSum(a, key) = SumOf(F(a)) /\ ListSum(b, key) = SumOf(F(b))
  BY DEF ListSum
<1> HIDE DEF F, c
<1>4. SumOf(F(a) \o F(b)) = SumOf(F(a)) + SumOf(F(b))
  BY <1>1, SumOfConcat
<1> QED
  BY <1>2, <1>3, <1>4 DEF c

LEMMA PlatformIs ==
  ASSUME NEW list \in Seq(Areas), NEW v, Each(v, "array", IsArea)
  PROVE  /\ read_tree_platform(list, v) \in Seq(Areas)
         /\ \A key \in KeysOf :
              /\ InPlatform(v, key) \in Nat
              /\ ListSum(read_tree_platform(list, v), key) = ListSum(list, key) + InPlatform(v, key)
<1> DEFINE s == Elems(v, "array")
           more == [i \in DOMAIN s |-> read_tree_area(NoArea, s[i])]
<1>1. s \in Seq(ToSet(s)) /\ \A i \in DOMAIN s : IsArea(s[i])
  BY DEF Each
<1>2. read_tree_platform(list, v) = list \o more
  BY DEF read_tree_platform
<1>3. \A key : InPlatform(v, key) = SumOf([i \in DOMAIN s |-> InArea(s[i], key)])
  BY DEF InPlatform, SumOver
<1> HIDE DEF s
<1>4. DOMAIN s = 1 .. Len(s) /\ Len(s) \in Nat
  BY <1>1, SeqIs
<1>5. ASSUME NEW i \in DOMAIN s
      PROVE  /\ read_tree_area(NoArea, s[i]) \in Areas
             /\ \A key \in KeysOf : AreaSum(read_tree_area(NoArea, s[i]), key) = InArea(s[i], key)
  BY <1>1, AreaIs
<1>6. more \in Seq(Areas)
  <2>1. more \in [1 .. Len(s) -> Areas]
    BY <1>4, <1>5
  <2> HIDE DEF more
  <2> QED
    BY <1>4, <2>1
<1>7. ASSUME NEW key \in KeysOf PROVE ListSum(more, key) = InPlatform(v, key)
  <2>1. \A i \in DOMAIN s : AreaSum(more[i], key) = InArea(s[i], key)
    BY <1>5
  <2>2. DOMAIN more = DOMAIN s
    OBVIOUS
  <2> HIDE DEF more
  <2>3. [i \in DOMAIN more |-> AreaSum(more[i], key)] = [i \in DOMAIN s |-> InArea(s[i], key)]
    BY <2>1, <2>2
  <2> QED
    BY <1>3, <2>3, Zenon DEF ListSum
<1> HIDE DEF more
<1>8. list \o more \in Seq(Areas)
  BY <1>6
<1>9. ASSUME NEW key \in KeysOf
      PROVE  /\ InPlatform(v, key) \in Nat
             /\ ListSum(list \o more, key) = ListSum(list, key) + InPlatform(v, key)
  <2>1. ListSum(list \o more, key) = ListSum(list, key) + ListSum(more, key)
    BY <1>6, ListSumConcat
  <2>2. ListSum(more, key) \in Nat
    BY <1>6, ListSumIs
  <2> QED
    BY <1>7, <2>1, <2>2
<1> QED
  BY <1>2, <1>8, <1>9

(* A period, the data and a tree: their hits are added to the lists, and   *)
(* whether they have a time is kept.                                       *)

(* A flag that some rounds set and none resets.                            *)
LEMMA FlagIs ==
  ASSUME NEW n \in Nat, NEW On, NEW Sets, \A i \in 1 .. n : i \in On <=> i - 1 \in On \/ i \in Sets
  PROVE  n \in On <=> 0 \in On \/ \E i \in 1 .. n : i \in Sets
<1> DEFINE T == {k \in 0 .. n : k \in On <=> 0 \in On \/ \E i \in 1 .. k : i \in Sets}
<1>1. 0 \in T
  OBVIOUS
<1>2. \A k \in 0 .. n : k \in T /\ k < n => k + 1 \in T
  <2> SUFFICES ASSUME NEW k \in 0 .. n, k \in T, k < n PROVE k + 1 \in T
    OBVIOUS
  <2>1. k + 1 \in 1 .. n /\ k + 1 \in 0 .. n /\ (k + 1) - 1 = k /\ 1 .. k + 1 = (1 .. k) \cup {k + 1}
    OBVIOUS
  <2>2. k + 1 \in On <=> k \in On \/ k + 1 \in Sets
    BY <2>1
  <2>3. k \in On <=> 0 \in On \/ \E i \in 1 .. k : i \in Sets
    OBVIOUS
  <2>4. k + 1 \in On <=> 0 \in On \/ \E i \in 1 .. k + 1 : i \in Sets
    BY <2>1, <2>2, <2>3
  <2> QED
    BY <2>1, <2>4
<1> HIDE DEF T
<1>3. \A k \in 0 .. n : k \in T
  BY <1>1, <1>2, Upwards, Zenon
<1>4. n \in T
  BY <1>3
<1> QED
  BY <1>4 DEF T

(* A member of a period.                                                   *)
Member(e) ==
  /\ e[1] = "time" /\ e[2].type = "string" => e[2].num \in Nat \ {0}
  /\ e[1] \in {"PC", "MOBILE"} => Each(e[2], "array", IsArea)

LEMMA MemberIs ==
  ASSUME NEW stat \in Stats, NEW e, Member(e)
  PROVE  LET r == read_tree_member(stat, e[1], e[2]) IN
         /\ r \in Stats
         /\ r.start_time > 0 <=> stat.start_time > 0 \/ (e[1] = "time" /\ e[2].type = "string")
         /\ \A key \in KeysOf :
              /\ e[1] \in {"PC", "MOBILE"} => InPlatform(e[2], key) \in Nat
              /\ ListSum(r.pc_list, key) =
                   ListSum(stat.pc_list, key) + IF e[1] = "PC" THEN InPlatform(e[2], key) ELSE 0
              /\ ListSum(r.mobile_list, key) =
                   ListSum(stat.mobile_list, key) + IF e[1] = "MOBILE" THEN InPlatform(e[2], key) ELSE 0
<1> DEFINE r == read_tree_member(stat, e[1], e[2])
<1>1. /\ stat = [start_time |-> stat.start_time, pc_list |-> stat.pc_list, mobile_list |-> stat.mobile_list]
      /\ stat.start_time \in Nat /\ stat.pc_list \in Seq(Areas) /\ stat.mobile_list \in Seq(Areas)
  BY DEF Stats
<1>2. \A key : ListSum(stat.pc_list, key) \in Nat /\ ListSum(stat.mobile_list, key) \in Nat
  BY <1>1, ListSumIs
<1>3. CASE e[1] = "time"
  <2>1. r = read_tree_time(stat, e[2])
    BY <1>3 DEF read_tree_member
  <2>2. r = IF e[2].type = "string" THEN [stat EXCEPT !.start_time = e[2].num] ELSE stat
    BY <2>1 DEF read_tree_time
  <2>3. e[2].type = "string" => e[2].num \in Nat /\ e[2].num > 0
    BY <1>3 DEF Member
  <2> HIDE DEF r
  <2>4. r.pc_list = stat.pc_list /\ r.mobile_list = stat.mobile_list /\ r \in Stats
    BY <1>1, <2>2, <2>3 DEF Stats
  <2>5. r.start_time > 0 <=> stat.start_time > 0 \/ (e[1] = "time" /\ e[2].type = "string")
    BY <1>1, <1>3, <2>2, <2>3
  <2>6. e[1] # "PC" /\ e[1] # "MOBILE"
    BY <1>3
  <2> QED
    BY <1>2, <2>4, <2>5, <2>6 DEF r
<1>4. CASE e[1] = "PC"
  <2> DEFINE l == read_tree_platform(stat.pc_list, e[2])
  <2>1. r = [stat EXCEPT !.pc_list = l]
    BY <1>4 DEF read_tree_member
  <2>2. l \in Seq(Areas) /\ \A key \in KeysOf :
          InPlatform(e[2], key) \in Nat /\ ListSum(l, key) = ListSum(stat.pc_list, key) + InPlatform(e[2], key)
    BY <1>1, <1>4, PlatformIs DEF Member
  <2> HIDE DEF l, r
  <2>3. r \in Stats /\ r.start_time = stat.start_time /\ r.pc_list = l /\ r.mobile_list = stat.mobile_list
    BY <1>1, <2>1, <2>2 DEF Stats
  <2>4. e[1] # "time" /\ e[1] # "MOBILE"
    BY <1>4
  <2> QED
    BY <1>2, <1>4, <2>2, <2>3, <2>4 DEF r
<1>5. CASE e[1] = "MOBILE"
  <2> DEFINE l == read_tree_platform(stat.mobile_list, e[2])
  <2>1. r = [stat EXCEPT !.mobile_list = l]
    BY <1>5 DEF read_tree_member
  <2>2. l \in Seq(Areas) /\ \A key \in KeysOf :
          InPlatform(e[2], key) \in Nat /\ ListSum(l, key) = ListSum(stat.mobile_list, key) + InPlatform(e[2], key)
    BY <1>1, <1>5, PlatformIs DEF Member
  <2> HIDE DEF l, r
  <2>3. r \in Stats /\ r.start_time = stat.start_time /\ r.mobile_list = l /\ r.pc_list = stat.pc_list
    BY <1>1, <2>1, <2>2 DEF Stats
  <2>4. e[1] # "time" /\ e[1] # "PC"
    BY <1>5
  <2> QED
    BY <1>2, <1>5, <2>2, <2>3, <2>4 DEF r
<1>6. CASE e[1] \notin {"time", "PC", "MOBILE"}
  <2>1. r = stat
    BY <1>6 DEF read_tree_member
  <2> HIDE DEF r
  <2> QED
    BY <1>2, <1>6, <2>1 DEF r
<1> QED
  BY <1>3, <1>4, <1>5, <1>6

LEMMA PeriodHas ==
  ASSUME NEW v, IsPeriod(v)
  PROVE  LET s == Elems(v, "object") IN
         Len(s) \in Nat /\ DOMAIN s = 1 .. Len(s) /\ \A i \in 1 .. Len(s) : Member(s[i])
<1> DEFINE s == Elems(v, "object")
<1>1. s \in Seq(ToSet(s)) /\ \A i \in DOMAIN s : Member(s[i])
  BY DEF IsPeriod, Each, Member
<1> HIDE DEF s
<1> QED
  BY <1>1, SeqIs DEF s

LEMMA PeriodLoop ==
  ASSUME NEW stat \in Stats, NEW v, IsPeriod(v)
  PROVE  \E h \in [0 .. Len(Elems(v, "object")) -> Stats] :
           /\ h[0] = stat /\ read_tree_data_array0(stat, v) = h[Len(Elems(v, "object"))]
           /\ \A i \in 1 .. Len(Elems(v, "object")) : h[i] = read_tree_member(h[i - 1], Elems(v, "object")[i][1], Elems(v, "object")[i][2])
<1> DEFINE n == Len(Elems(v, "object"))
           G == [i \in 1 .. n |-> [acc \in Stats |-> read_tree_member(acc, Elems(v, "object")[i][1], Elems(v, "object")[i][2])]]
           IsIter(iter) == iter = [S \in SUBSET DOMAIN Elems(v, "object") |->
             IF S = {} THEN stat ELSE read_tree_member(iter[S \ {Max(S)}], Elems(v, "object")[Max(S)][1], Elems(v, "object")[Max(S)][2])]
<1>0. n \in Nat /\ DOMAIN Elems(v, "object") = 1 .. n /\ stat \in Stats
  BY PeriodHas
<1>a. ASSUME NEW i \in 1 .. n, NEW acc \in Stats PROVE read_tree_member(acc, Elems(v, "object")[i][1], Elems(v, "object")[i][2]) \in Stats
  <2> DEFINE e == Elems(v, "object")[i]
  <2>1. Member(e)
    BY PeriodHas
  <2> HIDE DEF e
  <2>2. read_tree_member(acc, e[1], e[2]) \in Stats
    BY <2>1, MemberIs
  <2> QED
    BY <2>2 DEF e
<1>1. G \in [1 .. n -> [Stats -> Stats]]
  BY <1>a
<1>2. read_tree_data_array0(stat, v) = (CHOOSE g : IsIter(g))[DOMAIN Elems(v, "object")]
  BY DEF read_tree_data_array0, FoldLeft, MapThenFoldSet
<1> HIDE DEF n
<1>3. PICK g \in [SUBSET (1 .. n) -> Stats] : IsLoop(g, n, stat, G)
  <2> HIDE DEF G, IsIter
  <2> QED
    BY <1>0, <1>1, LoopExists, Zenon
<1>4. IsIter(g)
  <2>1. ASSUME NEW S \in SUBSET (1 .. n), S # {}
        PROVE  G[Max(S)][g[S \ {Max(S)}]] = read_tree_member(g[S \ {Max(S)}], Elems(v, "object")[Max(S)][1], Elems(v, "object")[Max(S)][2])
    <3>1. Max(S) \in 1 .. n /\ S \ {Max(S)} \in SUBSET (1 .. n)
      BY <1>0, <2>1, MaxIsIn
    <3>2. g[S \ {Max(S)}] \in Stats
      BY <1>3, <3>1
    <3> QED
      BY <3>1, <3>2
  <2> HIDE DEF G
  <2>2. [S \in SUBSET (1 .. n) |-> IF S = {} THEN stat ELSE G[Max(S)][g[S \ {Max(S)}]]]
        = [S \in SUBSET (1 .. n) |-> IF S = {} THEN stat ELSE read_tree_member(g[S \ {Max(S)}], Elems(v, "object")[Max(S)][1], Elems(v, "object")[Max(S)][2])]
    BY <2>1
  <2> QED
    BY <1>0, <1>3, <2>2, Zenon DEF IsLoop
<1>5. PICK iter : IsIter(iter) /\ read_tree_data_array0(stat, v) = iter[1 .. n]
  <2> HIDE DEF IsIter
  <2> QED
    BY <1>0, <1>2, <1>4, Zenon
<1>6. /\ iter[{}] = stat
      /\ \A S \in SUBSET (1 .. n) : S # {} => iter[S] = read_tree_member(iter[S \ {Max(S)}], Elems(v, "object")[Max(S)][1], Elems(v, "object")[Max(S)][2])
  <2>1. \A S \in SUBSET (1 .. n) : iter[S] = IF S = {} THEN stat ELSE read_tree_member(iter[S \ {Max(S)}], Elems(v, "object")[Max(S)][1], Elems(v, "object")[Max(S)][2])
    BY <1>0, <1>5
  <2> QED
    BY <2>1
<1>7. ASSUME NEW S \in SUBSET (1 .. n), S # {}, iter[S \ {Max(S)}] \in Stats
      PROVE  iter[S] = G[Max(S)][iter[S \ {Max(S)}]]
  <2>1. Max(S) \in 1 .. n
    BY <1>0, <1>7, MaxIsIn
  <2>2. iter[S] = read_tree_member(iter[S \ {Max(S)}], Elems(v, "object")[Max(S)][1], Elems(v, "object")[Max(S)][2])
    BY <1>6, <1>7, Zenon
  <2> QED
    BY <1>7, <2>1, <2>2
<1>8. \A i \in 1 .. n : \A acc \in Stats : G[i][acc] = read_tree_member(acc, Elems(v, "object")[i][1], Elems(v, "object")[i][2])
  OBVIOUS
<1> HIDE DEF G, IsIter
<1>b. Iterates(iter, n, Stats, stat, G)
  <2>1. iter[{}] = stat
    BY <1>6
  <2>2. \A S \in SUBSET (1 .. n) :
          S # {} /\ iter[S \ {Max(S)}] \in Stats => iter[S] = G[Max(S)][iter[S \ {Max(S)}]]
    BY <1>7, Zenon
  <2> QED
    BY <2>1, <2>2, Zenon DEF Iterates
<1>9. PICK h \in [0 .. n -> Stats] : IsRounds(h, iter, n, stat, G)
  <2>1. /\ n \in Nat /\ stat \in Stats /\ G \in [1 .. n -> [Stats -> Stats]]
        /\ Iterates(iter, n, Stats, stat, G)
    BY <1>0, <1>1, <1>b
  <2> QED
    BY <2>1, LoopRounds, Zenon
<1>10. \A i \in 1 .. n : h[i] = read_tree_member(h[i - 1], Elems(v, "object")[i][1], Elems(v, "object")[i][2])
  <2> SUFFICES ASSUME NEW i \in 1 .. n PROVE h[i] = read_tree_member(h[i - 1], Elems(v, "object")[i][1], Elems(v, "object")[i][2])
    OBVIOUS
  <2>1. h[i - 1] \in Stats
    BY <1>0, <1>9
  <2> QED
    BY <1>8, <1>9, <2>1 DEF IsRounds
<1> QED
  BY <1>5, <1>9, <1>10 DEF n, IsRounds

LEMMA PeriodPc ==
  ASSUME NEW stat \in Stats, NEW v, IsPeriod(v), NEW key \in KeysOf
  PROVE  InPeriod(v, "PC", key) \in Nat /\ ListSum(read_tree_data_array0(stat, v).pc_list, key) = ListSum(stat.pc_list, key) + InPeriod(v, "PC", key)
<1> DEFINE s == Elems(v, "object")
           n == Len(s)
           r == read_tree_data_array0(stat, v)
           Of(e) == IF e[1] = "PC" THEN InPlatform(e[2], key) ELSE 0
           M(x) == ListSum(x.pc_list, key)
           f == [i \in DOMAIN s |-> Of(s[i])]
<1>1. n \in Nat /\ DOMAIN s = 1 .. n /\ stat \in Stats
  BY PeriodHas
<1>2. PICK h \in [0 .. n -> Stats] :
        h[0] = stat /\ r = h[n] /\ \A i \in 1 .. n : h[i] = read_tree_member(h[i - 1], s[i][1], s[i][2])
  BY PeriodLoop
<1>3. InPeriod(v, "PC", key) = SumOf(f)
  BY DEF InPeriod, SumOver
<1> HIDE DEF n, r
<1>4. ASSUME NEW i \in 1 .. n PROVE Of(s[i]) \in Nat
  <2>1. Member(s[i])
    BY <1>1, PeriodHas
  <2> HIDE DEF s
  <2>2. s[i][1] = "PC" => InPlatform(s[i][2], key) \in Nat
    BY <2>1, MemberIs
  <2> QED
    BY <2>2
<1>5. ASSUME NEW i \in 1 .. n, NEW x \in Stats PROVE M(read_tree_member(x, s[i][1], s[i][2])) = M(x) + Of(s[i])
  <2>1. Member(s[i])
    BY <1>1, PeriodHas
  <2> HIDE DEF s
  <2> QED
    BY <2>1, MemberIs
<1>6. M(stat) \in Nat
  BY ListSumIs DEF Stats
<1> DEFINE grown == [i \in 0 .. n |-> M(h[i])]
<1> HIDE DEF Of, M, s
<1>7. f \in [1 .. n -> Nat] /\ \A i \in 1 .. n : f[i] = Of(s[i])
  BY <1>1, <1>4
<1> HIDE DEF f
<1>8. grown[0] = M(stat) /\ grown[n] = M(r)
  BY <1>1, <1>2
<1>9. \A i \in 1 .. n : grown[i] = grown[i - 1] + f[i]
  <2> SUFFICES ASSUME NEW i \in 1 .. n PROVE grown[i] = grown[i - 1] + f[i]
    OBVIOUS
  <2>1. i \in 0 .. n /\ i - 1 \in 0 .. n
    BY <1>1
  <2>2. h[i - 1] \in Stats /\ h[i] = read_tree_member(h[i - 1], s[i][1], s[i][2])
    BY <1>1, <1>2, <2>1
  <2>3. M(h[i]) = M(h[i - 1]) + Of(s[i])
    BY <1>5, <2>2
  <2> QED
    BY <1>7, <2>1, <2>3
<1> HIDE DEF grown
<1>10. grown[n] = grown[0] + SumOf(f)
  BY <1>1, <1>6, <1>7, <1>8, <1>9, SumOfSteps
<1>11. SumOf(f) \in Nat
  BY <1>1, <1>7, SumIsNat
<1>12. InPeriod(v, "PC", key) \in Nat /\ M(r) = M(stat) + InPeriod(v, "PC", key)
  BY <1>3, <1>8, <1>10, <1>11
<1> QED
  BY <1>12 DEF M, r

LEMMA PeriodMobile ==
  ASSUME NEW stat \in Stats, NEW v, IsPeriod(v), NEW key \in KeysOf
  PROVE  InPeriod(v, "MOBILE", key) \in Nat /\ ListSum(read_tree_data_array0(stat, v).mobile_list, key) = ListSum(stat.mobile_list, key) + InPeriod(v, "MOBILE", key)
<1> DEFINE s == Elems(v, "object")
           n == Len(s)
           r == read_tree_data_array0(stat, v)
           Of(e) == IF e[1] = "MOBILE" THEN InPlatform(e[2], key) ELSE 0
           M(x) == ListSum(x.mobile_list, key)
           f == [i \in DOMAIN s |-> Of(s[i])]
<1>1. n \in Nat /\ DOMAIN s = 1 .. n /\ stat \in Stats
  BY PeriodHas
<1>2. PICK h \in [0 .. n -> Stats] :
        h[0] = stat /\ r = h[n] /\ \A i \in 1 .. n : h[i] = read_tree_member(h[i - 1], s[i][1], s[i][2])
  BY PeriodLoop
<1>3. InPeriod(v, "MOBILE", key) = SumOf(f)
  BY DEF InPeriod, SumOver
<1> HIDE DEF n, r
<1>4. ASSUME NEW i \in 1 .. n PROVE Of(s[i]) \in Nat
  <2>1. Member(s[i])
    BY <1>1, PeriodHas
  <2> HIDE DEF s
  <2>2. s[i][1] = "MOBILE" => InPlatform(s[i][2], key) \in Nat
    BY <2>1, MemberIs
  <2> QED
    BY <2>2
<1>5. ASSUME NEW i \in 1 .. n, NEW x \in Stats PROVE M(read_tree_member(x, s[i][1], s[i][2])) = M(x) + Of(s[i])
  <2>1. Member(s[i])
    BY <1>1, PeriodHas
  <2> HIDE DEF s
  <2> QED
    BY <2>1, MemberIs
<1>6. M(stat) \in Nat
  BY ListSumIs DEF Stats
<1> DEFINE grown == [i \in 0 .. n |-> M(h[i])]
<1> HIDE DEF Of, M, s
<1>7. f \in [1 .. n -> Nat] /\ \A i \in 1 .. n : f[i] = Of(s[i])
  BY <1>1, <1>4
<1> HIDE DEF f
<1>8. grown[0] = M(stat) /\ grown[n] = M(r)
  BY <1>1, <1>2
<1>9. \A i \in 1 .. n : grown[i] = grown[i - 1] + f[i]
  <2> SUFFICES ASSUME NEW i \in 1 .. n PROVE grown[i] = grown[i - 1] + f[i]
    OBVIOUS
  <2>1. i \in 0 .. n /\ i - 1 \in 0 .. n
    BY <1>1
  <2>2. h[i - 1] \in Stats /\ h[i] = read_tree_member(h[i - 1], s[i][1], s[i][2])
    BY <1>1, <1>2, <2>1
  <2>3. M(h[i]) = M(h[i - 1]) + Of(s[i])
    BY <1>5, <2>2
  <2> QED
    BY <1>7, <2>1, <2>3
<1> HIDE DEF grown
<1>10. grown[n] = grown[0] + SumOf(f)
  BY <1>1, <1>6, <1>7, <1>8, <1>9, SumOfSteps
<1>11. SumOf(f) \in Nat
  BY <1>1, <1>7, SumIsNat
<1>12. InPeriod(v, "MOBILE", key) \in Nat /\ M(r) = M(stat) + InPeriod(v, "MOBILE", key)
  BY <1>3, <1>8, <1>10, <1>11
<1> QED
  BY <1>12 DEF M, r

LEMMA PeriodTime ==
  ASSUME NEW stat \in Stats, NEW v, IsPeriod(v)
  PROVE  read_tree_data_array0(stat, v).start_time > 0 <=> stat.start_time > 0 \/ HasTime(v)
<1> DEFINE s == Elems(v, "object")
           n == Len(s)
           r == read_tree_data_array0(stat, v)
           Is(e) == e[1] = "time" /\ e[2].type = "string"
<1>1. n \in Nat /\ DOMAIN s = 1 .. n
  BY PeriodHas
<1>2. PICK h \in [0 .. n -> Stats] :
        h[0] = stat /\ r = h[n] /\ \A i \in 1 .. n : h[i] = read_tree_member(h[i - 1], s[i][1], s[i][2])
  BY PeriodLoop
<1>3. HasTime(v) <=> \E i \in DOMAIN s : Is(s[i])
  BY DEF HasTime, Some
<1> HIDE DEF n, r
<1>4. ASSUME NEW i \in 1 .. n, NEW x \in Stats
      PROVE  read_tree_member(x, s[i][1], s[i][2]).start_time > 0 <=> x.start_time > 0 \/ Is(s[i])
  <2>1. Member(s[i])
    BY <1>1, PeriodHas
  <2> HIDE DEF s
  <2> QED
    BY <2>1, MemberIs
<1> HIDE DEF Is, s
<1> DEFINE On == {i \in 0 .. n : h[i].start_time > 0}
           Sets == {i \in 1 .. n : Is(s[i])}
<1>5. ASSUME NEW i \in 1 .. n PROVE i \in On <=> i - 1 \in On \/ i \in Sets
  <2>1. i \in 0 .. n /\ i - 1 \in 0 .. n
    BY <1>1
  <2>2. h[i - 1] \in Stats /\ h[i] = read_tree_member(h[i - 1], s[i][1], s[i][2])
    BY <1>1, <1>2, <2>1
  <2>3. h[i].start_time > 0 <=> h[i - 1].start_time > 0 \/ Is(s[i])
    BY <1>4, <2>2
  <2> QED
    BY <2>1, <2>3
<1>6. (0 \in On <=> stat.start_time > 0) /\ (n \in On <=> r.start_time > 0)
  <2>1. 0 \in 0 .. n /\ n \in 0 .. n
    BY <1>1
  <2> QED
    BY <1>2, <2>1
<1>7. (\E i \in 1 .. n : i \in Sets) <=> HasTime(v)
  BY <1>1, <1>3
<1> HIDE DEF On, Sets
<1>8. n \in On <=> 0 \in On \/ \E i \in 1 .. n : i \in Sets
  BY <1>1, <1>5, FlagIs
<1>9. r.start_time > 0 <=> stat.start_time > 0 \/ HasTime(v)
  BY <1>6, <1>7, <1>8
<1> QED
  BY <1>9 DEF r

LEMMA PeriodStats == ASSUME NEW stat \in Stats, NEW v, IsPeriod(v) PROVE read_tree_data_array0(stat, v) \in Stats
<1> DEFINE n == Len(Elems(v, "object"))
<1>1. PICK h \in [0 .. n -> Stats] :
        /\ h[0] = stat /\ read_tree_data_array0(stat, v) = h[n]
        /\ \A i \in 1 .. n : h[i] = read_tree_member(h[i - 1], Elems(v, "object")[i][1], Elems(v, "object")[i][2])
  BY PeriodLoop
<1>2. n \in Nat
  BY PeriodHas
<1> HIDE DEF n
<1> QED
  BY <1>1, <1>2

LEMMA DataLoop ==
  ASSUME NEW stat \in Stats, NEW v, Each(v, "array", IsPeriod)
  PROVE  \E h \in [0 .. Len(Elems(v, "array")) -> Stats] :
           /\ h[0] = stat /\ read_tree_data(stat, v) = h[Len(Elems(v, "array"))]
           /\ \A i \in 1 .. Len(Elems(v, "array")) : h[i] = read_tree_data_array0(h[i - 1], Elems(v, "array")[i])
<1> DEFINE n == Len(Elems(v, "array"))
           G == [i \in 1 .. n |-> [acc \in Stats |-> read_tree_data_array0(acc, Elems(v, "array")[i])]]
           IsIter(iter) == iter = [S \in SUBSET DOMAIN Elems(v, "array") |->
             IF S = {} THEN stat ELSE read_tree_data_array0(iter[S \ {Max(S)}], Elems(v, "array")[Max(S)])]
<1>0. n \in Nat /\ DOMAIN Elems(v, "array") = 1 .. n /\ stat \in Stats
  BY SeqIs DEF Each
<1>a. ASSUME NEW i \in 1 .. n, NEW acc \in Stats PROVE read_tree_data_array0(acc, Elems(v, "array")[i]) \in Stats
  <2> DEFINE e == Elems(v, "array")[i]
  <2>1. IsPeriod(e)
    BY <1>0 DEF Each
  <2> HIDE DEF e
  <2>2. read_tree_data_array0(acc, e) \in Stats
    BY <2>1, PeriodStats
  <2> QED
    BY <2>2 DEF e
<1>1. G \in [1 .. n -> [Stats -> Stats]]
  BY <1>a
<1>2. read_tree_data(stat, v) = (CHOOSE g : IsIter(g))[DOMAIN Elems(v, "array")]
  BY DEF read_tree_data, FoldLeft, MapThenFoldSet
<1> HIDE DEF n
<1>3. PICK g \in [SUBSET (1 .. n) -> Stats] : IsLoop(g, n, stat, G)
  <2> HIDE DEF G, IsIter
  <2> QED
    BY <1>0, <1>1, LoopExists, Zenon
<1>4. IsIter(g)
  <2>1. ASSUME NEW S \in SUBSET (1 .. n), S # {}
        PROVE  G[Max(S)][g[S \ {Max(S)}]] = read_tree_data_array0(g[S \ {Max(S)}], Elems(v, "array")[Max(S)])
    <3>1. Max(S) \in 1 .. n /\ S \ {Max(S)} \in SUBSET (1 .. n)
      BY <1>0, <2>1, MaxIsIn
    <3>2. g[S \ {Max(S)}] \in Stats
      BY <1>3, <3>1
    <3> QED
      BY <3>1, <3>2
  <2> HIDE DEF G
  <2>2. [S \in SUBSET (1 .. n) |-> IF S = {} THEN stat ELSE G[Max(S)][g[S \ {Max(S)}]]]
        = [S \in SUBSET (1 .. n) |-> IF S = {} THEN stat ELSE read_tree_data_array0(g[S \ {Max(S)}], Elems(v, "array")[Max(S)])]
    BY <2>1
  <2> QED
    BY <1>0, <1>3, <2>2, Zenon DEF IsLoop
<1>5. PICK iter : IsIter(iter) /\ read_tree_data(stat, v) = iter[1 .. n]
  <2> HIDE DEF IsIter
  <2> QED
    BY <1>0, <1>2, <1>4, Zenon
<1>6. /\ iter[{}] = stat
      /\ \A S \in SUBSET (1 .. n) : S # {} => iter[S] = read_tree_data_array0(iter[S \ {Max(S)}], Elems(v, "array")[Max(S)])
  <2>1. \A S \in SUBSET (1 .. n) : iter[S] = IF S = {} THEN stat ELSE read_tree_data_array0(iter[S \ {Max(S)}], Elems(v, "array")[Max(S)])
    BY <1>0, <1>5
  <2> QED
    BY <2>1
<1>7. ASSUME NEW S \in SUBSET (1 .. n), S # {}, iter[S \ {Max(S)}] \in Stats
      PROVE  iter[S] = G[Max(S)][iter[S \ {Max(S)}]]
  <2>1. Max(S) \in 1 .. n
    BY <1>0, <1>7, MaxIsIn
  <2>2. iter[S] = read_tree_data_array0(iter[S \ {Max(S)}], Elems(v, "array")[Max(S)])
    BY <1>6, <1>7, Zenon
  <2> QED
    BY <1>7, <2>1, <2>2
<1>8. \A i \in 1 .. n : \A acc \in Stats : G[i][acc] = read_tree_data_array0(acc, Elems(v, "array")[i])
  OBVIOUS
<1> HIDE DEF G, IsIter
<1>b. Iterates(iter, n, Stats, stat, G)
  <2>1. iter[{}] = stat
    BY <1>6
  <2>2. \A S \in SUBSET (1 .. n) :
          S # {} /\ iter[S \ {Max(S)}] \in Stats => iter[S] = G[Max(S)][iter[S \ {Max(S)}]]
    BY <1>7, Zenon
  <2> QED
    BY <2>1, <2>2, Zenon DEF Iterates
<1>9. PICK h \in [0 .. n -> Stats] : IsRounds(h, iter, n, stat, G)
  <2>1. /\ n \in Nat /\ stat \in Stats /\ G \in [1 .. n -> [Stats -> Stats]]
        /\ Iterates(iter, n, Stats, stat, G)
    BY <1>0, <1>1, <1>b
  <2> QED
    BY <2>1, LoopRounds, Zenon
<1>10. \A i \in 1 .. n : h[i] = read_tree_data_array0(h[i - 1], Elems(v, "array")[i])
  <2> SUFFICES ASSUME NEW i \in 1 .. n PROVE h[i] = read_tree_data_array0(h[i - 1], Elems(v, "array")[i])
    OBVIOUS
  <2>1. h[i - 1] \in Stats
    BY <1>0, <1>9
  <2> QED
    BY <1>8, <1>9, <2>1 DEF IsRounds
<1> QED
  BY <1>5, <1>9, <1>10 DEF n, IsRounds

LEMMA DataPc ==
  ASSUME NEW stat \in Stats, NEW v, Each(v, "array", IsPeriod), NEW key \in KeysOf
  PROVE  InData(v, "PC", key) \in Nat /\ ListSum(read_tree_data(stat, v).pc_list, key) = ListSum(stat.pc_list, key) + InData(v, "PC", key)
<1> DEFINE s == Elems(v, "array")
           n == Len(s)
           r == read_tree_data(stat, v)
           Of(e) == InPeriod(e, "PC", key)
           M(x) == ListSum(x.pc_list, key)
           f == [i \in DOMAIN s |-> Of(s[i])]
<1>1. n \in Nat /\ DOMAIN s = 1 .. n /\ stat \in Stats
  BY SeqIs DEF Each
<1>2. PICK h \in [0 .. n -> Stats] :
        h[0] = stat /\ r = h[n] /\ \A i \in 1 .. n : h[i] = read_tree_data_array0(h[i - 1], s[i])
  BY DataLoop
<1>3. InData(v, "PC", key) = SumOf(f)
  BY DEF InData, SumOver
<1> HIDE DEF n, r
<1>4. ASSUME NEW i \in 1 .. n PROVE Of(s[i]) \in Nat
  <2>1. IsPeriod(s[i])
    BY <1>1 DEF Each
  <2> HIDE DEF s
  <2> QED
    BY <2>1, PeriodPc
<1>5. ASSUME NEW i \in 1 .. n, NEW x \in Stats PROVE M(read_tree_data_array0(x, s[i])) = M(x) + Of(s[i])
  <2>1. IsPeriod(s[i])
    BY <1>1 DEF Each
  <2> HIDE DEF s
  <2> QED
    BY <2>1, PeriodPc
<1>6. M(stat) \in Nat
  BY ListSumIs DEF Stats
<1> DEFINE grown == [i \in 0 .. n |-> M(h[i])]
<1> HIDE DEF Of, M, s
<1>7. f \in [1 .. n -> Nat] /\ \A i \in 1 .. n : f[i] = Of(s[i])
  BY <1>1, <1>4
<1> HIDE DEF f
<1>8. grown[0] = M(stat) /\ grown[n] = M(r)
  BY <1>1, <1>2
<1>9. \A i \in 1 .. n : grown[i] = grown[i - 1] + f[i]
  <2> SUFFICES ASSUME NEW i \in 1 .. n PROVE grown[i] = grown[i - 1] + f[i]
    OBVIOUS
  <2>1. i \in 0 .. n /\ i - 1 \in 0 .. n
    BY <1>1
  <2>2. h[i - 1] \in Stats /\ h[i] = read_tree_data_array0(h[i - 1], s[i])
    BY <1>1, <1>2, <2>1
  <2>3. M(h[i]) = M(h[i - 1]) + Of(s[i])
    BY <1>5, <2>2
  <2> QED
    BY <1>7, <2>1, <2>3
<1> HIDE DEF grown
<1>10. grown[n] = grown[0] + SumOf(f)
  BY <1>1, <1>6, <1>7, <1>8, <1>9, SumOfSteps
<1>11. SumOf(f) \in Nat
  BY <1>1, <1>7, SumIsNat
<1>12. InData(v, "PC", key) \in Nat /\ M(r) = M(stat) + InData(v, "PC", key)
  BY <1>3, <1>8, <1>10, <1>11
<1> QED
  BY <1>12 DEF M, r

LEMMA DataMobile ==
  ASSUME NEW stat \in Stats, NEW v, Each(v, "array", IsPeriod), NEW key \in KeysOf
  PROVE  InData(v, "MOBILE", key) \in Nat /\ ListSum(read_tree_data(stat, v).mobile_list, key) = ListSum(stat.mobile_list, key) + InData(v, "MOBILE", key)
<1> DEFINE s == Elems(v, "array")
           n == Len(s)
           r == read_tree_data(stat, v)
           Of(e) == InPeriod(e, "MOBILE", key)
           M(x) == ListSum(x.mobile_list, key)
           f == [i \in DOMAIN s |-> Of(s[i])]
<1>1. n \in Nat /\ DOMAIN s = 1 .. n /\ stat \in Stats
  BY SeqIs DEF Each
<1>2. PICK h \in [0 .. n -> Stats] :
        h[0] = stat /\ r = h[n] /\ \A i \in 1 .. n : h[i] = read_tree_data_array0(h[i - 1], s[i])
  BY DataLoop
<1>3. InData(v, "MOBILE", key) = SumOf(f)
  BY DEF InData, SumOver
<1> HIDE DEF n, r
<1>4. ASSUME NEW i \in 1 .. n PROVE Of(s[i]) \in Nat
  <2>1. IsPeriod(s[i])
    BY <1>1 DEF Each
  <2> HIDE DEF s
  <2> QED
    BY <2>1, PeriodMobile
<1>5. ASSUME NEW i \in 1 .. n, NEW x \in Stats PROVE M(read_tree_data_array0(x, s[i])) = M(x) + Of(s[i])
  <2>1. IsPeriod(s[i])
    BY <1>1 DEF Each
  <2> HIDE DEF s
  <2> QED
    BY <2>1, PeriodMobile
<1>6. M(stat) \in Nat
  BY ListSumIs DEF Stats
<1> DEFINE grown == [i \in 0 .. n |-> M(h[i])]
<1> HIDE DEF Of, M, s
<1>7. f \in [1 .. n -> Nat] /\ \A i \in 1 .. n : f[i] = Of(s[i])
  BY <1>1, <1>4
<1> HIDE DEF f
<1>8. grown[0] = M(stat) /\ grown[n] = M(r)
  BY <1>1, <1>2
<1>9. \A i \in 1 .. n : grown[i] = grown[i - 1] + f[i]
  <2> SUFFICES ASSUME NEW i \in 1 .. n PROVE grown[i] = grown[i - 1] + f[i]
    OBVIOUS
  <2>1. i \in 0 .. n /\ i - 1 \in 0 .. n
    BY <1>1
  <2>2. h[i - 1] \in Stats /\ h[i] = read_tree_data_array0(h[i - 1], s[i])
    BY <1>1, <1>2, <2>1
  <2>3. M(h[i]) = M(h[i - 1]) + Of(s[i])
    BY <1>5, <2>2
  <2> QED
    BY <1>7, <2>1, <2>3
<1> HIDE DEF grown
<1>10. grown[n] = grown[0] + SumOf(f)
  BY <1>1, <1>6, <1>7, <1>8, <1>9, SumOfSteps
<1>11. SumOf(f) \in Nat
  BY <1>1, <1>7, SumIsNat
<1>12. InData(v, "MOBILE", key) \in Nat /\ M(r) = M(stat) + InData(v, "MOBILE", key)
  BY <1>3, <1>8, <1>10, <1>11
<1> QED
  BY <1>12 DEF M, r

LEMMA DataTime ==
  ASSUME NEW stat \in Stats, NEW v, Each(v, "array", IsPeriod)
  PROVE  read_tree_data(stat, v).start_time > 0 <=> stat.start_time > 0 \/ Some(v, "array", HasTime)
<1> DEFINE s == Elems(v, "array")
           n == Len(s)
           r == read_tree_data(stat, v)
           Is(e) == HasTime(e)
<1>1. n \in Nat /\ DOMAIN s = 1 .. n
  BY SeqIs DEF Each
<1>2. PICK h \in [0 .. n -> Stats] :
        h[0] = stat /\ r = h[n] /\ \A i \in 1 .. n : h[i] = read_tree_data_array0(h[i - 1], s[i])
  BY DataLoop
<1>3. Some(v, "array", HasTime) <=> \E i \in DOMAIN s : Is(s[i])
  BY DEF Some
<1> HIDE DEF n, r
<1>4. ASSUME NEW i \in 1 .. n, NEW x \in Stats
      PROVE  read_tree_data_array0(x, s[i]).start_time > 0 <=> x.start_time > 0 \/ Is(s[i])
  <2>1. IsPeriod(s[i])
    BY <1>1 DEF Each
  <2> HIDE DEF s
  <2> QED
    BY <2>1, PeriodTime
<1> HIDE DEF Is, s
<1> DEFINE On == {i \in 0 .. n : h[i].start_time > 0}
           Sets == {i \in 1 .. n : Is(s[i])}
<1>5. ASSUME NEW i \in 1 .. n PROVE i \in On <=> i - 1 \in On \/ i \in Sets
  <2>1. i \in 0 .. n /\ i - 1 \in 0 .. n
    BY <1>1
  <2>2. h[i - 1] \in Stats /\ h[i] = read_tree_data_array0(h[i - 1], s[i])
    BY <1>1, <1>2, <2>1
  <2>3. h[i].start_time > 0 <=> h[i - 1].start_time > 0 \/ Is(s[i])
    BY <1>4, <2>2
  <2> QED
    BY <2>1, <2>3
<1>6. (0 \in On <=> stat.start_time > 0) /\ (n \in On <=> r.start_time > 0)
  <2>1. 0 \in 0 .. n /\ n \in 0 .. n
    BY <1>1
  <2> QED
    BY <1>2, <2>1
<1>7. (\E i \in 1 .. n : i \in Sets) <=> Some(v, "array", HasTime)
  BY <1>1, <1>3
<1> HIDE DEF On, Sets
<1>8. n \in On <=> 0 \in On \/ \E i \in 1 .. n : i \in Sets
  BY <1>1, <1>5, FlagIs
<1>9. r.start_time > 0 <=> stat.start_time > 0 \/ Some(v, "array", HasTime)
  BY <1>6, <1>7, <1>8
<1> QED
  BY <1>9 DEF r

LEMMA DataStats == ASSUME NEW stat \in Stats, NEW v, Each(v, "array", IsPeriod) PROVE read_tree_data(stat, v) \in Stats
<1> DEFINE n == Len(Elems(v, "array"))
<1>1. PICK h \in [0 .. n -> Stats] :
        /\ h[0] = stat /\ read_tree_data(stat, v) = h[n]
        /\ \A i \in 1 .. n : h[i] = read_tree_data_array0(h[i - 1], Elems(v, "array")[i])
  BY DataLoop
<1>2. n \in Nat
  BY SeqIs DEF Each
<1> HIDE DEF n
<1> QED
  BY <1>1, <1>2

(* A member of the root.                                                   *)
RootRound(stat, e) == IF e[1] = "data" THEN read_tree_data(stat, e[2]) ELSE stat
Root(e) == e[1] = "data" => Each(e[2], "array", IsPeriod)

LEMMA RootRoundIs ==
  ASSUME NEW stat \in Stats, NEW e, Root(e)
  PROVE  /\ RootRound(stat, e) \in Stats
         /\ RootRound(stat, e).start_time > 0 <=> stat.start_time > 0 \/ (e[1] = "data" /\ Some(e[2], "array", HasTime))
         /\ \A key \in KeysOf :
              /\ e[1] = "data" => InData(e[2], "PC", key) \in Nat /\ InData(e[2], "MOBILE", key) \in Nat
              /\ ListSum(RootRound(stat, e).pc_list, key) =
                   ListSum(stat.pc_list, key) + IF e[1] = "data" THEN InData(e[2], "PC", key) ELSE 0
              /\ ListSum(RootRound(stat, e).mobile_list, key) =
                   ListSum(stat.mobile_list, key) + IF e[1] = "data" THEN InData(e[2], "MOBILE", key) ELSE 0
<1>1. CASE e[1] = "data"
  <2> DEFINE v == e[2]
  <2>1. Each(v, "array", IsPeriod) /\ RootRound(stat, e) = read_tree_data(stat, v)
    BY <1>1 DEF Root, RootRound
  <2> HIDE DEF v
  <2>2. /\ read_tree_data(stat, v) \in Stats
        /\ read_tree_data(stat, v).start_time > 0 <=> stat.start_time > 0 \/ Some(v, "array", HasTime)
    BY <2>1, DataStats, DataTime
  <2>3. ASSUME NEW key \in KeysOf
        PROVE  /\ InData(v, "PC", key) \in Nat /\ InData(v, "MOBILE", key) \in Nat
               /\ ListSum(read_tree_data(stat, v).pc_list, key) = ListSum(stat.pc_list, key) + InData(v, "PC", key)
               /\ ListSum(read_tree_data(stat, v).mobile_list, key) = ListSum(stat.mobile_list, key) + InData(v, "MOBILE", key)
    BY <2>1, DataPc, DataMobile
  <2> QED
    BY <1>1, <2>1, <2>2, <2>3 DEF v
<1>2. CASE e[1] # "data"
  <2>1. RootRound(stat, e) = stat
    BY <1>2 DEF RootRound
  <2>2. \A key : ListSum(stat.pc_list, key) \in Nat /\ ListSum(stat.mobile_list, key) \in Nat
    BY ListSumIs DEF Stats
  <2> QED
    BY <1>2, <2>1, <2>2
<1> QED
  BY <1>1, <1>2

LEMMA TreeHas ==
  ASSUME NEW v, IsTree(v)
  PROVE  LET s == Elems(v, "object") IN
         Len(s) \in Nat /\ DOMAIN s = 1 .. Len(s) /\ \A i \in 1 .. Len(s) : Root(s[i])
<1> DEFINE s == Elems(v, "object")
<1>1. s \in Seq(ToSet(s)) /\ \A i \in DOMAIN s : Root(s[i])
  BY DEF IsTree, Each, Root
<1> HIDE DEF s
<1> QED
  BY <1>1, SeqIs DEF s

LEMMA TreeLoop ==
  ASSUME NEW stat \in Stats, NEW v, IsTree(v)
  PROVE  \E h \in [0 .. Len(Elems(v, "object")) -> Stats] :
           /\ h[0] = stat /\ read_tree_root(stat, v) = h[Len(Elems(v, "object"))]
           /\ \A i \in 1 .. Len(Elems(v, "object")) : h[i] = RootRound(h[i - 1], Elems(v, "object")[i])
<1> DEFINE n == Len(Elems(v, "object"))
           G == [i \in 1 .. n |-> [acc \in Stats |-> RootRound(acc, Elems(v, "object")[i])]]
           IsIter(iter) == iter = [S \in SUBSET DOMAIN Elems(v, "object") |->
             IF S = {} THEN stat ELSE RootRound(iter[S \ {Max(S)}], Elems(v, "object")[Max(S)])]
<1>0. n \in Nat /\ DOMAIN Elems(v, "object") = 1 .. n /\ stat \in Stats
  BY TreeHas
<1>a. ASSUME NEW i \in 1 .. n, NEW acc \in Stats PROVE RootRound(acc, Elems(v, "object")[i]) \in Stats
  <2> DEFINE e == Elems(v, "object")[i]
  <2>1. Root(e)
    BY TreeHas
  <2> HIDE DEF e
  <2>2. RootRound(acc, e) \in Stats
    BY <2>1, RootRoundIs
  <2> QED
    BY <2>2 DEF e
<1>1. G \in [1 .. n -> [Stats -> Stats]]
  BY <1>a
<1>2. read_tree_root(stat, v) = (CHOOSE g : IsIter(g))[DOMAIN Elems(v, "object")]
  BY DEF read_tree_root, RootRound, FoldLeft, MapThenFoldSet
<1> HIDE DEF n
<1>3. PICK g \in [SUBSET (1 .. n) -> Stats] : IsLoop(g, n, stat, G)
  <2> HIDE DEF G, IsIter
  <2> QED
    BY <1>0, <1>1, LoopExists, Zenon
<1>4. IsIter(g)
  <2>1. ASSUME NEW S \in SUBSET (1 .. n), S # {}
        PROVE  G[Max(S)][g[S \ {Max(S)}]] = RootRound(g[S \ {Max(S)}], Elems(v, "object")[Max(S)])
    <3>1. Max(S) \in 1 .. n /\ S \ {Max(S)} \in SUBSET (1 .. n)
      BY <1>0, <2>1, MaxIsIn
    <3>2. g[S \ {Max(S)}] \in Stats
      BY <1>3, <3>1
    <3> QED
      BY <3>1, <3>2
  <2> HIDE DEF G
  <2>2. [S \in SUBSET (1 .. n) |-> IF S = {} THEN stat ELSE G[Max(S)][g[S \ {Max(S)}]]]
        = [S \in SUBSET (1 .. n) |-> IF S = {} THEN stat ELSE RootRound(g[S \ {Max(S)}], Elems(v, "object")[Max(S)])]
    BY <2>1
  <2> QED
    BY <1>0, <1>3, <2>2, Zenon DEF IsLoop
<1>5. PICK iter : IsIter(iter) /\ read_tree_root(stat, v) = iter[1 .. n]
  <2> HIDE DEF IsIter
  <2> QED
    BY <1>0, <1>2, <1>4, Zenon
<1>6. /\ iter[{}] = stat
      /\ \A S \in SUBSET (1 .. n) : S # {} => iter[S] = RootRound(iter[S \ {Max(S)}], Elems(v, "object")[Max(S)])
  <2>1. \A S \in SUBSET (1 .. n) : iter[S] = IF S = {} THEN stat ELSE RootRound(iter[S \ {Max(S)}], Elems(v, "object")[Max(S)])
    BY <1>0, <1>5
  <2> QED
    BY <2>1
<1>7. ASSUME NEW S \in SUBSET (1 .. n), S # {}, iter[S \ {Max(S)}] \in Stats
      PROVE  iter[S] = G[Max(S)][iter[S \ {Max(S)}]]
  <2>1. Max(S) \in 1 .. n
    BY <1>0, <1>7, MaxIsIn
  <2>2. iter[S] = RootRound(iter[S \ {Max(S)}], Elems(v, "object")[Max(S)])
    BY <1>6, <1>7, Zenon
  <2> QED
    BY <1>7, <2>1, <2>2
<1>8. \A i \in 1 .. n : \A acc \in Stats : G[i][acc] = RootRound(acc, Elems(v, "object")[i])
  OBVIOUS
<1> HIDE DEF G, IsIter
<1>b. Iterates(iter, n, Stats, stat, G)
  <2>1. iter[{}] = stat
    BY <1>6
  <2>2. \A S \in SUBSET (1 .. n) :
          S # {} /\ iter[S \ {Max(S)}] \in Stats => iter[S] = G[Max(S)][iter[S \ {Max(S)}]]
    BY <1>7, Zenon
  <2> QED
    BY <2>1, <2>2, Zenon DEF Iterates
<1>9. PICK h \in [0 .. n -> Stats] : IsRounds(h, iter, n, stat, G)
  <2>1. /\ n \in Nat /\ stat \in Stats /\ G \in [1 .. n -> [Stats -> Stats]]
        /\ Iterates(iter, n, Stats, stat, G)
    BY <1>0, <1>1, <1>b
  <2> QED
    BY <2>1, LoopRounds, Zenon
<1>10. \A i \in 1 .. n : h[i] = RootRound(h[i - 1], Elems(v, "object")[i])
  <2> SUFFICES ASSUME NEW i \in 1 .. n PROVE h[i] = RootRound(h[i - 1], Elems(v, "object")[i])
    OBVIOUS
  <2>1. h[i - 1] \in Stats
    BY <1>0, <1>9
  <2> QED
    BY <1>8, <1>9, <2>1 DEF IsRounds
<1> QED
  BY <1>5, <1>9, <1>10 DEF n, IsRounds

LEMMA TreePc ==
  ASSUME NEW stat \in Stats, NEW v, IsTree(v), NEW key \in KeysOf
  PROVE  InTree(v, "PC", key) \in Nat /\ ListSum(read_tree_root(stat, v).pc_list, key) = ListSum(stat.pc_list, key) + InTree(v, "PC", key)
<1> DEFINE s == Elems(v, "object")
           n == Len(s)
           r == read_tree_root(stat, v)
           Of(e) == IF e[1] = "data" THEN InData(e[2], "PC", key) ELSE 0
           M(x) == ListSum(x.pc_list, key)
           f == [i \in DOMAIN s |-> Of(s[i])]
<1>1. n \in Nat /\ DOMAIN s = 1 .. n /\ stat \in Stats
  BY TreeHas
<1>2. PICK h \in [0 .. n -> Stats] :
        h[0] = stat /\ r = h[n] /\ \A i \in 1 .. n : h[i] = RootRound(h[i - 1], s[i])
  BY TreeLoop
<1>3. InTree(v, "PC", key) = SumOf(f)
  BY DEF InTree, SumOver
<1> HIDE DEF n, r
<1>4. ASSUME NEW i \in 1 .. n PROVE Of(s[i]) \in Nat
  <2>1. Root(s[i])
    BY <1>1, TreeHas
  <2> HIDE DEF s
  <2>2. s[i][1] = "data" => InData(s[i][2], "PC", key) \in Nat
    BY <2>1, RootRoundIs
  <2> QED
    BY <2>2
<1>5. ASSUME NEW i \in 1 .. n, NEW x \in Stats PROVE M(RootRound(x, s[i])) = M(x) + Of(s[i])
  <2>1. Root(s[i])
    BY <1>1, TreeHas
  <2> HIDE DEF s
  <2> QED
    BY <2>1, RootRoundIs
<1>6. M(stat) \in Nat
  BY ListSumIs DEF Stats
<1> DEFINE grown == [i \in 0 .. n |-> M(h[i])]
<1> HIDE DEF Of, M, s
<1>7. f \in [1 .. n -> Nat] /\ \A i \in 1 .. n : f[i] = Of(s[i])
  BY <1>1, <1>4
<1> HIDE DEF f
<1>8. grown[0] = M(stat) /\ grown[n] = M(r)
  BY <1>1, <1>2
<1>9. \A i \in 1 .. n : grown[i] = grown[i - 1] + f[i]
  <2> SUFFICES ASSUME NEW i \in 1 .. n PROVE grown[i] = grown[i - 1] + f[i]
    OBVIOUS
  <2>1. i \in 0 .. n /\ i - 1 \in 0 .. n
    BY <1>1
  <2>2. h[i - 1] \in Stats /\ h[i] = RootRound(h[i - 1], s[i])
    BY <1>1, <1>2, <2>1
  <2>3. M(h[i]) = M(h[i - 1]) + Of(s[i])
    BY <1>5, <2>2
  <2> QED
    BY <1>7, <2>1, <2>3
<1> HIDE DEF grown
<1>10. grown[n] = grown[0] + SumOf(f)
  BY <1>1, <1>6, <1>7, <1>8, <1>9, SumOfSteps
<1>11. SumOf(f) \in Nat
  BY <1>1, <1>7, SumIsNat
<1>12. InTree(v, "PC", key) \in Nat /\ M(r) = M(stat) + InTree(v, "PC", key)
  BY <1>3, <1>8, <1>10, <1>11
<1> QED
  BY <1>12 DEF M, r

LEMMA TreeMobile ==
  ASSUME NEW stat \in Stats, NEW v, IsTree(v), NEW key \in KeysOf
  PROVE  InTree(v, "MOBILE", key) \in Nat /\ ListSum(read_tree_root(stat, v).mobile_list, key) = ListSum(stat.mobile_list, key) + InTree(v, "MOBILE", key)
<1> DEFINE s == Elems(v, "object")
           n == Len(s)
           r == read_tree_root(stat, v)
           Of(e) == IF e[1] = "data" THEN InData(e[2], "MOBILE", key) ELSE 0
           M(x) == ListSum(x.mobile_list, key)
           f == [i \in DOMAIN s |-> Of(s[i])]
<1>1. n \in Nat /\ DOMAIN s = 1 .. n /\ stat \in Stats
  BY TreeHas
<1>2. PICK h \in [0 .. n -> Stats] :
        h[0] = stat /\ r = h[n] /\ \A i \in 1 .. n : h[i] = RootRound(h[i - 1], s[i])
  BY TreeLoop
<1>3. InTree(v, "MOBILE", key) = SumOf(f)
  BY DEF InTree, SumOver
<1> HIDE DEF n, r
<1>4. ASSUME NEW i \in 1 .. n PROVE Of(s[i]) \in Nat
  <2>1. Root(s[i])
    BY <1>1, TreeHas
  <2> HIDE DEF s
  <2>2. s[i][1] = "data" => InData(s[i][2], "MOBILE", key) \in Nat
    BY <2>1, RootRoundIs
  <2> QED
    BY <2>2
<1>5. ASSUME NEW i \in 1 .. n, NEW x \in Stats PROVE M(RootRound(x, s[i])) = M(x) + Of(s[i])
  <2>1. Root(s[i])
    BY <1>1, TreeHas
  <2> HIDE DEF s
  <2> QED
    BY <2>1, RootRoundIs
<1>6. M(stat) \in Nat
  BY ListSumIs DEF Stats
<1> DEFINE grown == [i \in 0 .. n |-> M(h[i])]
<1> HIDE DEF Of, M, s
<1>7. f \in [1 .. n -> Nat] /\ \A i \in 1 .. n : f[i] = Of(s[i])
  BY <1>1, <1>4
<1> HIDE DEF f
<1>8. grown[0] = M(stat) /\ grown[n] = M(r)
  BY <1>1, <1>2
<1>9. \A i \in 1 .. n : grown[i] = grown[i - 1] + f[i]
  <2> SUFFICES ASSUME NEW i \in 1 .. n PROVE grown[i] = grown[i - 1] + f[i]
    OBVIOUS
  <2>1. i \in 0 .. n /\ i - 1 \in 0 .. n
    BY <1>1
  <2>2. h[i - 1] \in Stats /\ h[i] = RootRound(h[i - 1], s[i])
    BY <1>1, <1>2, <2>1
  <2>3. M(h[i]) = M(h[i - 1]) + Of(s[i])
    BY <1>5, <2>2
  <2> QED
    BY <1>7, <2>1, <2>3
<1> HIDE DEF grown
<1>10. grown[n] = grown[0] + SumOf(f)
  BY <1>1, <1>6, <1>7, <1>8, <1>9, SumOfSteps
<1>11. SumOf(f) \in Nat
  BY <1>1, <1>7, SumIsNat
<1>12. InTree(v, "MOBILE", key) \in Nat /\ M(r) = M(stat) + InTree(v, "MOBILE", key)
  BY <1>3, <1>8, <1>10, <1>11
<1> QED
  BY <1>12 DEF M, r

LEMMA TreeTime ==
  ASSUME NEW stat \in Stats, NEW v, IsTree(v)
  PROVE  read_tree_root(stat, v).start_time > 0 <=> stat.start_time > 0 \/ IsTimed(v)
<1> DEFINE s == Elems(v, "object")
           n == Len(s)
           r == read_tree_root(stat, v)
           Is(e) == e[1] = "data" /\ Some(e[2], "array", HasTime)
<1>1. n \in Nat /\ DOMAIN s = 1 .. n
  BY TreeHas
<1>2. PICK h \in [0 .. n -> Stats] :
        h[0] = stat /\ r = h[n] /\ \A i \in 1 .. n : h[i] = RootRound(h[i - 1], s[i])
  BY TreeLoop
<1>3. IsTimed(v) <=> \E i \in DOMAIN s : Is(s[i])
  BY DEF IsTimed, Some
<1> HIDE DEF n, r
<1>4. ASSUME NEW i \in 1 .. n, NEW x \in Stats
      PROVE  RootRound(x, s[i]).start_time > 0 <=> x.start_time > 0 \/ Is(s[i])
  <2>1. Root(s[i])
    BY <1>1, TreeHas
  <2> HIDE DEF s
  <2> QED
    BY <2>1, RootRoundIs
<1> HIDE DEF Is, s
<1> DEFINE On == {i \in 0 .. n : h[i].start_time > 0}
           Sets == {i \in 1 .. n : Is(s[i])}
<1>5. ASSUME NEW i \in 1 .. n PROVE i \in On <=> i - 1 \in On \/ i \in Sets
  <2>1. i \in 0 .. n /\ i - 1 \in 0 .. n
    BY <1>1
  <2>2. h[i - 1] \in Stats /\ h[i] = RootRound(h[i - 1], s[i])
    BY <1>1, <1>2, <2>1
  <2>3. h[i].start_time > 0 <=> h[i - 1].start_time > 0 \/ Is(s[i])
    BY <1>4, <2>2
  <2> QED
    BY <2>1, <2>3
<1>6. (0 \in On <=> stat.start_time > 0) /\ (n \in On <=> r.start_time > 0)
  <2>1. 0 \in 0 .. n /\ n \in 0 .. n
    BY <1>1
  <2> QED
    BY <1>2, <2>1
<1>7. (\E i \in 1 .. n : i \in Sets) <=> IsTimed(v)
  BY <1>1, <1>3
<1> HIDE DEF On, Sets
<1>8. n \in On <=> 0 \in On \/ \E i \in 1 .. n : i \in Sets
  BY <1>1, <1>5, FlagIs
<1>9. r.start_time > 0 <=> stat.start_time > 0 \/ IsTimed(v)
  BY <1>6, <1>7, <1>8
<1> QED
  BY <1>9 DEF r

(* What is read from a tree: its hits, and whether it has a time.          *)
LEMMA TreeIs ==
  ASSUME NEW v, IsTree(v)
  PROVE  LET stat == read_tree_root(EmptyStat, v) IN
         /\ stat \in Stats /\ (stat.start_time > 0 <=> IsTimed(v))
         /\ \A key \in KeysOf : /\ InTree(v, "PC", key) \in Nat /\ InTree(v, "MOBILE", key) \in Nat
                                /\ ListSum(stat.pc_list, key) = InTree(v, "PC", key)
                                /\ ListSum(stat.mobile_list, key) = InTree(v, "MOBILE", key)
<1> DEFINE stat == read_tree_root(EmptyStat, v)  n == Len(Elems(v, "object"))
<1>1. /\ EmptyStat \in Stats /\ EmptyStat.start_time = 0
      /\ EmptyStat.pc_list = <<>> /\ EmptyStat.mobile_list = <<>>
  BY DEF EmptyStat, Stats
<1>2. stat \in Stats
  <2>1. PICK h \in [0 .. n -> Stats] :
          /\ h[0] = EmptyStat /\ stat = h[n]
          /\ \A i \in 1 .. n : h[i] = RootRound(h[i - 1], Elems(v, "object")[i])
    BY <1>1, TreeLoop
  <2>2. n \in Nat
    BY TreeHas
  <2> HIDE DEF n, stat
  <2> QED
    BY <2>1, <2>2
<1>3. stat.start_time > 0 <=> IsTimed(v)
  BY <1>1, TreeTime
<1>4. ASSUME NEW key \in KeysOf
      PROVE  /\ InTree(v, "PC", key) \in Nat /\ InTree(v, "MOBILE", key) \in Nat
             /\ ListSum(stat.pc_list, key) = InTree(v, "PC", key)
             /\ ListSum(stat.mobile_list, key) = InTree(v, "MOBILE", key)
  <2>1. ListSum(<<>>, key) = 0
    <3>1. <<>> \in Seq(Areas)
      OBVIOUS
    <3> QED
      BY <3>1, ListSumIs
  <2>2. /\ InTree(v, "PC", key) \in Nat /\ ListSum(stat.pc_list, key) = ListSum(EmptyStat.pc_list, key) + InTree(v, "PC", key)
        /\ InTree(v, "MOBILE", key) \in Nat /\ ListSum(stat.mobile_list, key) = ListSum(EmptyStat.mobile_list, key) + InTree(v, "MOBILE", key)
    BY <1>1, TreePc, TreeMobile
  <2> HIDE DEF stat
  <2> QED
    BY <1>1, <2>1, <2>2
<1> QED
  BY <1>2, <1>3, <1>4

-----------------------------------------------------------------------------
(* What is merged                                                          *)

Recs == [pc : Nat, mobile : Nat]
Maps == {m \in UNION {[K -> Recs] : K \in SUBSET KeysOf} : \A k \in DOMAIN m : m[k].pc + m[k].mobile > 0}

Platforms == {"PC", "MOBILE"}
PlaysOf(r, platform) == IF platform = "PC" THEN r.pc ELSE r.mobile
Got(m, key, platform) == PlaysOf(RecordOf(m, key), platform)

LEMMA MapHas ==
  ASSUME NEW m \in Maps
  PROVE  /\ DOMAIN m \subseteq KeysOf /\ \A k \in DOMAIN m : m[k] \in Recs /\ m[k].pc + m[k].mobile > 0
         /\ \A k : RecordOf(m, k) \in Recs
         /\ \A k, q : Got(m, k, q) \in Nat
<1>1. /\ DOMAIN m \subseteq KeysOf /\ \A k \in DOMAIN m : m[k] \in Recs /\ m[k].pc + m[k].mobile > 0
  BY DEF Maps
<1>2. NewRecord \in Recs
  BY DEF NewRecord, Recs
<1>3. \A k : RecordOf(m, k) \in Recs
  BY <1>1, <1>2 DEF RecordOf
<1>4. \A r \in Recs : r.pc \in Nat /\ r.mobile \in Nat
  BY DEF Recs
<1>5. \A k, q : Got(m, k, q) \in Nat
  BY <1>3, <1>4 DEF Got, PlaysOf
<1> QED
  BY <1>1, <1>3, <1>5

LEMMA PlusIs ==
  ASSUME NEW r \in Recs, NEW platform \in Platforms, NEW num \in Nat \ {0}
  PROVE  /\ Plus(r, platform, num) \in Recs /\ Plus(r, platform, num).pc + Plus(r, platform, num).mobile > 0
         /\ \A q \in Platforms : PlaysOf(Plus(r, platform, num), q) = PlaysOf(r, q) + IF q = platform THEN num ELSE 0
<1>1. r = [pc |-> r.pc, mobile |-> r.mobile] /\ r.pc \in Nat /\ r.mobile \in Nat
  BY DEF Recs
<1>2. CASE platform = "PC"
  <2>1. Plus(r, platform, num) = [pc |-> r.pc + num, mobile |-> r.mobile]
    BY <1>1, <1>2 DEF Plus
  <2> QED
    BY <1>1, <1>2, <2>1 DEF Recs, PlaysOf, Platforms
<1>3. CASE platform = "MOBILE"
  <2>1. Plus(r, platform, num) = [pc |-> r.pc, mobile |-> r.mobile + num]
    BY <1>1, <1>3 DEF Plus
  <2> QED
    BY <1>1, <1>3, <2>1 DEF Recs, PlaysOf, Platforms
<1> QED
  BY <1>2, <1>3 DEF Platforms

LEMMA AddHitIs ==
  ASSUME NEW m \in Maps, NEW platform \in Platforms, NEW key \in KeysOf, NEW num \in Nat \ {0}
  PROVE  /\ AddHit(m, platform, key, num) \in Maps
         /\ \A k, q : q \in Platforms =>
              Got(AddHit(m, platform, key, num), k, q) =
                Got(m, k, q) + IF k = key /\ q = platform THEN num ELSE 0
<1> DEFINE r == Plus(RecordOf(m, key), platform, num)
           D == DOMAIN m \cup {key}
           h == AddHit(m, platform, key, num)
<1>1. /\ r \in Recs /\ r.pc + r.mobile > 0
      /\ \A q \in Platforms : PlaysOf(r, q) = PlaysOf(RecordOf(m, key), q) + IF q = platform THEN num ELSE 0
  BY MapHas, PlusIs
<1>2. h = [k \in D |-> IF k = key THEN r ELSE m[k]]
  BY DEF AddHit, WithRecord
<1>3. D \in SUBSET KeysOf /\ \A k \in DOMAIN m : m[k] \in Recs /\ m[k].pc + m[k].mobile > 0
  BY MapHas
<1> HIDE DEF r, h
<1>4. h \in [D -> Recs] /\ \A k \in D : h[k].pc + h[k].mobile > 0
  BY <1>1, <1>2, <1>3
<1>5. h \in Maps
  <2> HIDE DEF D
  <2> QED
    BY <1>3, <1>4 DEF Maps
<1>6. ASSUME NEW k, NEW q \in Platforms
      PROVE  Got(h, k, q) = Got(m, k, q) + IF k = key /\ q = platform THEN num ELSE 0
  <2>1. Got(m, k, q) \in Nat
    BY MapHas
  <2>2. CASE k = key
    <3>1. RecordOf(h, k) = r
      BY <1>2, <2>2 DEF RecordOf
    <3> QED
      BY <1>1, <2>2, <3>1 DEF Got
  <2>3. CASE k # key
    <3>1. RecordOf(h, k) = RecordOf(m, k)
      BY <1>2, <2>3 DEF RecordOf
    <3> QED
      BY <2>1, <2>3, <3>1 DEF Got
  <2> QED
    BY <2>2, <2>3
<1> QED
  BY <1>5, <1>6 DEF h

(* The hits of an area.                                                    *)
HitRound(m, platform, area, h) == AddHit(m, platform, <<h.hash_id, area.area_id>>, h.hits_num)

LEMMA AreaFields ==
  ASSUME NEW area \in Areas
  PROVE  LET list == area.hashid_list IN
         /\ area.area_id \in Int /\ list \in Seq(ValidHits)
         /\ Len(list) \in Nat /\ DOMAIN list = 1 .. Len(list)
         /\ \A i \in 1 .. Len(list) : list[i] \in ValidHits
<1> DEFINE list == area.hashid_list
<1>1. area.area_id \in Int /\ list \in Seq(ValidHits)
  BY DEF Areas, AreasOf
<1> HIDE DEF list
<1>2. Len(list) \in Nat /\ DOMAIN list = 1 .. Len(list) /\ \A i \in 1 .. Len(list) : list[i] \in ValidHits
  BY <1>1
<1> QED
  BY <1>1, <1>2 DEF list

LEMMA HitRoundIs ==
  ASSUME NEW m \in Maps, NEW platform \in Platforms, NEW area \in Areas, NEW h \in ValidHits
  PROVE  /\ HitRound(m, platform, area, h) \in Maps
         /\ \A key \in KeysOf, q \in Platforms :
              Got(HitRound(m, platform, area, h), key, q) = Got(m, key, q)
                + IF h.hash_id = key[1] /\ area.area_id = key[2] /\ q = platform THEN h.hits_num ELSE 0
<1> DEFINE k == <<h.hash_id, area.area_id>>
<1>1. h.hash_id \in ValidIds /\ h.hits_num \in Nat \ {0} /\ area.area_id \in Int
  BY AreaFields DEF ValidHits
<1>2. k \in KeysOf
  BY <1>1 DEF KeysOf
<1>3. \A key \in KeysOf : key = k <=> h.hash_id = key[1] /\ area.area_id = key[2]
  BY DEF KeysOf
<1> HIDE DEF k
<1>4. /\ HitRound(m, platform, area, h) = AddHit(m, platform, k, h.hits_num)
      /\ AddHit(m, platform, k, h.hits_num) \in Maps
      /\ \A key, q : q \in Platforms => Got(AddHit(m, platform, k, h.hits_num), key, q) =
                Got(m, key, q) + IF key = k /\ q = platform THEN h.hits_num ELSE 0
  <2>1. HitRound(m, platform, area, h) = AddHit(m, platform, k, h.hits_num)
    BY DEF HitRound, k
  <2> QED
    BY <1>1, <1>2, <2>1, AddHitIs
<1> QED
  BY <1>3, <1>4

LEMMA HitsLoop ==
  ASSUME NEW m \in Maps, NEW platform \in Platforms, NEW area \in Areas
  PROVE  \E h \in [0 .. Len(area.hashid_list) -> Maps] :
           /\ h[0] = m /\ MergeArea(m, platform, area) = h[Len(area.hashid_list)]
           /\ \A i \in 1 .. Len(area.hashid_list) : h[i] = HitRound(h[i - 1], platform, area, area.hashid_list[i])
<1> DEFINE n == Len(area.hashid_list)
           G == [i \in 1 .. n |-> [acc \in Maps |-> HitRound(acc, platform, area, area.hashid_list[i])]]
           IsIter(iter) == iter = [S \in SUBSET DOMAIN area.hashid_list |->
             IF S = {} THEN m ELSE HitRound(iter[S \ {Max(S)}], platform, area, area.hashid_list[Max(S)])]
<1>0. n \in Nat /\ DOMAIN area.hashid_list = 1 .. n /\ m \in Maps
  BY AreaFields
<1>a. ASSUME NEW i \in 1 .. n, NEW acc \in Maps PROVE HitRound(acc, platform, area, area.hashid_list[i]) \in Maps
  <2> DEFINE e == area.hashid_list[i]
  <2>1. e \in ValidHits
    BY AreaFields
  <2> HIDE DEF e
  <2>2. HitRound(acc, platform, area, e) \in Maps
    BY <2>1, HitRoundIs
  <2> QED
    BY <2>2 DEF e
<1>1. G \in [1 .. n -> [Maps -> Maps]]
  BY <1>a
<1>2. MergeArea(m, platform, area) = (CHOOSE g : IsIter(g))[DOMAIN area.hashid_list]
  BY DEF MergeArea, HitRound, FoldLeft, MapThenFoldSet
<1> HIDE DEF n
<1>3. PICK g \in [SUBSET (1 .. n) -> Maps] : IsLoop(g, n, m, G)
  <2> HIDE DEF G, IsIter
  <2> QED
    BY <1>0, <1>1, LoopExists, Zenon
<1>4. IsIter(g)
  <2>1. ASSUME NEW S \in SUBSET (1 .. n), S # {}
        PROVE  G[Max(S)][g[S \ {Max(S)}]] = HitRound(g[S \ {Max(S)}], platform, area, area.hashid_list[Max(S)])
    <3>1. Max(S) \in 1 .. n /\ S \ {Max(S)} \in SUBSET (1 .. n)
      BY <1>0, <2>1, MaxIsIn
    <3>2. g[S \ {Max(S)}] \in Maps
      BY <1>3, <3>1
    <3> QED
      BY <3>1, <3>2
  <2> HIDE DEF G
  <2>2. [S \in SUBSET (1 .. n) |-> IF S = {} THEN m ELSE G[Max(S)][g[S \ {Max(S)}]]]
        = [S \in SUBSET (1 .. n) |-> IF S = {} THEN m ELSE HitRound(g[S \ {Max(S)}], platform, area, area.hashid_list[Max(S)])]
    BY <2>1
  <2> QED
    BY <1>0, <1>3, <2>2, Zenon DEF IsLoop
<1>5. PICK iter : IsIter(iter) /\ MergeArea(m, platform, area) = iter[1 .. n]
  <2> HIDE DEF IsIter
  <2> QED
    BY <1>0, <1>2, <1>4, Zenon
<1>6. /\ iter[{}] = m
      /\ \A S \in SUBSET (1 .. n) : S # {} => iter[S] = HitRound(iter[S \ {Max(S)}], platform, area, area.hashid_list[Max(S)])
  <2>1. \A S \in SUBSET (1 .. n) : iter[S] = IF S = {} THEN m ELSE HitRound(iter[S \ {Max(S)}], platform, area, area.hashid_list[Max(S)])
    BY <1>0, <1>5
  <2> QED
    BY <2>1
<1>7. ASSUME NEW S \in SUBSET (1 .. n), S # {}, iter[S \ {Max(S)}] \in Maps
      PROVE  iter[S] = G[Max(S)][iter[S \ {Max(S)}]]
  <2>1. Max(S) \in 1 .. n
    BY <1>0, <1>7, MaxIsIn
  <2>2. iter[S] = HitRound(iter[S \ {Max(S)}], platform, area, area.hashid_list[Max(S)])
    BY <1>6, <1>7, Zenon
  <2> QED
    BY <1>7, <2>1, <2>2
<1>8. \A i \in 1 .. n : \A acc \in Maps : G[i][acc] = HitRound(acc, platform, area, area.hashid_list[i])
  OBVIOUS
<1> HIDE DEF G, IsIter
<1>b. Iterates(iter, n, Maps, m, G)
  <2>1. iter[{}] = m
    BY <1>6
  <2>2. \A S \in SUBSET (1 .. n) :
          S # {} /\ iter[S \ {Max(S)}] \in Maps => iter[S] = G[Max(S)][iter[S \ {Max(S)}]]
    BY <1>7, Zenon
  <2> QED
    BY <2>1, <2>2, Zenon DEF Iterates
<1>9. PICK h \in [0 .. n -> Maps] : IsRounds(h, iter, n, m, G)
  <2>1. /\ n \in Nat /\ m \in Maps /\ G \in [1 .. n -> [Maps -> Maps]]
        /\ Iterates(iter, n, Maps, m, G)
    BY <1>0, <1>1, <1>b
  <2> QED
    BY <2>1, LoopRounds, Zenon
<1>10. \A i \in 1 .. n : h[i] = HitRound(h[i - 1], platform, area, area.hashid_list[i])
  <2> SUFFICES ASSUME NEW i \in 1 .. n PROVE h[i] = HitRound(h[i - 1], platform, area, area.hashid_list[i])
    OBVIOUS
  <2>1. h[i - 1] \in Maps
    BY <1>0, <1>9
  <2> QED
    BY <1>8, <1>9, <2>1 DEF IsRounds
<1> QED
  BY <1>5, <1>9, <1>10 DEF n, IsRounds

LEMMA HitsAdd ==
  ASSUME NEW m \in Maps, NEW platform \in Platforms, NEW area \in Areas, NEW key \in KeysOf, area.area_id = key[2]
  PROVE  HitSum(area.hashid_list, key[1]) \in Nat /\ Got(MergeArea(m, platform, area), key, platform) = Got(m, key, platform) + HitSum(area.hashid_list, key[1])
<1> DEFINE s == area.hashid_list
           n == Len(s)
           r == MergeArea(m, platform, area)
           Of(e) == IF e.hash_id = key[1] THEN e.hits_num ELSE 0
           M(x) == Got(x, key, platform)
           f == [i \in DOMAIN s |-> Of(s[i])]
<1>1. n \in Nat /\ DOMAIN s = 1 .. n /\ m \in Maps
  BY AreaFields
<1>2. PICK h \in [0 .. n -> Maps] :
        h[0] = m /\ r = h[n] /\ \A i \in 1 .. n : h[i] = HitRound(h[i - 1], platform, area, s[i])
  BY HitsLoop
<1>3. HitSum(area.hashid_list, key[1]) = SumOf(f)
  BY DEF HitSum
<1> HIDE DEF n, r
<1>4. ASSUME NEW i \in 1 .. n PROVE Of(s[i]) \in Nat
  <2>1. s[i] \in ValidHits
    BY <1>1, AreaFields
  <2> HIDE DEF s
  <2> QED
    BY <2>1 DEF ValidHits
<1>5. ASSUME NEW i \in 1 .. n, NEW x \in Maps PROVE M(HitRound(x, platform, area, s[i])) = M(x) + Of(s[i])
  <2>1. s[i] \in ValidHits
    BY <1>1, AreaFields
  <2> HIDE DEF s
  <2> QED
    BY <2>1, HitRoundIs
<1>6. M(m) \in Nat
  BY MapHas
<1> DEFINE grown == [i \in 0 .. n |-> M(h[i])]
<1> HIDE DEF Of, M, s
<1>7. f \in [1 .. n -> Nat] /\ \A i \in 1 .. n : f[i] = Of(s[i])
  BY <1>1, <1>4
<1> HIDE DEF f
<1>8. grown[0] = M(m) /\ grown[n] = M(r)
  BY <1>1, <1>2
<1>9. \A i \in 1 .. n : grown[i] = grown[i - 1] + f[i]
  <2> SUFFICES ASSUME NEW i \in 1 .. n PROVE grown[i] = grown[i - 1] + f[i]
    OBVIOUS
  <2>1. i \in 0 .. n /\ i - 1 \in 0 .. n
    BY <1>1
  <2>2. h[i - 1] \in Maps /\ h[i] = HitRound(h[i - 1], platform, area, s[i])
    BY <1>1, <1>2, <2>1
  <2>3. M(h[i]) = M(h[i - 1]) + Of(s[i])
    BY <1>5, <2>2
  <2> QED
    BY <1>7, <2>1, <2>3
<1> HIDE DEF grown
<1>10. grown[n] = grown[0] + SumOf(f)
  BY <1>1, <1>6, <1>7, <1>8, <1>9, SumOfSteps
<1>11. SumOf(f) \in Nat
  BY <1>1, <1>7, SumIsNat
<1>12. HitSum(area.hashid_list, key[1]) \in Nat /\ M(r) = M(m) + HitSum(area.hashid_list, key[1])
  BY <1>3, <1>8, <1>10, <1>11
<1> QED
  BY <1>12 DEF M, r

LEMMA HitsKeep ==
  ASSUME NEW m \in Maps, NEW platform \in Platforms, NEW area \in Areas, NEW key \in KeysOf, NEW q \in Platforms, q # platform \/ area.area_id # key[2]
  PROVE  Got(MergeArea(m, platform, area), key, q) = Got(m, key, q)
<1> DEFINE n == Len(area.hashid_list)
           T == {x \in Maps : Got(x, key, q) = Got(m, key, q)}
<1>1. n \in Nat
  BY AreaFields
<1>2. PICK h \in [0 .. n -> Maps] :
        h[0] = m /\ MergeArea(m, platform, area) = h[n] /\ \A i \in 1 .. n : h[i] = HitRound(h[i - 1], platform, area, area.hashid_list[i])
  BY HitsLoop
<1>3. ASSUME NEW i \in 1 .. n, h[i - 1] \in T PROVE h[i] \in T
  <2>1. area.hashid_list[i] \in ValidHits /\ h[i - 1] \in Maps /\ Got(h[i - 1], key, q) = Got(m, key, q)
    BY <1>3, AreaFields
  <2>2. h[i] = HitRound(h[i - 1], platform, area, area.hashid_list[i])
    BY <1>2
  <2>3. h[i] \in Maps /\ Got(h[i], key, q) = Got(h[i - 1], key, q) + 0
    BY <2>1, <2>2, HitRoundIs
  <2>4. Got(m, key, q) \in Nat
    BY MapHas
  <2> QED
    BY <2>1, <2>3, <2>4
<1>4. h[0] \in T
  BY <1>2
<1> HIDE DEF T, n
<1>5. \A i \in 0 .. n : h[i] \in T
  BY <1>1, <1>3, <1>4, RoundsKeep
<1>6. h[n] \in T
  BY <1>1, <1>5
<1> QED
  BY <1>2, <1>6 DEF T

LEMMA MergeAreaIs ==
  ASSUME NEW m \in Maps, NEW platform \in Platforms, NEW area \in Areas
  PROVE  /\ MergeArea(m, platform, area) \in Maps
         /\ \A key \in KeysOf, q \in Platforms :
              Got(MergeArea(m, platform, area), key, q) =
                Got(m, key, q) + IF q = platform THEN AreaSum(area, key) ELSE 0
<1>1. MergeArea(m, platform, area) \in Maps
  <2> DEFINE n == Len(area.hashid_list)
  <2>1. PICK h \in [0 .. n -> Maps] :
          /\ h[0] = m /\ MergeArea(m, platform, area) = h[n]
          /\ \A i \in 1 .. n : h[i] = HitRound(h[i - 1], platform, area, area.hashid_list[i])
    BY HitsLoop
  <2>2. n \in Nat
    BY AreaFields
  <2> HIDE DEF n
  <2> QED
    BY <2>1, <2>2
<1>2. ASSUME NEW key \in KeysOf, NEW q \in Platforms
      PROVE  Got(MergeArea(m, platform, area), key, q) =
               Got(m, key, q) + IF q = platform THEN AreaSum(area, key) ELSE 0
  <2>1. Got(m, key, q) \in Nat
    BY MapHas
  <2>2. CASE q = platform /\ area.area_id = key[2]
    <3>1. Got(MergeArea(m, platform, area), key, platform) = Got(m, key, platform) + HitSum(area.hashid_list, key[1])
      BY <2>2, HitsAdd
    <3> QED
      BY <2>2, <3>1 DEF AreaSum
  <2>3. CASE q # platform \/ area.area_id # key[2]
    <3>1. Got(MergeArea(m, platform, area), key, q) = Got(m, key, q)
      BY <2>3, HitsKeep
    <3> QED
      BY <2>1, <2>3, <3>1 DEF AreaSum
  <2> QED
    BY <2>2, <2>3
<1> QED
  BY <1>1, <1>2

LEMMA ListHas ==
  ASSUME NEW list \in Seq(Areas)
  PROVE  Len(list) \in Nat /\ DOMAIN list = 1 .. Len(list) /\ \A i \in 1 .. Len(list) : list[i] \in Areas
OBVIOUS

LEMMA ListLoop ==
  ASSUME NEW m \in Maps, NEW platform \in Platforms, NEW list \in Seq(Areas)
  PROVE  \E h \in [0 .. Len(list) -> Maps] :
           /\ h[0] = m /\ MergeList(m, platform, list) = h[Len(list)]
           /\ \A i \in 1 .. Len(list) : h[i] = MergeArea(h[i - 1], platform, list[i])
<1> DEFINE n == Len(list)
           G == [i \in 1 .. n |-> [acc \in Maps |-> MergeArea(acc, platform, list[i])]]
           IsIter(iter) == iter = [S \in SUBSET DOMAIN list |->
             IF S = {} THEN m ELSE MergeArea(iter[S \ {Max(S)}], platform, list[Max(S)])]
<1>0. n \in Nat /\ DOMAIN list = 1 .. n /\ m \in Maps
  BY ListHas
<1>a. ASSUME NEW i \in 1 .. n, NEW acc \in Maps PROVE MergeArea(acc, platform, list[i]) \in Maps
  <2>1. list[i] \in Areas
    BY ListHas
  <2> QED
    BY <2>1, MergeAreaIs
<1>1. G \in [1 .. n -> [Maps -> Maps]]
  BY <1>a
<1>2. MergeList(m, platform, list) = (CHOOSE g : IsIter(g))[DOMAIN list]
  BY DEF MergeList, FoldLeft, MapThenFoldSet
<1> HIDE DEF n
<1>3. PICK g \in [SUBSET (1 .. n) -> Maps] : IsLoop(g, n, m, G)
  <2> HIDE DEF G, IsIter
  <2> QED
    BY <1>0, <1>1, LoopExists, Zenon
<1>4. IsIter(g)
  <2>1. ASSUME NEW S \in SUBSET (1 .. n), S # {}
        PROVE  G[Max(S)][g[S \ {Max(S)}]] = MergeArea(g[S \ {Max(S)}], platform, list[Max(S)])
    <3>1. Max(S) \in 1 .. n /\ S \ {Max(S)} \in SUBSET (1 .. n)
      BY <1>0, <2>1, MaxIsIn
    <3>2. g[S \ {Max(S)}] \in Maps
      BY <1>3, <3>1
    <3> QED
      BY <3>1, <3>2
  <2> HIDE DEF G
  <2>2. [S \in SUBSET (1 .. n) |-> IF S = {} THEN m ELSE G[Max(S)][g[S \ {Max(S)}]]]
        = [S \in SUBSET (1 .. n) |-> IF S = {} THEN m ELSE MergeArea(g[S \ {Max(S)}], platform, list[Max(S)])]
    BY <2>1
  <2> QED
    BY <1>0, <1>3, <2>2, Zenon DEF IsLoop
<1>5. PICK iter : IsIter(iter) /\ MergeList(m, platform, list) = iter[1 .. n]
  <2> HIDE DEF IsIter
  <2> QED
    BY <1>0, <1>2, <1>4, Zenon
<1>6. /\ iter[{}] = m
      /\ \A S \in SUBSET (1 .. n) : S # {} => iter[S] = MergeArea(iter[S \ {Max(S)}], platform, list[Max(S)])
  <2>1. \A S \in SUBSET (1 .. n) : iter[S] = IF S = {} THEN m ELSE MergeArea(iter[S \ {Max(S)}], platform, list[Max(S)])
    BY <1>0, <1>5
  <2> QED
    BY <2>1
<1>7. ASSUME NEW S \in SUBSET (1 .. n), S # {}, iter[S \ {Max(S)}] \in Maps
      PROVE  iter[S] = G[Max(S)][iter[S \ {Max(S)}]]
  <2>1. Max(S) \in 1 .. n
    BY <1>0, <1>7, MaxIsIn
  <2>2. iter[S] = MergeArea(iter[S \ {Max(S)}], platform, list[Max(S)])
    BY <1>6, <1>7, Zenon
  <2> QED
    BY <1>7, <2>1, <2>2
<1>8. \A i \in 1 .. n : \A acc \in Maps : G[i][acc] = MergeArea(acc, platform, list[i])
  OBVIOUS
<1> HIDE DEF G, IsIter
<1>b. Iterates(iter, n, Maps, m, G)
  <2>1. iter[{}] = m
    BY <1>6
  <2>2. \A S \in SUBSET (1 .. n) :
          S # {} /\ iter[S \ {Max(S)}] \in Maps => iter[S] = G[Max(S)][iter[S \ {Max(S)}]]
    BY <1>7, Zenon
  <2> QED
    BY <2>1, <2>2, Zenon DEF Iterates
<1>9. PICK h \in [0 .. n -> Maps] : IsRounds(h, iter, n, m, G)
  <2>1. /\ n \in Nat /\ m \in Maps /\ G \in [1 .. n -> [Maps -> Maps]]
        /\ Iterates(iter, n, Maps, m, G)
    BY <1>0, <1>1, <1>b
  <2> QED
    BY <2>1, LoopRounds, Zenon
<1>10. \A i \in 1 .. n : h[i] = MergeArea(h[i - 1], platform, list[i])
  <2> SUFFICES ASSUME NEW i \in 1 .. n PROVE h[i] = MergeArea(h[i - 1], platform, list[i])
    OBVIOUS
  <2>1. h[i - 1] \in Maps
    BY <1>0, <1>9
  <2> QED
    BY <1>8, <1>9, <2>1 DEF IsRounds
<1> QED
  BY <1>5, <1>9, <1>10 DEF n, IsRounds

LEMMA ListAdd ==
  ASSUME NEW m \in Maps, NEW platform \in Platforms, NEW list \in Seq(Areas), NEW key \in KeysOf
  PROVE  ListSum(list, key) \in Nat /\ Got(MergeList(m, platform, list), key, platform) = Got(m, key, platform) + ListSum(list, key)
<1> DEFINE s == list
           n == Len(s)
           r == MergeList(m, platform, list)
           Of(e) == AreaSum(e, key)
           M(x) == Got(x, key, platform)
           f == [i \in DOMAIN s |-> Of(s[i])]
<1>1. n \in Nat /\ DOMAIN s = 1 .. n /\ m \in Maps
  BY ListHas
<1>2. PICK h \in [0 .. n -> Maps] :
        h[0] = m /\ r = h[n] /\ \A i \in 1 .. n : h[i] = MergeArea(h[i - 1], platform, s[i])
  BY ListLoop
<1>3. ListSum(list, key) = SumOf(f)
  BY DEF ListSum
<1> HIDE DEF n, r
<1>4. ASSUME NEW i \in 1 .. n PROVE Of(s[i]) \in Nat
  BY <1>1, ListHas, AreaSumIs
<1>5. ASSUME NEW i \in 1 .. n, NEW x \in Maps PROVE M(MergeArea(x, platform, s[i])) = M(x) + Of(s[i])
  <2>1. s[i] \in Areas
    BY <1>1, ListHas
  <2> HIDE DEF s
  <2> QED
    BY <2>1, MergeAreaIs
<1>6. M(m) \in Nat
  BY MapHas
<1> DEFINE grown == [i \in 0 .. n |-> M(h[i])]
<1> HIDE DEF Of, M, s
<1>7. f \in [1 .. n -> Nat] /\ \A i \in 1 .. n : f[i] = Of(s[i])
  BY <1>1, <1>4
<1> HIDE DEF f
<1>8. grown[0] = M(m) /\ grown[n] = M(r)
  BY <1>1, <1>2
<1>9. \A i \in 1 .. n : grown[i] = grown[i - 1] + f[i]
  <2> SUFFICES ASSUME NEW i \in 1 .. n PROVE grown[i] = grown[i - 1] + f[i]
    OBVIOUS
  <2>1. i \in 0 .. n /\ i - 1 \in 0 .. n
    BY <1>1
  <2>2. h[i - 1] \in Maps /\ h[i] = MergeArea(h[i - 1], platform, s[i])
    BY <1>1, <1>2, <2>1
  <2>3. M(h[i]) = M(h[i - 1]) + Of(s[i])
    BY <1>5, <2>2
  <2> QED
    BY <1>7, <2>1, <2>3
<1> HIDE DEF grown
<1>10. grown[n] = grown[0] + SumOf(f)
  BY <1>1, <1>6, <1>7, <1>8, <1>9, SumOfSteps
<1>11. SumOf(f) \in Nat
  BY <1>1, <1>7, SumIsNat
<1>12. ListSum(list, key) \in Nat /\ M(r) = M(m) + ListSum(list, key)
  BY <1>3, <1>8, <1>10, <1>11
<1> QED
  BY <1>12 DEF M, r

LEMMA ListKeep ==
  ASSUME NEW m \in Maps, NEW platform \in Platforms, NEW list \in Seq(Areas), NEW key \in KeysOf, NEW q \in Platforms, q # platform
  PROVE  Got(MergeList(m, platform, list), key, q) = Got(m, key, q)
<1> DEFINE n == Len(list)
           T == {x \in Maps : Got(x, key, q) = Got(m, key, q)}
<1>1. n \in Nat
  BY ListHas
<1>2. PICK h \in [0 .. n -> Maps] :
        h[0] = m /\ MergeList(m, platform, list) = h[n] /\ \A i \in 1 .. n : h[i] = MergeArea(h[i - 1], platform, list[i])
  BY ListLoop
<1>3. ASSUME NEW i \in 1 .. n, h[i - 1] \in T PROVE h[i] \in T
  <2>1. list[i] \in Areas /\ h[i - 1] \in Maps /\ Got(h[i - 1], key, q) = Got(m, key, q)
    BY <1>3, ListHas
  <2>2. h[i] = MergeArea(h[i - 1], platform, list[i])
    BY <1>2
  <2>3. h[i] \in Maps /\ Got(h[i], key, q) = Got(h[i - 1], key, q) + 0
    BY <2>1, <2>2, MergeAreaIs
  <2>4. Got(m, key, q) \in Nat
    BY MapHas
  <2> QED
    BY <2>1, <2>3, <2>4
<1>4. h[0] \in T
  BY <1>2
<1> HIDE DEF T, n
<1>5. \A i \in 0 .. n : h[i] \in T
  BY <1>1, <1>3, <1>4, RoundsKeep
<1>6. h[n] \in T
  BY <1>1, <1>5
<1> QED
  BY <1>2, <1>6 DEF T

LEMMA MergeListIs ==
  ASSUME NEW m \in Maps, NEW platform \in Platforms, NEW list \in Seq(Areas)
  PROVE  /\ MergeList(m, platform, list) \in Maps
         /\ \A key \in KeysOf, q \in Platforms :
              /\ ListSum(list, key) \in Nat
              /\ Got(MergeList(m, platform, list), key, q) =
                   Got(m, key, q) + IF q = platform THEN ListSum(list, key) ELSE 0
<1> DEFINE r == MergeList(m, platform, list)
           n == Len(list)
<1>1. r \in Maps
  <2>1. PICK h \in [0 .. n -> Maps] :
          h[0] = m /\ r = h[n] /\ \A i \in 1 .. n : h[i] = MergeArea(h[i - 1], platform, list[i])
    BY ListLoop
  <2>2. n \in Nat
    BY ListHas
  <2> HIDE DEF n, r
  <2> QED
    BY <2>1, <2>2
<1>2. ASSUME NEW key \in KeysOf, NEW q \in Platforms
      PROVE  ListSum(list, key) \in Nat /\ Got(r, key, q) = Got(m, key, q) + IF q = platform THEN ListSum(list, key) ELSE 0
  <2>1. Got(m, key, q) \in Nat
    BY MapHas
  <2>2. ListSum(list, key) \in Nat /\ Got(r, key, platform) = Got(m, key, platform) + ListSum(list, key)
    BY ListAdd
  <2>3. q # platform => Got(r, key, q) = Got(m, key, q)
    BY ListKeep
  <2> HIDE DEF r
  <2> QED
    BY <2>1, <2>2, <2>3
<1> QED
  BY <1>1, <1>2

(* An interval adds what its tree means.                                   *)
TreeSum(v, key, platform) == IF IsTimed(v) THEN InTree(v, platform, key) ELSE 0
TreeRound(m, v) == MergeStat(m, read_tree_root(EmptyStat, v))

LEMMA TreeRoundIs ==
  ASSUME NEW m \in Maps, NEW v, IsTree(v)
  PROVE  /\ TreeRound(m, v) \in Maps
         /\ \A key \in KeysOf, q \in Platforms :
              /\ TreeSum(v, key, q) \in Nat
              /\ Got(TreeRound(m, v), key, q) = Got(m, key, q) + TreeSum(v, key, q)
<1> DEFINE stat == read_tree_root(EmptyStat, v)
           a == MergeList(m, "PC", stat.pc_list)
           b == MergeList(a, "MOBILE", stat.mobile_list)
<1>1. /\ stat \in Stats /\ (stat.start_time > 0 <=> IsTimed(v))
      /\ \A key \in KeysOf : /\ InTree(v, "PC", key) \in Nat /\ InTree(v, "MOBILE", key) \in Nat
                             /\ ListSum(stat.pc_list, key) = InTree(v, "PC", key)
                             /\ ListSum(stat.mobile_list, key) = InTree(v, "MOBILE", key)
  BY TreeIs
<1>2. TreeRound(m, v) = IF stat.start_time > 0 THEN b ELSE m
  BY DEF TreeRound, MergeStat, hits_records_merge
<1> HIDE DEF stat
<1>3. stat.pc_list \in Seq(Areas) /\ stat.mobile_list \in Seq(Areas)
  BY <1>1 DEF Stats
<1>4. "PC" \in Platforms /\ "MOBILE" \in Platforms /\ "PC" # "MOBILE"
  BY DEF Platforms
<1>5. /\ a \in Maps
      /\ \A key \in KeysOf, q \in Platforms :
           Got(a, key, q) = Got(m, key, q) + IF q = "PC" THEN ListSum(stat.pc_list, key) ELSE 0
  BY <1>3, <1>4, MergeListIs
<1> HIDE DEF a
<1>6. /\ b \in Maps
      /\ \A key \in KeysOf, q \in Platforms :
           Got(b, key, q) = Got(a, key, q) + IF q = "MOBILE" THEN ListSum(stat.mobile_list, key) ELSE 0
  BY <1>3, <1>4, <1>5, MergeListIs
<1> HIDE DEF b
<1>7. TreeRound(m, v) \in Maps
  BY <1>2, <1>6
<1>8. ASSUME NEW key \in KeysOf, NEW q \in Platforms
      PROVE  TreeSum(v, key, q) \in Nat /\ Got(TreeRound(m, v), key, q) = Got(m, key, q) + TreeSum(v, key, q)
  <2>1. Got(m, key, q) \in Nat
    BY MapHas
  <2>2. q = "PC" \/ q = "MOBILE"
    BY DEF Platforms
  <2>3. InTree(v, q, key) \in Nat /\ Got(b, key, q) = Got(m, key, q) + InTree(v, q, key)
    <3>1. CASE q = "PC"
      <4>1. Got(a, key, q) = Got(m, key, q) + ListSum(stat.pc_list, key) /\ Got(b, key, q) = Got(a, key, q) + 0
        BY <1>4, <1>5, <1>6, <3>1
      <4>2. ListSum(stat.pc_list, key) = InTree(v, q, key) /\ InTree(v, q, key) \in Nat
        BY <1>1, <3>1
      <4> QED
        BY <2>1, <4>1, <4>2
    <3>2. CASE q = "MOBILE"
      <4>1. Got(a, key, q) = Got(m, key, q) + 0 /\ Got(b, key, q) = Got(a, key, q) + ListSum(stat.mobile_list, key)
        BY <1>4, <1>5, <1>6, <3>2
      <4>2. ListSum(stat.mobile_list, key) = InTree(v, q, key) /\ InTree(v, q, key) \in Nat
        BY <1>1, <3>2
      <4> QED
        BY <2>1, <4>1, <4>2
    <3> QED
      BY <2>2, <3>1, <3>2
  <2>4. CASE IsTimed(v)
    <3>1. TreeSum(v, key, q) = InTree(v, q, key) /\ TreeRound(m, v) = b
      BY <1>1, <1>2, <2>4 DEF TreeSum
    <3> QED
      BY <2>3, <3>1
  <2>5. CASE ~IsTimed(v)
    <3>1. TreeSum(v, key, q) = 0 /\ TreeRound(m, v) = m
      BY <1>1, <1>2, <2>5 DEF TreeSum
    <3> QED
      BY <2>1, <3>1
  <2> QED
    BY <2>4, <2>5
<1> QED
  BY <1>7, <1>8

LEMMA TreesHave ==
  ASSUME NEW ts \in TreeLists
  PROVE  Len(ts) \in Nat /\ DOMAIN ts = 1 .. Len(ts) /\ \A i \in 1 .. Len(ts) : IsTree(ts[i])
<1>1. ts \in Seq(ToSet(ts)) /\ \A i \in DOMAIN ts : IsTree(ts[i])
  BY TreesAssumption
<1>2. Len(ts) \in Nat /\ DOMAIN ts = 1 .. Len(ts)
  BY <1>1
<1> QED
  BY <1>1, <1>2

LEMMA NoRecordsHas ==
  NoRecords \in Maps /\ \A key, q : Got(NoRecords, key, q) = 0
<1>1. NoRecords \in [{} -> Recs] /\ DOMAIN NoRecords = {}
  BY DEF NoRecords
<1>2. NoRecords \in Maps
  <2>1. {} \in SUBSET KeysOf
    OBVIOUS
  <2> QED
    BY <1>1, <2>1 DEF Maps
<1>3. ASSUME NEW key, NEW q PROVE Got(NoRecords, key, q) = 0
  BY <1>1 DEF Got, PlaysOf, RecordOf, NewRecord
<1> QED
  BY <1>2, <1>3

LEMMA TreesLoop ==
  ASSUME NEW ts \in TreeLists
  PROVE  \E h \in [0 .. Len(ts) -> Maps] :
           /\ h[0] = NoRecords /\ Merged(ts) = h[Len(ts)]
           /\ \A i \in 1 .. Len(ts) : h[i] = TreeRound(h[i - 1], ts[i])
<1> DEFINE n == Len(ts)
           G == [i \in 1 .. n |-> [acc \in Maps |-> TreeRound(acc, ts[i])]]
           IsIter(iter) == iter = [S \in SUBSET DOMAIN ts |->
             IF S = {} THEN NoRecords ELSE TreeRound(iter[S \ {Max(S)}], ts[Max(S)])]
<1>0. n \in Nat /\ DOMAIN ts = 1 .. n /\ NoRecords \in Maps
  BY TreesHave, NoRecordsHas
<1>a. ASSUME NEW i \in 1 .. n, NEW acc \in Maps PROVE TreeRound(acc, ts[i]) \in Maps
  <2>1. IsTree(ts[i])
    BY TreesHave
  <2> QED
    BY <2>1, TreeRoundIs
<1>1. G \in [1 .. n -> [Maps -> Maps]]
  BY <1>a
<1>2. Merged(ts) = (CHOOSE g : IsIter(g))[DOMAIN ts]
  BY DEF Merged, TreeRound, FoldLeft, MapThenFoldSet
<1> HIDE DEF n
<1>3. PICK g \in [SUBSET (1 .. n) -> Maps] : IsLoop(g, n, NoRecords, G)
  <2> HIDE DEF G, IsIter
  <2> QED
    BY <1>0, <1>1, LoopExists, Zenon
<1>4. IsIter(g)
  <2>1. ASSUME NEW S \in SUBSET (1 .. n), S # {}
        PROVE  G[Max(S)][g[S \ {Max(S)}]] = TreeRound(g[S \ {Max(S)}], ts[Max(S)])
    <3>1. Max(S) \in 1 .. n /\ S \ {Max(S)} \in SUBSET (1 .. n)
      BY <1>0, <2>1, MaxIsIn
    <3>2. g[S \ {Max(S)}] \in Maps
      BY <1>3, <3>1
    <3> QED
      BY <3>1, <3>2
  <2> HIDE DEF G
  <2>2. [S \in SUBSET (1 .. n) |-> IF S = {} THEN NoRecords ELSE G[Max(S)][g[S \ {Max(S)}]]]
        = [S \in SUBSET (1 .. n) |-> IF S = {} THEN NoRecords ELSE TreeRound(g[S \ {Max(S)}], ts[Max(S)])]
    BY <2>1
  <2> QED
    BY <1>0, <1>3, <2>2, Zenon DEF IsLoop
<1>5. PICK iter : IsIter(iter) /\ Merged(ts) = iter[1 .. n]
  <2> HIDE DEF IsIter
  <2> QED
    BY <1>0, <1>2, <1>4, Zenon
<1>6. /\ iter[{}] = NoRecords
      /\ \A S \in SUBSET (1 .. n) : S # {} => iter[S] = TreeRound(iter[S \ {Max(S)}], ts[Max(S)])
  <2>1. \A S \in SUBSET (1 .. n) : iter[S] = IF S = {} THEN NoRecords ELSE TreeRound(iter[S \ {Max(S)}], ts[Max(S)])
    BY <1>0, <1>5
  <2> QED
    BY <2>1
<1>7. ASSUME NEW S \in SUBSET (1 .. n), S # {}, iter[S \ {Max(S)}] \in Maps
      PROVE  iter[S] = G[Max(S)][iter[S \ {Max(S)}]]
  <2>1. Max(S) \in 1 .. n
    BY <1>0, <1>7, MaxIsIn
  <2>2. iter[S] = TreeRound(iter[S \ {Max(S)}], ts[Max(S)])
    BY <1>6, <1>7, Zenon
  <2> QED
    BY <1>7, <2>1, <2>2
<1>8. \A i \in 1 .. n : \A acc \in Maps : G[i][acc] = TreeRound(acc, ts[i])
  OBVIOUS
<1> HIDE DEF G, IsIter
<1>b. Iterates(iter, n, Maps, NoRecords, G)
  <2>1. iter[{}] = NoRecords
    BY <1>6
  <2>2. \A S \in SUBSET (1 .. n) :
          S # {} /\ iter[S \ {Max(S)}] \in Maps => iter[S] = G[Max(S)][iter[S \ {Max(S)}]]
    BY <1>7, Zenon
  <2> QED
    BY <2>1, <2>2, Zenon DEF Iterates
<1>9. PICK h \in [0 .. n -> Maps] : IsRounds(h, iter, n, NoRecords, G)
  <2>1. /\ n \in Nat /\ NoRecords \in Maps /\ G \in [1 .. n -> [Maps -> Maps]]
        /\ Iterates(iter, n, Maps, NoRecords, G)
    BY <1>0, <1>1, <1>b
  <2> QED
    BY <2>1, LoopRounds, Zenon
<1>10. \A i \in 1 .. n : h[i] = TreeRound(h[i - 1], ts[i])
  <2> SUFFICES ASSUME NEW i \in 1 .. n PROVE h[i] = TreeRound(h[i - 1], ts[i])
    OBVIOUS
  <2>1. h[i - 1] \in Maps
    BY <1>0, <1>9
  <2> QED
    BY <1>8, <1>9, <2>1 DEF IsRounds
<1> QED
  BY <1>5, <1>9, <1>10 DEF n, IsRounds

LEMMA TreesAdd ==
  ASSUME NEW ts \in TreeLists, NEW key \in KeysOf, NEW q \in Platforms
  PROVE  SumMeant(ts, q, key) \in Nat /\ Got(Merged(ts), key, q) = Got(NoRecords, key, q) + SumMeant(ts, q, key)
<1> DEFINE s == ts
           n == Len(s)
           r == Merged(ts)
           Of(e) == TreeSum(e, key, q)
           M(x) == Got(x, key, q)
           f == [i \in DOMAIN s |-> Of(s[i])]
<1>1. n \in Nat /\ DOMAIN s = 1 .. n /\ NoRecords \in Maps
  BY TreesHave, NoRecordsHas
<1>2. PICK h \in [0 .. n -> Maps] :
        h[0] = NoRecords /\ r = h[n] /\ \A i \in 1 .. n : h[i] = TreeRound(h[i - 1], s[i])
  BY TreesLoop
<1>3. SumMeant(ts, q, key) = SumOf(f)
  BY DEF SumMeant, SumOver, TreeSum
<1> HIDE DEF n, r
<1>4. ASSUME NEW i \in 1 .. n PROVE Of(s[i]) \in Nat
  <2>1. IsTree(s[i])
    BY <1>1, TreesHave
  <2>2. NoRecords \in Maps
    BY NoRecordsHas
  <2> HIDE DEF s
  <2> QED
    BY <2>1, <2>2, TreeRoundIs
<1>5. ASSUME NEW i \in 1 .. n, NEW x \in Maps PROVE M(TreeRound(x, s[i])) = M(x) + Of(s[i])
  <2>1. IsTree(s[i])
    BY <1>1, TreesHave
  <2> HIDE DEF s
  <2> QED
    BY <2>1, TreeRoundIs
<1>6. M(NoRecords) \in Nat
  BY NoRecordsHas
<1> DEFINE grown == [i \in 0 .. n |-> M(h[i])]
<1> HIDE DEF Of, M, s
<1>7. f \in [1 .. n -> Nat] /\ \A i \in 1 .. n : f[i] = Of(s[i])
  BY <1>1, <1>4
<1> HIDE DEF f
<1>8. grown[0] = M(NoRecords) /\ grown[n] = M(r)
  BY <1>1, <1>2
<1>9. \A i \in 1 .. n : grown[i] = grown[i - 1] + f[i]
  <2> SUFFICES ASSUME NEW i \in 1 .. n PROVE grown[i] = grown[i - 1] + f[i]
    OBVIOUS
  <2>1. i \in 0 .. n /\ i - 1 \in 0 .. n
    BY <1>1
  <2>2. h[i - 1] \in Maps /\ h[i] = TreeRound(h[i - 1], s[i])
    BY <1>1, <1>2, <2>1
  <2>3. M(h[i]) = M(h[i - 1]) + Of(s[i])
    BY <1>5, <2>2
  <2> QED
    BY <1>7, <2>1, <2>3
<1> HIDE DEF grown
<1>10. grown[n] = grown[0] + SumOf(f)
  BY <1>1, <1>6, <1>7, <1>8, <1>9, SumOfSteps
<1>11. SumOf(f) \in Nat
  BY <1>1, <1>7, SumIsNat
<1>12. SumMeant(ts, q, key) \in Nat /\ M(r) = M(NoRecords) + SumMeant(ts, q, key)
  BY <1>3, <1>8, <1>10, <1>11
<1> QED
  BY <1>12 DEF M, r

LEMMA MergedIs ==
  ASSUME NEW ts \in TreeLists
  PROVE  /\ Merged(ts) \in Maps
         /\ \A key \in KeysOf, q \in Platforms :
              SumMeant(ts, q, key) \in Nat /\ Got(Merged(ts), key, q) = SumMeant(ts, q, key)
<1>1. Merged(ts) \in Maps
  <2> DEFINE n == Len(ts)
  <2>1. PICK h \in [0 .. n -> Maps] :
          h[0] = NoRecords /\ Merged(ts) = h[n] /\ \A i \in 1 .. n : h[i] = TreeRound(h[i - 1], ts[i])
    BY TreesLoop
  <2>2. n \in Nat
    BY TreesHave
  <2> HIDE DEF n
  <2> QED
    BY <2>1, <2>2
<1>2. ASSUME NEW key \in KeysOf, NEW q \in Platforms
      PROVE  SumMeant(ts, q, key) \in Nat /\ Got(Merged(ts), key, q) = SumMeant(ts, q, key)
  <2>1. SumMeant(ts, q, key) \in Nat /\ Got(Merged(ts), key, q) = Got(NoRecords, key, q) + SumMeant(ts, q, key)
    BY TreesAdd
  <2> QED
    BY <2>1, NoRecordsHas
<1> QED
  BY <1>1, <1>2

-----------------------------------------------------------------------------
(* The sums of the trees, and types, in every state                        *)

LEMMA KeyHas ==
  ASSUME NEW k \in Keys
  PROVE  k[1] \in ValidIds <=> k \in KeysOf
<1>1. k \in STRING \X Int
  BY RankingAssumption DEF Keys
<1> QED
  BY <1>1 DEF KeysOf

LEMMA MergedSums ==
  ASSUME NEW ts \in TreeLists, NEW k \in Keys
  PROVE  LET sums == [pc |-> SumMeant(ts, "PC", k), mobile |-> SumMeant(ts, "MOBILE", k)] IN
         /\ k \in DOMAIN Merged(ts) <=> k[1] \in ValidIds /\ sums # NewRecord
         /\ k \in DOMAIN Merged(ts) => Merged(ts)[k] = sums
<1> DEFINE m == Merged(ts)
           pc == SumMeant(ts, "PC", k)  mobile == SumMeant(ts, "MOBILE", k)
           sums == [pc |-> pc, mobile |-> mobile]
<1>1. m \in Maps
  BY MergedIs
<1>2. /\ DOMAIN m \subseteq KeysOf /\ \A l \in DOMAIN m : m[l] \in Recs /\ m[l].pc + m[l].mobile > 0
      /\ RecordOf(m, k) \in Recs
  BY <1>1, MapHas
<1>3. CASE k \in KeysOf
  <2>1. /\ pc \in Nat /\ Got(m, k, "PC") = pc
        /\ mobile \in Nat /\ Got(m, k, "MOBILE") = mobile
    BY <1>3, MergedIs DEF Platforms
  <2> HIDE DEF m, pc, mobile
  <2>2. RecordOf(m, k).pc = pc /\ RecordOf(m, k).mobile = mobile
    BY <2>1 DEF Got, PlaysOf
  <2>3. RecordOf(m, k) = sums
    BY <1>2, <2>2 DEF Recs
  <2>4. CASE k \in DOMAIN m
    <3>1. m[k] = sums /\ sums.pc + sums.mobile > 0
      BY <1>2, <2>3, <2>4 DEF RecordOf
    <3>2. sums # NewRecord
      BY <2>1, <3>1 DEF NewRecord
    <3> QED
      BY <1>3, <2>4, <3>1, <3>2, KeyHas DEF m, pc, mobile
  <2>5. CASE k \notin DOMAIN m
    <3>1. sums = NewRecord
      BY <2>3, <2>5 DEF RecordOf
    <3> QED
      BY <2>5, <3>1 DEF m, pc, mobile
  <2> QED
    BY <2>4, <2>5
<1>4. CASE k \notin KeysOf
  <2>1. k \notin DOMAIN m /\ k[1] \notin ValidIds
    BY <1>2, <1>4, KeyHas
  <2> QED
    BY <2>1
<1> QED
  BY <1>3, <1>4

(* Every record of a ranking was played, and is in it once: there are no   *)
(* more of them than keys.                                                 *)
SortGood(sort) ==
  /\ \A i \in DOMAIN sort : sort[i].total > 0
  /\ \A i, j \in DOMAIN sort : sort[i].key = sort[j].key => i = j

LEMMA SortIsGood ==
  ASSUME NEW memo \in Maps, NEW K \in SUBSET DOMAIN memo, NEW sort, SortOf(sort, memo, K)
  PROVE  SortGood(sort)
<1>1. ASSUME NEW i \in DOMAIN sort PROVE sort[i].total > 0
  <2>1. sort[i].key \in DOMAIN memo /\ sort[i].total = Total(memo[sort[i].key])
    BY DEF SortOf
  <2>2. memo[sort[i].key] \in Recs /\ memo[sort[i].key].pc + memo[sort[i].key].mobile > 0
    BY <2>1, MapHas
  <2> QED
    BY <2>1, <2>2 DEF Total, Recs
<1> QED
  BY <1>1 DEF SortGood, SortOf

LEMMA KeysAreFinite == IsFiniteSet(Keys) /\ Cardinality(Keys) \in Nat
<1> DEFINE n == Len(KeyOrder)
<1>1. n \in Nat /\ KeyOrder \in [1 .. n -> Keys]
  BY RankingAssumption DEF Keys
<1>2. \A k \in Keys : \E i \in 1 .. n : KeyOrder[i] = k
  BY <1>1 DEF Keys, ToSet
<1> HIDE DEF n
<1>3. KeyOrder \in Surjection(1 .. n, Keys)
  BY <1>1, <1>2 DEF Surjection
<1>4. IsFiniteSet(1 .. n)
  BY <1>1, FS_Interval
<1>5. IsFiniteSet(Keys)
  BY <1>3, <1>4, FS_Surjection
<1> QED
  BY <1>5, FS_CardinalityType

LEMMA SortIsShort ==
  ASSUME NEW sort \in Seq(Entries), SortGood(sort)
  PROVE  Len(sort) \in Nat /\ Len(sort) <= Cardinality(Keys)
<1> DEFINE n == Len(sort)
           f == [i \in 1 .. n |-> sort[i].key]
<1>1. n \in Nat /\ DOMAIN sort = 1 .. n /\ \A i \in 1 .. n : sort[i].key \in Keys
  BY EntriesHave
<1> HIDE DEF n
<1>2. f \in [1 .. n -> Keys] /\ \A i, j \in 1 .. n : f[i] = f[j] => i = j
  BY <1>1 DEF SortGood
<1> HIDE DEF f
<1>3. f \in Injection(1 .. n, Keys)
  BY <1>2 DEF Injection, IsInjective
<1>4. IsFiniteSet(1 .. n) /\ Cardinality(1 .. n) = n
  BY <1>1, FS_Interval
<1>5. Cardinality(1 .. n) <= Cardinality(Keys)
  BY <1>3, KeysAreFinite, FS_Injection
<1> QED
  BY <1>1, <1>4, <1>5 DEF n

Far(s) == s.iter = Len(s.printed) /\ s.iter <= Cardinality(Keys)
MemoInv ==
  /\ g_hits_memo \in Maps /\ SortGood(g_hits_sort)
  /\ memoPc \in {"idle", "clear", "sort"} /\ memos \in 0 .. MaxMemos
  /\ toSort \subseteq Keys
  /\ memoPc = "clear" => SumsRight
  /\ \A r \in Readers : Far(session[r])

LEMMA NoneIsFar == Far(SessionInit)
<1>1. Len(<<>>) = 0
  OBVIOUS
<1> QED
  BY <1>1, KeysAreFinite DEF Far, SessionInit

LEMMA MemoInit == Init => MemoInv
<1> SUFFICES ASSUME Init PROVE MemoInv
  OBVIOUS
<1>1. SortGood(<<>>)
  BY DEF SortGood
<1>2. 0 \in 0 .. MaxMemos
  BY RankingAssumption
<1> QED
  BY <1>1, <1>2, NoRecordsHas, NoneIsFar DEF Init, MemoInv

LEMMA MemoMerge == IInv /\ MemoInv /\ Merge => MemoInv'
<1> SUFFICES ASSUME IInv, MemoInv, Merge PROVE MemoInv'
  OBVIOUS
<1>1. PICK ts \in TreeLists : trees' = ts /\ g_hits_memo' = Merged(ts)
  BY DEF Merge
<1>2. /\ g_hits_sort' = g_hits_sort /\ toSort' = toSort /\ session' = session
      /\ memoPc' = "clear" /\ memos' = memos + 1 /\ memos < MaxMemos
  BY DEF Merge
<1>3. memos' \in 0 .. MaxMemos
  BY <1>2, RankingAssumption DEF MemoInv
<1>4. g_hits_memo' \in Maps
  BY <1>1, MergedIs
<1>5. SumsRight'
  BY <1>1, MergedSums DEF SumsRight, Keys
<1> QED
  BY <1>2, <1>3, <1>4, <1>5 DEF MemoInv

LEMMA MemoSorting ==
  ASSUME IInv, IInv', MemoInv, ClearSort \/ hits_records_sort
  PROVE  MemoInv'
<1>1. g_hits_memo' = g_hits_memo /\ g_hits_memo \in Maps /\ memos' = memos /\ memoPc' = "sort" /\ Disturb
  BY DEF ClearSort, hits_records_sort, MemoInv
<1>2. /\ toSort' \subseteq DOMAIN g_hits_memo
      /\ SortOf(g_hits_sort', g_hits_memo, DOMAIN g_hits_memo \ toSort')
  BY <1>1 DEF IInv, Ranked
<1>3. SortGood(g_hits_sort')
  BY <1>1, <1>2, SortIsGood
<1>4. toSort' \subseteq Keys
  BY <1>2, MemoHas DEF IInv, Typed
<1>5. \A r \in Readers : Far(session'[r])
  BY <1>1, DisturbMarks DEF IInv, MemoInv, Marked, Far
<1> QED
  BY <1>1, <1>3, <1>4, <1>5 DEF MemoInv

LEMMA MemoSame ==
  ASSUME MemoInv, UNCHANGED memoVars, \A r \in Readers : Far(session'[r])
  PROVE  MemoInv'
<1>1. SumsRight => SumsRight'
  BY DEF SumsRight, memoVars
<1> QED
  BY <1>1 DEF MemoInv, memoVars

LEMMA MemoPrint ==
  ASSUME IInv, MemoInv, NEW r \in Readers, PrintRecord(r)
  PROVE  \A q \in Readers : Far(session'[q])
<1> DEFINE s == session[r]
           t == session'[r]
           c == Cardinality(Keys)
<1>1. /\ s \in Sessions /\ s.iter < Len(g_hits_sort)
      /\ session' = [session EXCEPT ![r] = [s EXCEPT !.iter = @ + 1,
           !.printed = Append(@, Record(s.iter + 1)), !.pc = IF Enough(s) THEN "close" ELSE "print"]]
  BY DEF IInv, Typed, PrintRecord
<1>2. session \in [Readers -> Sessions]
  BY DEF IInv, Typed
<1>3. t = [s EXCEPT !.iter = @ + 1, !.printed = Append(@, Record(s.iter + 1)),
                    !.pc = IF Enough(s) THEN "close" ELSE "print"]
  BY <1>1, <1>2
<1>4. \A q \in Readers \ {r} : session'[q] = session[q]
  BY <1>1, <1>2
<1>5. Len(g_hits_sort) \in Nat /\ Len(g_hits_sort) <= c /\ c \in Nat
  BY SortIsShort, KeysAreFinite DEF IInv, Typed, MemoInv
<1>6. Far(s)
  BY DEF MemoInv
<1> HIDE DEF s, t, c
<1>7. t.iter = s.iter + 1 /\ t.printed = Append(s.printed, Record(s.iter + 1))
  BY <1>1, <1>3 DEF Sessions
<1>8. s.iter \in Nat /\ s.printed \in Seq(Units) /\ s.iter = Len(s.printed)
  BY <1>1, <1>6 DEF Sessions, Far
<1>9. Len(t.printed) = s.iter + 1
  BY <1>7, <1>8
<1>10. Far(t)
  BY <1>1, <1>5, <1>7, <1>8, <1>9 DEF Far, c
<1> QED
  BY <1>4, <1>10 DEF MemoInv, t

LEMMA MemoReader ==
  ASSUME IInv, MemoInv, NEW r \in Readers, Reader(r)
  PROVE  MemoInv'
<1>0. session \in [Readers -> Sessions] /\ \A q \in Readers : Far(session[q])
  BY DEF IInv, Typed, MemoInv
<1>1. UNCHANGED memoVars
  BY DEF Reader, OpenFile, ReadSize, PrintRecord, PrintedAll, CloseFile, SendPiece, NextRequest
<1>2. \A q \in Readers : Far(session'[q])
  <2>1. CASE \E n \in Nums : OpenFile(r, n)
    <3>1. PICK n \in Nums : OpenFile(r, n)
      BY <2>1
    <3> DEFINE b == \E q \in Readers \ {r} : session[q].pc \in {"size", "print", "close"} /\ session[q].num = n
    <3>2. session' = [Emptied(r, n) EXCEPT ![r] = [SessionInit EXCEPT !.pc = "size", !.num = n, !.mixed = b]]
      BY <3>1 DEF OpenFile
    <3> HIDE DEF b
    <3>3. ASSUME NEW q \in Readers PROVE Far(session'[q])
      <4>1. CASE q = r
        <5>1. session'[q] = [SessionInit EXCEPT !.pc = "size", !.num = n, !.mixed = b]
          BY <3>2, <4>1 DEF Emptied
        <5>2. session'[q].iter = SessionInit.iter /\ session'[q].printed = SessionInit.printed
          BY <5>1 DEF SessionInit
        <5> QED
          BY <5>2, NoneIsFar DEF Far
      <4>2. CASE q # r
        <5>1. session'[q] = [session[q] EXCEPT !.mixed = @ \/ (q # r /\ session[q].num = n)]
          BY <3>2, <4>2 DEF Emptied
        <5>2. session'[q].iter = session[q].iter /\ session'[q].printed = session[q].printed
          BY <1>0, <5>1 DEF Sessions
        <5> QED
          BY <1>0, <5>2 DEF Far
      <4> QED
        BY <4>1, <4>2
    <3> QED
      BY <3>3
  <2>2. CASE PrintRecord(r)
    BY <2>2, MemoPrint
  <2>3. CASE ReadSize(r) \/ PrintedAll(r)
    <3> DEFINE s == session[r]
    <3>1. \E t \in {[s EXCEPT !.pc = "print", !.return_num = ReturnNum(s.num), !.memo = g_hits_memo,
                              !.rebuilt = memoPc # "idle"], [s EXCEPT !.pc = "close"]} :
            session' = [session EXCEPT ![r] = t]
      <4>1. CASE ReadSize(r)
        BY <1>0, <4>1 DEF ReadSize
      <4>2. CASE PrintedAll(r)
        BY <1>0, <4>2 DEF PrintedAll
      <4> QED
        BY <2>3, <4>1, <4>2
    <3>2. PICK t : /\ t \in {[s EXCEPT !.pc = "print", !.return_num = ReturnNum(s.num), !.memo = g_hits_memo,
                                       !.rebuilt = memoPc # "idle"], [s EXCEPT !.pc = "close"]}
                   /\ session' = [session EXCEPT ![r] = t]
      BY <3>1
    <3>3. s \in Sessions /\ Far(s)
      BY <1>0
    <3>4. \A q \in Readers \ {r} : session'[q] = session[q]
      BY <1>0, <3>2
    <3>5. session'[r] = t
      BY <1>0, <3>2
    <3> HIDE DEF s
    <3>6. t.iter = s.iter /\ t.printed = s.printed
      BY <3>2, <3>3 DEF Sessions
    <3>7. Far(t)
      BY <3>3, <3>6 DEF Far
    <3> QED
      BY <1>0, <3>4, <3>5, <3>7
  <2>4. CASE CloseFile(r)
    <3>1. session' = [session EXCEPT ![r] = [session[r] EXCEPT !.pc = "send", !.iter = 0, !.return_num = 0, !.printed = <<>>]]
      BY <2>4 DEF CloseFile
    <3>2. session'[r].iter = 0 /\ session'[r].printed = <<>>
      BY <1>0, <3>1 DEF Sessions
    <3>3. Far(session'[r])
      BY <3>2, NoneIsFar DEF Far, SessionInit
    <3>4. \A q \in Readers \ {r} : session'[q] = session[q]
      BY <1>0, <3>1
    <3> QED
      BY <1>0, <3>3, <3>4
  <2>5. CASE SendPiece(r)
    <3> DEFINE s == session[r]
               t == session'[r]
               next == Len(s.sent) + 1
    <3>1. session' = [session EXCEPT ![r] = IF next \in DOMAIN files[s.num]
            THEN [s EXCEPT !.sent = Append(@, files[s.num][next])] ELSE [s EXCEPT !.pc = "sent"]]
      BY <2>5 DEF SendPiece
    <3>2. t = IF next \in DOMAIN files[s.num]
            THEN [s EXCEPT !.sent = Append(@, files[s.num][next])] ELSE [s EXCEPT !.pc = "sent"]
      BY <1>0, <3>1
    <3>3. s \in Sessions
      BY <1>0
    <3>4. \A q \in Readers \ {r} : session'[q] = session[q]
      BY <1>0, <3>1
    <3> HIDE DEF s, t, next
    <3>5. t.iter = s.iter /\ t.printed = s.printed
      BY <3>2, <3>3 DEF Sessions
    <3>6. Far(t)
      BY <1>0, <3>5 DEF Far, s
    <3> QED
      BY <1>0, <3>4, <3>6 DEF t
  <2>6. CASE NextRequest(r)
    BY <1>0, <2>6, NoneIsFar DEF NextRequest
  <2> QED
    BY <2>1, <2>2, <2>3, <2>4, <2>5, <2>6 DEF Reader
<1> QED
  BY <1>1, <1>2, MemoSame

LEMMA MemoStep == IInv /\ MemoInv /\ [Next]_vars => MemoInv'
<1> SUFFICES ASSUME IInv, MemoInv, [Next]_vars PROVE MemoInv'
  OBVIOUS
<1>1. CASE Merge
  BY <1>1, MemoMerge
<1>2. CASE ClearSort \/ hits_records_sort
  BY <1>2, StepKeeps, MemoSorting DEF Next, do_memo
<1>3. CASE MemoDone
  <2>1. memoPc' = "idle" /\ UNCHANGED <<g_hits_memo, g_hits_sort, toSort, memos, session>>
    BY <1>3 DEF MemoDone
  <2> QED
    BY <2>1 DEF MemoInv
<1>4. CASE \E r \in Readers : Reader(r)
  BY <1>4, MemoReader
<1>5. CASE UNCHANGED vars
  <2>1. UNCHANGED memoVars /\ session' = session
    BY <1>5 DEF vars
  <2>2. \A r \in Readers : Far(session'[r])
    BY <2>1 DEF MemoInv
  <2> QED
    BY <2>1, <2>2, MemoSame
<1> QED
  BY <1>1, <1>2, <1>3, <1>4, <1>5 DEF Next, do_memo

LEMMA MemoRight == IInv /\ MemoInv => MemoIsSum
<1> SUFFICES ASSUME IInv, MemoInv PROVE MemoIsSum
  OBVIOUS
<1>1. /\ DOMAIN g_hits_memo \subseteq ToSet(KeyOrder)
      /\ \A k \in DOMAIN g_hits_memo : g_hits_memo[k] \in [pc : Nat, mobile : Nat]
  BY MemoHas, MapHas DEF IInv, Typed, MemoInv, Keys, Recs
<1>2. g_hits_sort \in Seq([total : Nat \ {0}, key : ToSet(KeyOrder)])
  <2> DEFINE n == Len(g_hits_sort)
             E == [total : Nat \ {0}, key : ToSet(KeyOrder)]
  <2>1. g_hits_sort \in Seq(Entries) /\ SortGood(g_hits_sort)
    BY DEF IInv, Typed, MemoInv
  <2>2. n \in Nat /\ DOMAIN g_hits_sort = 1 .. n /\ \A i \in 1 .. n : g_hits_sort[i] \in Entries
    BY <2>1
  <2>3. g_hits_sort \in [1 .. n -> Entries]
    BY <2>1
  <2>4. \A i \in 1 .. n : g_hits_sort[i] \in E
    BY <2>1, <2>2 DEF SortGood, Entries, Keys
  <2> HIDE DEF n, E
  <2>5. g_hits_sort \in [1 .. n -> E]
    BY <2>3, <2>4
  <2>6. g_hits_sort \in Seq(E)
    BY <2>2, <2>5
  <2> QED
    BY <2>6 DEF E
<1>3. DOMAIN files = Nums
  BY DEF IInv, Typed
<1>4. ASSUME NEW r \in Readers
      PROVE  /\ session[r].pc \in {"idle", "size", "print", "close", "send", "sent"}
             /\ session[r].iter = Len(session[r].printed)
             /\ session[r].iter <= Cardinality(ToSet(KeyOrder))
  <2>1. session[r] \in Sessions /\ Far(session[r])
    BY DEF IInv, Typed, MemoInv
  <2>2. session[r].pc \in {"idle", "size", "print", "close", "send", "sent"}
    BY <2>1 DEF Sessions, Writing, Sending
  <2> QED
    BY <2>1, <2>2 DEF Far, Keys
<1>5. TypeOK
  BY <1>1, <1>2, <1>3, <1>4 DEF TypeOK, MemoInv, Keys
<1> QED
  BY <1>5 DEF MemoIsSum, MemoInv

(* Whatever files OXEYE gives, of the form it gives them in, the records   *)
(* that do_memo has merged are the sums of what the files say, by hash id  *)
(* and area and apart for the two platforms, over all the lists of all the *)
(* intervals that have a time; a hash id has a record exactly if it is one *)
(* and was played, no ranking has more records than there are keys, and no *)
(* session prints more of them than that.                                  *)
THEOREM MemoAlwaysSums == Spec => []MemoIsSum
<1> DEFINE I == IInv /\ MemoInv
<1>1. Init => I
  BY InitIsRight, MemoInit
<1>2. I /\ [Next]_vars => I'
  BY StepKeeps, MemoStep
<1>3. I => MemoIsSum
  BY MemoRight
<1> QED
  BY <1>1, <1>2, <1>3, PTL DEF Spec

-----------------------------------------------------------------------------
(* The rules, one by one: what may follow a state s at a character c.      *)

BetweenTokens(s, c, n) ==
  \/ s \in Between /\ c \in Blank /\ n = s
  \/ s \in {"_V", "_A"} /\ <<c, n>> \in StartsValue
  \/ s \in AfterValue /\ c \in Blank /\ n = "OK"
  \/ s \in AfterValue \cup {"_O"} /\ c = "RCURB" /\ n = "OE"
  \/ s \in AfterValue \cup {"_A"} /\ c = "RSQRB" /\ n = "AE"
  \/ s \in AfterValue /\ c = "COMMA" /\ n = "SP"
  \/ s \in Between \cup AfterValue /\ c = "SLASH" /\ n = "CB"
  \/ s \in Between \cup AfterValue /\ c = "HASH" /\ n = "YB"
  \/ s = "GO" /\ c = "LCURB" /\ n = "OB"
  \/ s = "GO" /\ c = "LSQRB" /\ n = "AB"
  \/ s \in {"_O", "_K"} /\ c = "QUOTE" /\ n = "_S"
  \/ s = "CO" /\ c = "COLON" /\ n = "KS"
WithinString(s, c, n) ==
  \/ s = "_S" /\ n \in {"_S", "SE", "E0"}
  \/ s = "E0" /\ n \in {"_S", "U1"}
  \/ s = "U1" /\ n = "U2"
  \/ s = "U2" /\ n = "U3"
  \/ s = "U3" /\ n = "U4"
  \/ s = "U4" /\ n = "UC"
  \/ s = "D1" /\ n = "D2"
  \/ s = "D2" /\ n = "U1"
WithinNumber(s, c, n) ==
  /\ c \notin Blank
  /\ \/ s = "M0" /\ n \in {"Z0", "I0"}
     \/ s = "I0" /\ n = "I0"
     \/ s \in {"Z0", "I0"} /\ n = "DF"
     \/ s = "I0" /\ n = "DE"
     \/ s \in {"R1", "R2"} /\ n = "R2"
     \/ s = "R2" /\ n = "X1"
     \/ s = "X1" /\ n = "X2"
     \/ s \in {"X1", "X2", "X3"} /\ n = "X3"
WithinLiteral(s, c, n) ==
  \/ s = "T1" /\ n = "T2"
  \/ s = "T2" /\ n = "T3"
  \/ s = "T3" /\ n = "TR"
  \/ s = "F1" /\ n = "F2"
  \/ s = "F2" /\ n = "F3"
  \/ s = "F3" /\ n = "F4"
  \/ s = "F4" /\ n = "FA"
  \/ s = "N1" /\ n = "N2"
  \/ s = "N2" /\ n = "N3"
  \/ s = "N3" /\ n = "NU"
WithinComment(s, c, n) ==
  \/ s = "C1" /\ n = "C2"
  \/ s = "C2" /\ n \in {"C2", "C3"}
  \/ s = "C3" /\ n \in {"C2", "C3", "CE"}
  \/ s = "Y1" /\ n \in {"Y1", "CE"}
Follows(s, c, n) ==
  BetweenTokens(s, c, n) \/ WithinString(s, c, n) \/ WithinNumber(s, c, n)
  \/ WithinLiteral(s, c, n) \/ WithinComment(s, c, n)

LEMMA RulesAre ==
  ASSUME NEW s \in States, NEW c \in Classes, NEW r \in Rules, s \in r[1], c \in r[2]
  PROVE  Follows(s, c, r[3])
<1>1. CASE \E q \in Between : r = <<{q}, Blank, q>>
  <2>1. PICK q \in Between : r = <<{q}, Blank, q>>
    BY <1>1
  <2>2. s = q /\ c \in Blank /\ r[3] = q
    BY <2>1
  <2> QED
    BY <2>1, <2>2 DEF Follows, BetweenTokens
<1>2. CASE \E q \in StartsValue : r = <<{"_V", "_A"}, {q[1]}, q[2]>>
  <2>1. PICK q \in StartsValue : r = <<{"_V", "_A"}, {q[1]}, q[2]>>
    BY <1>2
  <2>2. PICK a, b : q = <<a, b>>
    BY <2>1 DEF StartsValue
  <2>3. s \in {"_V", "_A"} /\ c = a /\ r[3] = b
    BY <2>1, <2>2
  <2>4. <<c, r[3]>> \in StartsValue
    BY <2>1, <2>2, <2>3
  <2> QED
    BY <2>3, <2>4 DEF Follows, BetweenTokens
<1>3. CASE r \in {<<AfterValue, Blank, "OK">>, <<AfterValue, {"RCURB"}, "OE">>,
        <<AfterValue, {"RSQRB"}, "AE">>, <<AfterValue, {"COMMA"}, "SP">>,
        <<(Between \cup AfterValue) \ {"X3"}, {"SLASH"}, "CB">>,
        <<(Between \cup AfterValue) \ {"X3"}, {"HASH"}, "YB">>,
        <<{"GO"}, {"LCURB"}, "OB">>, <<{"GO"}, {"LSQRB"}, "AB">>,
        <<{"_O"}, {"RCURB"}, "OE">>, <<{"_A"}, {"RSQRB"}, "AE">>,
        <<{"_O", "_K"}, {"QUOTE"}, "_S">>, <<{"CO"}, {"COLON"}, "KS">>}
  <2>1. BetweenTokens(s, c, r[3])
    <3>1. CASE r = <<AfterValue, Blank, "OK">>
      BY <3>1 DEF BetweenTokens
    <3>2. CASE r \in {<<AfterValue, {"RCURB"}, "OE">>, <<AfterValue, {"RSQRB"}, "AE">>, <<AfterValue, {"COMMA"}, "SP">>}
      BY <3>2 DEF BetweenTokens
    <3>3. CASE r \in {<<(Between \cup AfterValue) \ {"X3"}, {"SLASH"}, "CB">>,
                      <<(Between \cup AfterValue) \ {"X3"}, {"HASH"}, "YB">>}
      BY <3>3 DEF BetweenTokens
    <3>4. CASE r \in {<<{"GO"}, {"LCURB"}, "OB">>, <<{"GO"}, {"LSQRB"}, "AB">>,
                      <<{"_O"}, {"RCURB"}, "OE">>, <<{"_A"}, {"RSQRB"}, "AE">>,
                      <<{"_O", "_K"}, {"QUOTE"}, "_S">>, <<{"CO"}, {"COLON"}, "KS">>}
      BY <3>4 DEF BetweenTokens
    <3> QED
      BY <1>3, <3>1, <3>2, <3>3, <3>4
  <2> QED
    BY <2>1 DEF Follows
<1>4. CASE r \in {<<{"_S"}, Classes \ {"NL", "WHITE", "QUOTE", "BACKS"}, "_S">>,
        <<{"_S"}, {"QUOTE"}, "SE">>, <<{"_S"}, {"BACKS"}, "E0">>,
        <<{"E0"}, {"QUOTE", "BACKS", "SLASH", "b", "f", "n", "r", "t"}, "_S">>,
        <<{"E0"}, {"u"}, "U1">>, <<{"U1"}, Hex, "U2">>, <<{"U2"}, Hex, "U3">>,
        <<{"U3"}, Hex, "U4">>, <<{"U4"}, Hex, "UC">>,
        <<{"D1"}, {"BACKS"}, "D2">>, <<{"D2"}, {"u"}, "U1">>}
  BY <1>4 DEF Follows, WithinString
<1>5. CASE r \in {<<{"M0"}, {"ZERO"}, "Z0">>, <<{"M0"}, {"DIGIT"}, "I0">>, <<{"I0"}, Digit, "I0">>,
        <<{"Z0", "I0"}, {"DOT"}, "DF">>, <<{"I0"}, {"e", "E"}, "DE">>,
        <<{"R1", "R2"}, Digit, "R2">>, <<{"R2"}, {"e", "E"}, "X1">>,
        <<{"X1"}, {"PLUS", "MINUS"}, "X2">>, <<{"X1", "X2", "X3"}, Digit, "X3">>}
  <2>1. c \notin Blank
    BY <1>5 DEF Digit, Blank
  <2> QED
    BY <1>5, <2>1 DEF Follows, WithinNumber
<1>6. CASE r \in {<<{"T1"}, {"r"}, "T2">>, <<{"T2"}, {"u"}, "T3">>, <<{"T3"}, {"e"}, "TR">>,
        <<{"F1"}, {"a"}, "F2">>, <<{"F2"}, {"l"}, "F3">>, <<{"F3"}, {"s"}, "F4">>,
        <<{"F4"}, {"e"}, "FA">>,
        <<{"N1"}, {"u"}, "N2">>, <<{"N2"}, {"l"}, "N3">>, <<{"N3"}, {"l"}, "NU">>}
  BY <1>6 DEF Follows, WithinLiteral
<1>7. CASE r \in {<<{"C1"}, {"STAR"}, "C2">>, <<{"C2"}, Classes \ {"STAR"}, "C2">>,
        <<{"C2", "C3"}, {"STAR"}, "C3">>, <<{"C3"}, Classes \ {"STAR", "SLASH"}, "C2">>,
        <<{"C3"}, {"SLASH"}, "CE">>,
        <<{"Y1"}, Classes \ {"NL"}, "Y1">>, <<{"Y1"}, {"NL"}, "CE">>}
  BY <1>7 DEF Follows, WithinComment
<1> QED
  BY <1>1, <1>2, <1>3, <1>4, <1>5, <1>6, <1>7 DEF Rules

LEMMA TableIs ==
  ASSUME NEW s \in States, NEW c \in Classes
  PROVE  \/ state_transition_table[s][c] = Error
         \/ Follows(s, c, state_transition_table[s][c])
<1> DEFINE applies == {r \in Rules : s \in r[1] /\ c \in r[2]}
<1>1. state_transition_table[s][c] = IF applies = {} THEN Error ELSE (CHOOSE r \in applies : TRUE)[3]
  BY DEF state_transition_table
<1>2. CASE applies # {}
  <2>1. PICK r \in applies : r = CHOOSE x \in applies : TRUE
    BY <1>2
  <2> QED
    BY <1>1, <1>2, <2>1, RulesAre
<1> QED
  BY <1>1, <1>2

(* A blank is a blank.                                                     *)
LEMMA SpaceIs ==
  ASSUME NEW s \in Between \cup AfterValue
  PROVE  state_transition_table[s]["SPACE"] = ResumedAt(s)
<1>1. s \in States /\ "SPACE" \in Classes /\ "SPACE" \in Blank
  BY DEF States, Classes, Blank
<1>2. state_transition_table[s]["SPACE"] # Error
  <2> DEFINE applies == {r \in Rules : s \in r[1] /\ "SPACE" \in r[2]}
  <2>1. \E r \in applies : TRUE
    <3>1. CASE s \in Between
      <4>1. <<{s}, Blank, s>> \in Rules
        BY <3>1 DEF Rules
      <4> QED
        BY <1>1, <4>1
    <3>2. CASE s \in AfterValue
      <4>1. <<AfterValue, Blank, "OK">> \in Rules
        BY DEF Rules
      <4> QED
        BY <1>1, <3>2, <4>1
    <3> QED
      BY <3>1, <3>2
  <2>2. state_transition_table[s]["SPACE"] = (CHOOSE r \in applies : TRUE)[3]
    BY <1>1, <2>1 DEF state_transition_table
  <2>3. PICK r \in applies : r = CHOOSE x \in applies : TRUE
    BY <2>1
  <2>4. Follows(s, "SPACE", r[3])
    BY <1>1, <2>3, RulesAre
  <2> HIDE DEF applies
  <2>5. r[3] # Error
    BY <2>4 DEF Follows, BetweenTokens, WithinString, WithinNumber, WithinLiteral, WithinComment,
                Error, Between, StartsValue
  <2> QED
    BY <2>2, <2>3, <2>5
<1>3. Follows(s, "SPACE", state_transition_table[s]["SPACE"])
  BY <1>1, <1>2, TableIs
<1>4. BetweenTokens(s, "SPACE", state_transition_table[s]["SPACE"])
  BY <1>1, <1>3 DEF Follows, WithinString, WithinNumber, WithinLiteral, WithinComment, Between, AfterValue, Unicode
<1> QED
  BY <1>4 DEF BetweenTokens, StartsValue, ResumedAt, Between, AfterValue

-----------------------------------------------------------------------------
(* The invariant                                                           *)

Number  == {"M0", "Z0", "I0", "R1", "R2", "X1", "X2", "X3"}
Literal == {"T1", "T2", "T3", "F1", "F2", "F3", "F4", "N1", "N2", "N3"}
InString == {"_S", "E0", "D1", "D2"} \cup Unicode

(* Where the parser is, or will be when a comment is over.                 *)
Place == IF state \in CommentStates THEN ResumedAt(save_state) ELSE state

Frame == [object : BOOLEAN, key : {"none", "set", "freed"}, empty : BOOLEAN]
Dom == [stack : Seq(Frame), stack_size : Nat, room : Nat,
        root : BOOLEAN, misplaced : BOOLEAN, lost : BOOLEAN]
Printer == [first : BOOLEAN, enter_object : BOOLEAN, afterkey : BOOLEAN, indentlevel : Int]

DataTyped ==
  /\ config \in Configs
  /\ state \in States /\ save_state \in Between \cup AfterValue
  /\ expecting_key \in BOOLEAN /\ unicode_multi \in BOOLEAN
  /\ type \in {"int", "float", "null", "true", "false", "none"}
  /\ stack \in Seq({"object", "array"}) /\ stack_size \in Nat \ {0} /\ Len(stack) <= stack_size
  /\ dom \in Dom /\ printer \in Printer

BufferRight ==
  /\ buffer \in [offset : Nat, size : Nat] /\ buffer.offset < buffer.size
  /\ config.max_data > 0 => buffer.size <= config.max_data
DataKept ==
  /\ state = "U2" => buffer.offset >= 1
  /\ state = "U3" => buffer.offset >= 2
  /\ state = "U4" => buffer.offset >= 3
  /\ state \in Between \cup CommentStates \cup Literal => buffer.offset = 0
  /\ state = "OK" /\ type = "none" => buffer.offset = 0

TypeKnown ==
  /\ Place \in Number => type \in {"int", "float"}
  /\ type # "none" => Place \in Number \cup {"OK"}
  /\ state \in CommentStates => type = "none"

(* The structures of a tree d, the printer p of the same text.             *)
FramesRight(d) ==
  \A i \in 1 .. Len(d.stack) :
    IF d.stack[i].object THEN i < Len(d.stack) => d.stack[i].key = "set" ELSE d.stack[i].key = "none"
InStep(d, p) ==
  d.stack # <<>> =>
    /\ p.afterkey <=> d.stack[Len(d.stack)].key = "set"
    /\ p.enter_object <=> d.stack[Len(d.stack)].empty /\ d.stack[Len(d.stack)].key # "set"
    /\ p.indentlevel = Len(d.stack)

SameStack ==
  /\ Len(stack) = Len(dom.stack)
  /\ \A i \in 1 .. Len(stack) : stack[i] = ModeOf(dom.stack[i])
  /\ printer.indentlevel = Len(stack)

InTop(object) == Len(stack) > 0 /\ dom.stack[Len(stack)].object = object
KeyWanted ==
  \/ Place \in {"_O", "_K"}
  \/ Place \in InString /\ expecting_key
  \/ Place = "OK" /\ type = "none"
PlaceRight ==
  /\ Len(stack) = 0 => /\ Place \in {"GO", "OK"} /\ type = "none"
                       /\ dom.root = (Place # "GO")
  /\ Len(stack) > 0 => Place # "GO"
  /\ Place \in {"_O", "_K", "CO"} => InTop(TRUE)
  /\ Place = "_A" => InTop(FALSE)
  /\ Place \in {"_O", "_K"} => expecting_key
  /\ expecting_key => InTop(TRUE) /\ Place \in {"_O", "_K"} \cup InString
  /\ InTop(TRUE) => (dom.stack[Len(stack)].key = "set" <=> ~KeyWanted)

Reading == ret = "ok" =>
  DataKept /\ TypeKnown /\ FramesRight(dom) /\ SameStack /\ PlaceRight
JsonInv ==
  /\ DataTyped /\ BufferRight
  /\ InStep(dom, printer) /\ ~dom.misplaced
  /\ ret = "done" /\ state \notin CommentStates => dom.root /\ dom.stack = <<>>
  /\ Reading

-----------------------------------------------------------------------------
(* What a callback does to the tree and to the printer                     *)

LEMMA FrontLast ==
  ASSUME NEW S, NEW s \in Seq(S), Len(s) > 0
  PROVE  /\ Last(s) = s[Len(s)] /\ Last(s) \in S
         /\ Front(s) \in Seq(S) /\ Len(Front(s)) = Len(s) - 1
         /\ \A i \in 1 .. Len(s) - 1 : Front(s)[i] = s[i]
<1> DEFINE n == Len(s) - 1
<1>1. n \in Nat /\ \A i \in 1 .. n : s[i] \in S
  OBVIOUS
<1>2. /\ SubSeq(s, 1, n) \in Seq(S)
      /\ Len(SubSeq(s, 1, n)) = n
      /\ \A i \in 1 .. n : SubSeq(s, 1, n)[i] = s[i]
  <2>1. /\ SubSeq(s, 1, n) \in Seq(S)
        /\ Len(SubSeq(s, 1, n)) = IF 1 <= n THEN n - 1 + 1 ELSE 0
        /\ \A i \in 1 .. n - 1 + 1 : SubSeq(s, 1, n)[i] = s[1 + i - 1]
    <3> HIDE DEF n
    <3> QED
      BY <1>1, SubSeqProperties
  <2>2. Len(SubSeq(s, 1, n)) = n
    <3> HIDE DEF n
    <3>1. n = 0 \/ 1 <= n
      BY <1>1
    <3>2. n - 1 + 1 = n
      BY <1>1
    <3> QED
      BY <2>1, <3>1, <3>2
  <2>3. \A i \in 1 .. n : i \in 1 .. n - 1 + 1 /\ 1 + i - 1 = i
    BY <1>1
  <2> HIDE DEF n
  <2> QED
    BY <2>1, <2>2, <2>3
<1> QED
  BY <1>1, <1>2 DEF Last, Front

LEMMA Replaced ==
  ASSUME NEW S, NEW s \in Seq(S), Len(s) > 0, NEW x \in S
  PROVE  /\ Append(Front(s), x) \in Seq(S) /\ Len(Append(Front(s), x)) = Len(s)
         /\ Append(Front(s), x)[Len(s)] = x
         /\ \A i \in 1 .. Len(s) - 1 : Append(Front(s), x)[i] = s[i]
<1> DEFINE f == Front(s)
<1>1. f \in Seq(S) /\ Len(f) = Len(s) - 1 /\ \A i \in 1 .. Len(s) - 1 : f[i] = s[i]
  BY FrontLast
<1> HIDE DEF f
<1>2. /\ Append(f, x) \in Seq(S) /\ Len(Append(f, x)) = Len(s)
      /\ Append(f, x)[Len(s)] = x
      /\ \A i \in 1 .. Len(s) - 1 : Append(f, x)[i] = s[i]
  BY <1>1
<1> QED
  BY <1>2 DEF f

Top(d) == d.stack[Len(d.stack)]

(* From d to e no more than the structure on top changes.                  *)
TopChanged(d, e) ==
  /\ e \in Dom /\ Len(e.stack) = Len(d.stack)
  /\ \A i \in 1 .. Len(d.stack) - 1 : e.stack[i] = d.stack[i]
  /\ e.root = d.root

(* It has got a value.                                                     *)
Belongs(frame) == frame.key = (IF frame.object THEN "set" ELSE "none")
Fed(before, after) ==
  after.object = before.object /\ after.key = FreedKey(before.key) /\ ~after.empty

LEMMA DomHas ==
  ASSUME NEW d \in Dom
  PROVE  /\ d.stack \in Seq(Frame) /\ d.stack_size \in Nat /\ d.room \in Nat
         /\ d.root \in BOOLEAN /\ d.misplaced \in BOOLEAN /\ d.lost \in BOOLEAN
         /\ Len(d.stack) \in Nat /\ \A i \in 1 .. Len(d.stack) : d.stack[i] \in Frame
         /\ d.stack = <<>> <=> Len(d.stack) = 0
<1>1. d.stack \in Seq(Frame)
  BY DEF Dom
<1> QED
  BY <1>1 DEF Dom

LEMMA TopIs ==
  ASSUME NEW d \in Dom, Len(d.stack) > 0
  PROVE  Last(d.stack) = Top(d) /\ Top(d) \in Frame
  BY DomHas, FrontLast DEF Top

LEMMA OnTopIs ==
  ASSUME NEW d \in Dom, Len(d.stack) > 0, NEW frame \in Frame
  PROVE  /\ TopChanged(d, OnTop(d, frame)) /\ Top(OnTop(d, frame)) = frame
         /\ OnTop(d, frame).misplaced = d.misplaced
<1> DEFINE s == Append(Front(d.stack), frame)
<1>1. d.stack \in Seq(Frame)
  BY DomHas
<1>2. /\ s \in Seq(Frame) /\ Len(s) = Len(d.stack)
      /\ s[Len(d.stack)] = frame
      /\ \A i \in 1 .. Len(d.stack) - 1 : s[i] = d.stack[i]
  BY <1>1, Replaced
<1> HIDE DEF s
<1>3. OnTop(d, frame) = [d EXCEPT !.stack = s]
  BY DEF OnTop, s
<1> QED
  BY <1>2, <1>3 DEF TopChanged, Top, Dom

LEMMA KeyToldIs ==
  ASSUME NEW d \in Dom, Len(d.stack) > 0
  PROVE  LET e == json_parser_dom_callback(d, "key") IN
         /\ TopChanged(d, e) /\ e.misplaced = d.misplaced
         /\ Top(e) = [Top(d) EXCEPT !.key = "set"]
<1>1. [Top(d) EXCEPT !.key = "set"] \in Frame
  BY TopIs DEF Frame
<1>2. json_parser_dom_callback(d, "key") = OnTop(d, [Top(d) EXCEPT !.key = "set"])
  BY DomHas, TopIs DEF json_parser_dom_callback, Open, Close
<1> QED
  BY <1>1, <1>2, OnTopIs

LEMMA AppendedIs ==
  ASSUME NEW d \in Dom, Len(d.stack) > 0
  PROVE  /\ TopChanged(d, DomAppended(d)) /\ Fed(Top(d), Top(DomAppended(d)))
         /\ Belongs(Top(d)) => DomAppended(d).misplaced = d.misplaced
<1> DEFINE frame == [Top(d) EXCEPT !.empty = FALSE]
           under == OnTop(d, frame)
           e == tree_append(d, Top(d))
           taken == [frame EXCEPT !.key = FreedKey(frame.key)]
<1>1. Top(d) \in Frame /\ frame \in Frame /\ taken \in Frame /\ Fed(Top(d), taken)
  <2>1. Top(d) \in Frame
    BY TopIs
  <2>2. frame \in Frame /\ frame.object = Top(d).object /\ frame.key = Top(d).key /\ ~frame.empty
    BY <2>1 DEF Frame
  <2> HIDE DEF frame
  <2>3. taken \in Frame /\ taken.object = frame.object /\ taken.key = FreedKey(frame.key) /\ ~taken.empty
    BY <2>2 DEF Frame, FreedKey
  <2> QED
    BY <2>1, <2>2, <2>3 DEF Fed
<1>2. TopChanged(d, under) /\ Top(under) = frame /\ under.misplaced = d.misplaced
  BY <1>1, OnTopIs
<1>3. e = [under EXCEPT !.misplaced = d.misplaced \/ Top(d).key # (IF Top(d).object THEN "set" ELSE "none")]
  BY DEF tree_append
<1> HIDE DEF under, frame
<1>4. /\ TopChanged(d, e) /\ Top(e) = frame
      /\ Belongs(Top(d)) => e.misplaced = d.misplaced
  <2>1. d.misplaced \in BOOLEAN
    BY DomHas
  <2> HIDE DEF e
  <2>2. e \in Dom /\ e.stack = under.stack /\ e.root = under.root
    BY <1>2, <1>3, <2>1 DEF TopChanged, Dom
  <2>3. Belongs(Top(d)) => e.misplaced = d.misplaced
    BY <1>2, <1>3, <2>1 DEF Belongs, TopChanged, Dom
  <2> QED
    BY <1>2, <2>2, <2>3 DEF TopChanged, Top
<1>5. Len(e.stack) > 0 /\ e \in Dom /\ Last(e.stack) = frame
  BY <1>4, TopIs DEF TopChanged
<1>6. DomAppended(d) = OnTop(e, taken)
  BY <1>5, TopIs DEF DomAppended
<1> HIDE DEF e, taken
<1>7. /\ TopChanged(e, OnTop(e, taken)) /\ Top(OnTop(e, taken)) = taken
      /\ OnTop(e, taken).misplaced = e.misplaced
  BY <1>1, <1>5, OnTopIs
<1> QED
  BY <1>1, <1>4, <1>6, <1>7 DEF TopChanged

LEMMA ValueToldIs ==
  ASSUME NEW d \in Dom, Len(d.stack) > 0, NEW t \in ValueTypes
  PROVE  json_parser_dom_callback(d, t) = DomAppended(d)
  BY DomHas DEF json_parser_dom_callback, Open, Close, ValueTypes

LEMMA OpenToldIs ==
  ASSUME NEW d \in Dom, NEW c \in Open
  PROVE  LET e == json_parser_dom_callback(d, c) IN
         /\ e \in Dom /\ Len(e.stack) = Len(d.stack) + 1
         /\ Top(e) = tree_create_structure(c = "LCURB")
         /\ \A i \in 1 .. Len(d.stack) : e.stack[i] = d.stack[i]
         /\ e.root = d.root /\ e.misplaced = d.misplaced
<1> DEFINE frame == tree_create_structure(c = "LCURB")
           s == Append(d.stack, frame)
           grows == Len(d.stack) = d.stack_size
           size == IF grows THEN d.stack_size * 2 ELSE d.stack_size
           room == IF grows THEN size \div ElemSize ELSE d.room
           full == Len(d.stack) >= room
<1>1. frame \in Frame
  BY DEF tree_create_structure, Frame
<1>2. size \in Nat /\ room \in Nat /\ full \in BOOLEAN
  BY DomHas DEF ElemSize
<1>3. json_parser_dom_callback(d, c) =
        [d EXCEPT !.stack = s, !.stack_size = size, !.room = room, !.lost = full]
  BY DEF json_parser_dom_callback, dom_push
<1> HIDE DEF frame, size, room, full
<1>4. /\ s \in Seq(Frame) /\ Len(s) = Len(d.stack) + 1
      /\ s[Len(d.stack) + 1] = frame
      /\ \A i \in 1 .. Len(d.stack) : s[i] = d.stack[i]
  BY <1>1, DomHas
<1> HIDE DEF s
<1> QED
  BY <1>2, <1>3, <1>4 DEF Dom, Top, frame

Popped(d) == [d EXCEPT !.stack = Front(d.stack)]
LEMMA PoppedIs ==
  ASSUME NEW d \in Dom, Len(d.stack) > 0, NEW c \in Close
  PROVE  /\ Popped(d) \in Dom /\ Len(Popped(d).stack) = Len(d.stack) - 1
         /\ \A i \in 1 .. Len(d.stack) - 1 : Popped(d).stack[i] = d.stack[i]
         /\ Popped(d).root = d.root /\ Popped(d).misplaced = d.misplaced
         /\ json_parser_dom_callback(d, c) =
              IF Popped(d).stack = <<>> THEN [Popped(d) EXCEPT !.root = TRUE] ELSE DomAppended(Popped(d))
<1>1. /\ Front(d.stack) \in Seq(Frame) /\ Len(Front(d.stack)) = Len(d.stack) - 1
      /\ \A i \in 1 .. Len(d.stack) - 1 : Front(d.stack)[i] = d.stack[i]
  BY DomHas, FrontLast
<1>2. /\ Popped(d) \in Dom /\ Popped(d).stack = Front(d.stack)
      /\ Popped(d).root = d.root /\ Popped(d).misplaced = d.misplaced
  BY <1>1 DEF Dom, Popped
<1>3. json_parser_dom_callback(d, c) =
        IF Popped(d).stack = <<>> THEN [Popped(d) EXCEPT !.root = TRUE] ELSE DomAppended(Popped(d))
  BY DomHas DEF json_parser_dom_callback, Open, Close, Popped
<1> QED
  BY <1>1, <1>2, <1>3

LEMMA LastCloseIs ==
  ASSUME NEW d \in Dom, Len(d.stack) = 1, NEW c \in Close
  PROVE  LET e == json_parser_dom_callback(d, c) IN
         e \in Dom /\ e.stack = <<>> /\ e.root /\ e.misplaced = d.misplaced
<1> DEFINE p == Popped(d)
<1>0. Len(d.stack) > 0 /\ Len(d.stack) - 1 = 0
  OBVIOUS
<1>1. /\ p \in Dom /\ Len(p.stack) = 0 /\ p.misplaced = d.misplaced
      /\ json_parser_dom_callback(d, c) = IF p.stack = <<>> THEN [p EXCEPT !.root = TRUE] ELSE DomAppended(p)
  BY ONLY <1>0, PoppedIs, d \in Dom, c \in Close
<1> HIDE DEF p
<1>2. json_parser_dom_callback(d, c) = [p EXCEPT !.root = TRUE] /\ p.stack = <<>>
  BY <1>1, DomHas
<1> QED
  BY <1>1, <1>2 DEF Dom

LEMMA CloseToldIs ==
  ASSUME NEW d \in Dom, Len(d.stack) > 1, NEW c \in Close
  PROVE  LET e == json_parser_dom_callback(d, c)  n == Len(d.stack) - 1 IN
         /\ e \in Dom /\ Len(e.stack) = n /\ e.root = d.root
         /\ \A i \in 1 .. n - 1 : e.stack[i] = d.stack[i]
         /\ Fed(d.stack[n], e.stack[n])
         /\ Belongs(d.stack[n]) => e.misplaced = d.misplaced
<1> DEFINE n == Len(d.stack) - 1
           p == Popped(d)
           e == DomAppended(p)
<1>1. /\ n \in Nat /\ n > 0 /\ Len(p.stack) = n /\ p \in Dom
      /\ \A i \in 1 .. n : p.stack[i] = d.stack[i]
      /\ p.root = d.root /\ p.misplaced = d.misplaced
      /\ json_parser_dom_callback(d, c) = IF p.stack = <<>> THEN [p EXCEPT !.root = TRUE] ELSE e
  BY PoppedIs, DomHas
<1> HIDE DEF p, n
<1>2. json_parser_dom_callback(d, c) = e
  BY <1>1, DomHas
<1>3. TopChanged(p, e) /\ Fed(Top(p), Top(e)) /\ (Belongs(Top(p)) => e.misplaced = p.misplaced)
  BY <1>1, AppendedIs
<1> HIDE DEF e
<1>4. Top(p) = d.stack[n] /\ Top(e) = e.stack[n]
  BY <1>1, <1>3 DEF Top, TopChanged
<1>5. /\ e \in Dom /\ Len(e.stack) = n /\ e.root = d.root
      /\ \A i \in 1 .. n - 1 : e.stack[i] = d.stack[i]
  BY <1>1, <1>3 DEF TopChanged
<1>6. Fed(d.stack[n], e.stack[n]) /\ (Belongs(d.stack[n]) => e.misplaced = d.misplaced)
  BY <1>1, <1>3, <1>4
<1> QED
  BY <1>2, <1>5, <1>6 DEF n

LEMMA NoneToldIs ==
  ASSUME NEW d \in Dom, Len(d.stack) = 0, NEW t, t \notin Open
  PROVE  json_parser_dom_callback(d, t) = [d EXCEPT !.lost = TRUE]
  BY DomHas DEF json_parser_dom_callback

-----------------------------------------------------------------------------
(* A value, a key, a structure that opens, one that closes, handed on      *)

Handed(d, e, q) ==
  /\ e \in Dom /\ q \in Printer /\ Len(e.stack) = Len(d.stack)
  /\ \A i \in 1 .. Len(d.stack) : e.stack[i].object = d.stack[i].object
  /\ FramesRight(e) /\ InStep(e, q) /\ ~e.misplaced
  /\ e.root = d.root /\ q.indentlevel = Len(e.stack)

LEMMA PrintedIs ==
  ASSUME NEW p \in Printer, NEW t
  PROVE  LET q == json_print_mode(p, t) IN
         /\ q \in Printer
         /\ q.enter_object <=> t \in Open
         /\ q.afterkey <=> t = "key"
         /\ t \in Open => q.indentlevel = p.indentlevel + 1
         /\ t \in Close => q.indentlevel = p.indentlevel - 1
         /\ t \notin Open \cup Close => q.indentlevel = p.indentlevel
<1>1. p.indentlevel \in Int
  BY DEF Printer
<1>2. Open \cap Close = {}
  BY DEF Open, Close
<1> DEFINE enters == t \in Open
           key == t = "key"
           level == p.indentlevel + (IF t \in Open THEN 1 ELSE 0) - (IF t \in Close THEN 1 ELSE 0)
<1>3. json_print_mode(p, t) = [first |-> FALSE, enter_object |-> enters, afterkey |-> key, indentlevel |-> level]
  BY DEF json_print_mode
<1>4. /\ level \in Int /\ enters \in BOOLEAN /\ key \in BOOLEAN
      /\ t \in Open => level = p.indentlevel + 1
      /\ t \in Close => level = p.indentlevel - 1
      /\ t \notin Open \cup Close => level = p.indentlevel
  BY <1>1, <1>2
<1>5. (enters <=> t \in Open) /\ (key <=> t = "key")
  OBVIOUS
<1> HIDE DEF level, enters, key
<1> QED
  BY <1>3, <1>4, <1>5 DEF Printer

LEMMA TopChangedFrames ==
  ASSUME NEW d \in Dom, Len(d.stack) > 0, FramesRight(d), NEW e, TopChanged(d, e),
         Top(e).object = Top(d).object, ~Top(d).object => Top(e).key = Top(d).key
  PROVE  /\ \A i \in 1 .. Len(d.stack) : e.stack[i].object = d.stack[i].object
         /\ FramesRight(e)
<1> DEFINE n == Len(d.stack)
<1>1. n \in Nat /\ n > 0 /\ Len(e.stack) = n /\ \A i \in 1 .. n - 1 : e.stack[i] = d.stack[i]
  BY DomHas DEF TopChanged
<1>2. e.stack[n].object = d.stack[n].object /\ (~d.stack[n].object => e.stack[n].key = d.stack[n].key)
  BY <1>1 DEF Top
<1>3. \A i \in 1 .. n : IF d.stack[i].object THEN i < n => d.stack[i].key = "set" ELSE d.stack[i].key = "none"
  BY DEF FramesRight
<1> HIDE DEF n
<1>4. \A i \in 1 .. n : i = n \/ (i \in 1 .. n - 1 /\ i < n)
  BY <1>1
<1>5. \A i \in 1 .. n : e.stack[i].object = d.stack[i].object
  BY <1>1, <1>2, <1>4
<1>6. \A i \in 1 .. n : IF e.stack[i].object THEN i < n => e.stack[i].key = "set" ELSE e.stack[i].key = "none"
  BY <1>1, <1>2, <1>3, <1>4
<1> QED
  BY <1>1, <1>5, <1>6 DEF FramesRight, n

LEMMA ValueHanded ==
  ASSUME NEW d \in Dom, NEW p \in Printer, NEW t \in ValueTypes, Len(d.stack) > 0,
         FramesRight(d), ~d.misplaced, Belongs(Top(d)), p.indentlevel = Len(d.stack)
  PROVE  LET e == json_parser_dom_callback(d, t)  q == json_print_mode(p, t) IN
         Handed(d, e, q) /\ Top(e).key # "set"
<1> DEFINE e == json_parser_dom_callback(d, t)
           q == json_print_mode(p, t)
<1>1. /\ TopChanged(d, e) /\ Fed(Top(d), Top(e)) /\ (Belongs(Top(d)) => e.misplaced = d.misplaced)
  BY ValueToldIs, AppendedIs
<1>2. /\ q \in Printer /\ ~q.enter_object /\ ~q.afterkey /\ q.indentlevel = p.indentlevel
  <2>1. t \notin Open /\ t \notin Close /\ t # "key"
    BY DEF ValueTypes, Open, Close
  <2> QED
    BY <2>1, PrintedIs
<1> HIDE DEF e, q
<1>3. Top(d) \in Frame
  BY TopIs
<1>4. /\ Top(e).object = Top(d).object /\ ~Top(e).empty /\ Top(e).key # "set"
      /\ ~Top(d).object => Top(e).key = Top(d).key
  BY <1>1, <1>3 DEF Fed, FreedKey, Belongs, Frame
<1>5. /\ \A i \in 1 .. Len(d.stack) : e.stack[i].object = d.stack[i].object
      /\ FramesRight(e)
  BY <1>1, <1>4, TopChangedFrames
<1>6. InStep(e, q)
  BY <1>1, <1>2, <1>4 DEF InStep, Top, TopChanged
<1>7. e \in Dom /\ Len(e.stack) = Len(d.stack) /\ e.root = d.root
  BY <1>1 DEF TopChanged
<1>8. ~e.misplaced
  BY <1>1
<1> QED
  BY <1>2, <1>4, <1>5, <1>6, <1>7, <1>8 DEF Handed, e, q

LEMMA KeyHanded ==
  ASSUME NEW d \in Dom, NEW p \in Printer, Len(d.stack) > 0,
         FramesRight(d), ~d.misplaced, Top(d).object, p.indentlevel = Len(d.stack)
  PROVE  LET e == json_parser_dom_callback(d, "key")  q == json_print_mode(p, "key") IN
         Handed(d, e, q) /\ Top(e).key = "set"
<1> DEFINE e == json_parser_dom_callback(d, "key")
           q == json_print_mode(p, "key")
<1>1. TopChanged(d, e) /\ Top(e) = [Top(d) EXCEPT !.key = "set"] /\ e.misplaced = d.misplaced
  BY KeyToldIs
<1>2. /\ q \in Printer /\ ~q.enter_object /\ q.afterkey /\ q.indentlevel = p.indentlevel
  <2>1. "key" \notin Open /\ "key" \notin Close
    BY DEF Open, Close
  <2> QED
    BY <2>1, PrintedIs
<1> HIDE DEF e, q
<1>3. Top(d) \in Frame
  BY TopIs
<1>4. Top(e).object = Top(d).object /\ Top(e).key = "set"
  BY <1>1, <1>3 DEF Frame
<1>5. /\ \A i \in 1 .. Len(d.stack) : e.stack[i].object = d.stack[i].object
      /\ FramesRight(e)
  BY <1>1, <1>4, TopChangedFrames
<1>6. InStep(e, q)
  BY <1>1, <1>2, <1>4 DEF InStep, Top, TopChanged
<1>7. e \in Dom /\ Len(e.stack) = Len(d.stack) /\ e.root = d.root
  BY <1>1 DEF TopChanged
<1>8. ~e.misplaced
  BY <1>1
<1> QED
  BY <1>2, <1>4, <1>5, <1>6, <1>7, <1>8 DEF Handed, e, q

LEMMA OpenHanded ==
  ASSUME NEW d \in Dom, NEW p \in Printer, NEW c \in Open,
         FramesRight(d), ~d.misplaced, p.indentlevel = Len(d.stack),
         Len(d.stack) > 0 => Belongs(Top(d))
  PROVE  LET e == json_parser_dom_callback(d, c)  q == json_print_mode(p, c) IN
         /\ e \in Dom /\ q \in Printer /\ Len(e.stack) = Len(d.stack) + 1
         /\ \A i \in 1 .. Len(d.stack) : e.stack[i].object = d.stack[i].object
         /\ Top(e).object <=> c = "LCURB"
         /\ Top(e).key = "none"
         /\ FramesRight(e) /\ InStep(e, q) /\ ~e.misplaced
         /\ e.root = d.root /\ q.indentlevel = Len(e.stack)
<1> DEFINE e == json_parser_dom_callback(d, c)
           q == json_print_mode(p, c)
           n == Len(d.stack)
<1>1. /\ e \in Dom /\ Len(e.stack) = n + 1
      /\ Top(e) = tree_create_structure(c = "LCURB")
      /\ \A i \in 1 .. n : e.stack[i] = d.stack[i]
      /\ e.root = d.root /\ e.misplaced = d.misplaced
  BY OpenToldIs
<1>2. /\ q \in Printer /\ q.enter_object /\ ~q.afterkey /\ q.indentlevel = p.indentlevel + 1
  <2>1. c # "key"
    BY DEF Open
  <2> QED
    BY <2>1, PrintedIs
<1>3. n \in Nat
  BY DomHas
<1>4. /\ Top(e) = e.stack[n + 1] /\ (Top(e).object <=> c = "LCURB")
      /\ Top(e).key = "none" /\ Top(e).empty
  <2> DEFINE curly == c = "LCURB"
  <2>1. Top(e) = [object |-> curly, key |-> "none", empty |-> TRUE]
    BY <1>1 DEF tree_create_structure
  <2>2. Top(e) = e.stack[n + 1]
    BY <1>1 DEF Top
  <2>3. curly \in BOOLEAN /\ (curly <=> c = "LCURB")
    OBVIOUS
  <2> HIDE DEF curly, e, n
  <2>4. Top(e).object = curly /\ Top(e).key = "none" /\ Top(e).empty = TRUE
    BY <2>1
  <2>5. Top(e).object <=> c = "LCURB"
    BY <2>3, <2>4
  <2> QED
    BY <2>2, <2>4, <2>5
<1>5. \A i \in 1 .. n : IF d.stack[i].object THEN d.stack[i].key = "set" ELSE d.stack[i].key = "none"
  BY DEF FramesRight, Belongs, Top
<1> HIDE DEF e, q
<1>6. FramesRight(e)
  <2>1. \A i \in 1 .. n : e.stack[i] = d.stack[i]
    BY <1>1
  <2> HIDE DEF n
  <2>2. \A i \in 1 .. n + 1 : i = n + 1 \/ i \in 1 .. n
    BY <1>3
  <2> QED
    BY <1>1, <1>3, <1>4, <1>5, <2>1, <2>2 DEF FramesRight
<1>7. InStep(e, q)
  BY <1>1, <1>2, <1>3, <1>4 DEF InStep
<1>8. ~e.misplaced /\ q.indentlevel = Len(e.stack)
  BY <1>1, <1>2
<1> QED
  BY <1>1, <1>2, <1>4, <1>6, <1>7, <1>8 DEF e, q, n

HandedBack(d, e, q, n) ==
  /\ e \in Dom /\ q \in Printer /\ Len(e.stack) = n
  /\ \A i \in 1 .. n : e.stack[i].object = d.stack[i].object
  /\ FramesRight(e) /\ InStep(e, q) /\ ~e.misplaced
  /\ q.indentlevel = n
  /\ n = 0 => e.root
  /\ n > 0 => e.root = d.root /\ e.stack[n].key # "set"

LEMMA CloseHanded ==
  ASSUME NEW d \in Dom, NEW p \in Printer, NEW c \in Close, Len(d.stack) > 0,
         FramesRight(d), ~d.misplaced, p.indentlevel = Len(d.stack)
  PROVE  HandedBack(d, json_parser_dom_callback(d, c), json_print_mode(p, c), Len(d.stack) - 1)
<1> DEFINE e == json_parser_dom_callback(d, c)
           q == json_print_mode(p, c)
           n == Len(d.stack) - 1
<1>1. /\ q \in Printer /\ ~q.enter_object /\ ~q.afterkey /\ q.indentlevel = p.indentlevel - 1
  <2>1. c # "key" /\ c \notin Open
    BY DEF Open, Close
  <2> QED
    BY <2>1, PrintedIs
<1>2. n \in Nat /\ q.indentlevel = n
  BY <1>1, DomHas
<1> SUFFICES HandedBack(d, e, q, n)
  OBVIOUS
<1>3. CASE n = 0
  <2>1. e \in Dom /\ e.stack = <<>> /\ e.root /\ e.misplaced = d.misplaced
    BY <1>3, LastCloseIs, DomHas
  <2> HIDE DEF e
  <2>2. Len(e.stack) = 0
    BY <2>1
  <2>3. FramesRight(e) /\ InStep(e, q)
    BY <2>1, <2>2 DEF FramesRight, InStep
  <2>4. ~e.misplaced
    BY <2>1
  <2> HIDE DEF q, n
  <2>5. \A i \in 1 .. n : e.stack[i].object = d.stack[i].object
    BY <1>2, <1>3
  <2>6. e \in Dom /\ q \in Printer /\ Len(e.stack) = n /\ q.indentlevel = n
    BY <1>1, <1>2, <1>3, <2>1, <2>2
  <2>7. ~(n > 0)
    BY <1>3
  <2> QED
    BY <2>1, <2>3, <2>4, <2>5, <2>6, <2>7 DEF HandedBack
<1>4. CASE n > 0
  <2>1. /\ e \in Dom /\ Len(e.stack) = n /\ e.root = d.root
        /\ \A i \in 1 .. n - 1 : e.stack[i] = d.stack[i]
        /\ Fed(d.stack[n], e.stack[n])
        /\ Belongs(d.stack[n]) => e.misplaced = d.misplaced
    <3>1. Len(d.stack) > 1
      BY <1>4, DomHas
    <3> QED
      BY <3>1, CloseToldIs
  <2>2. \A i \in 1 .. n : IF d.stack[i].object THEN d.stack[i].key = "set" ELSE d.stack[i].key = "none"
    BY DomHas DEF FramesRight
  <2>3. n \in 1 .. Len(d.stack) /\ d.stack[n] \in Frame
    BY <1>2, <1>4, DomHas
  <2> HIDE DEF e, q, n
  <2>4. n \in 1 .. n /\ Belongs(d.stack[n])
    BY <1>2, <1>4, <2>2 DEF Belongs
  <2>5. /\ e.stack[n].object = d.stack[n].object /\ e.stack[n].key # "set" /\ ~e.stack[n].empty
        /\ ~e.stack[n].object => e.stack[n].key = "none"
    BY <2>1, <2>3, <2>4 DEF Fed, FreedKey, Belongs, Frame
  <2>6. \A i \in 1 .. n : i = n \/ (i \in 1 .. n - 1 /\ i < n)
    BY <1>2
  <2>7. FramesRight(e)
    BY <1>2, <2>1, <2>2, <2>5, <2>6 DEF FramesRight
  <2>8. InStep(e, q)
    BY <1>1, <1>2, <2>1, <2>5 DEF InStep
  <2>9. \A i \in 1 .. n : e.stack[i].object = d.stack[i].object
    BY <2>1, <2>5, <2>6
  <2> QED
    BY <1>1, <1>2, <1>4, <2>1, <2>4, <2>5, <2>7, <2>8, <2>9 DEF HandedBack
<1> HIDE DEF n
<1>5. n = 0 \/ n > 0
  BY <1>2
<1> QED
  BY <1>3, <1>4, <1>5

-----------------------------------------------------------------------------
(* What the parser can be at when it takes a step                          *)

LEMMA NextIs ==
  ASSUME state \in States, NEW c \in Classes, NextOf(c) # Error
  PROVE  Follows(state, c, NextOf(c))
  BY TableIs DEF NextOf

LEMMA AtOpen ==
  ASSUME state \in States, NEW c \in Classes, NextOf(c) \in {"OB", "AB"}
  PROVE  c \in Open /\ state \in {"GO", "_V", "_A"}
<1>1. Follows(state, c, NextOf(c))
  BY NextIs DEF Error
<1>2. BetweenTokens(state, c, NextOf(c))
  BY <1>1 DEF Follows, WithinString, WithinNumber, WithinLiteral, WithinComment
<1> QED
  BY <1>2 DEF BetweenTokens, Open, StartsValue, Between

LEMMA AtClose ==
  ASSUME state \in States, NEW c \in Classes, NextOf(c) \in {"OE", "AE"}
  PROVE  c \in Close /\ state \in AfterValue \cup {"_O", "_A"}
<1>1. Follows(state, c, NextOf(c))
  BY NextIs DEF Error
<1>2. BetweenTokens(state, c, NextOf(c))
  BY <1>1 DEF Follows, WithinString, WithinNumber, WithinLiteral, WithinComment
<1> QED
  BY <1>2 DEF BetweenTokens, Close, StartsValue, Between

LEMMA AtComment ==
  ASSUME state \in States, NEW c \in Classes, NextOf(c) \in {"CB", "YB"}
  PROVE  state \in Between \cup AfterValue
<1>1. Follows(state, c, NextOf(c))
  BY NextIs DEF Error
<1>2. BetweenTokens(state, c, NextOf(c))
  BY <1>1 DEF Follows, WithinString, WithinNumber, WithinLiteral, WithinComment
<1> QED
  BY <1>2 DEF BetweenTokens, StartsValue, Between

LEMMA AtComma ==
  ASSUME state \in States, NEW c \in Classes, NextOf(c) = "SP"
  PROVE  state \in AfterValue
<1>1. Follows(state, c, NextOf(c))
  BY NextIs DEF Error
<1>2. BetweenTokens(state, c, NextOf(c))
  BY <1>1 DEF Follows, WithinString, WithinNumber, WithinLiteral, WithinComment
<1> QED
  BY <1>2 DEF BetweenTokens, StartsValue, Between

LEMMA AtQuote ==
  ASSUME state \in States, NEW c \in Classes, NextOf(c) = "SE"
  PROVE  state = "_S"
<1>1. Follows(state, c, NextOf(c))
  BY NextIs DEF Error
<1>2. WithinString(state, c, NextOf(c))
  BY <1>1 DEF Follows, BetweenTokens, StartsValue, Between, WithinNumber, WithinLiteral, WithinComment
<1> QED
  BY <1>2 DEF WithinString

LEMMA AtFourth ==
  ASSUME state \in States, NEW c \in Classes, NextOf(c) = "UC"
  PROVE  state = "U4"
<1>1. Follows(state, c, NextOf(c))
  BY NextIs DEF Error
<1>2. WithinString(state, c, NextOf(c))
  BY <1>1 DEF Follows, BetweenTokens, StartsValue, Between, WithinNumber, WithinLiteral, WithinComment
<1> QED
  BY <1>2 DEF WithinString

LEMMA AtCommentEnd ==
  ASSUME state \in States, NEW c \in Classes, NextOf(c) = "CE"
  PROVE  state \in CommentStates
<1>1. Follows(state, c, NextOf(c))
  BY NextIs DEF Error
<1>2. WithinComment(state, c, NextOf(c))
  BY <1>1 DEF Follows, BetweenTokens, StartsValue, Between, WithinNumber, WithinLiteral, WithinString
<1> QED
  BY <1>2 DEF WithinComment, CommentStates

-----------------------------------------------------------------------------
(* The buffer                                                              *)

LEMMA PushRight ==
  ASSUME config \in Configs, BufferRight, ~AtLimit(buffer)
  PROVE  LET b == buffer_push(buffer) IN
         /\ b \in [offset : Nat, size : Nat] /\ b.offset < b.size
         /\ config.max_data > 0 => b.size <= config.max_data
         /\ b.offset = buffer.offset + 1
<1>1. /\ buffer.offset \in Nat /\ buffer.size \in Nat /\ buffer.offset < buffer.size
      /\ config.max_data \in Nat /\ (config.max_data > 0 => buffer.size <= config.max_data)
  BY SizeAssumption DEF BufferRight
<1> DEFINE size == IF Full(buffer) THEN Grown(buffer) ELSE buffer.size
<1>3. /\ size \in Nat /\ buffer.offset + 1 < size
      /\ config.max_data > 0 => size <= config.max_data
  BY <1>1 DEF Full, Grown, AtLimit
<1>4. buffer_push(buffer) = [offset |-> buffer.offset + 1, size |-> size]
  BY DEF buffer_push
<1> HIDE DEF size
<1> QED
  BY <1>1, <1>3, <1>4

LEMMA BufferedRight ==
  ASSUME config \in Configs, BufferRight, NEW next, CanPush(next)
  PROVE  LET b == Buffered(next) IN
         /\ b \in [offset : Nat, size : Nat] /\ b.offset < b.size
         /\ config.max_data > 0 => b.size <= config.max_data
         /\ buffer.offset \in Nat
         /\ b.offset = IF buffer_policy_table(state, next) THEN buffer.offset + 1 ELSE buffer.offset
<1>1. buffer.offset \in Nat
  BY DEF BufferRight
<1>2. CASE buffer_policy_table(state, next)
  <2>1. Buffered(next) = buffer_push(buffer) /\ ~AtLimit(buffer)
    BY <1>2 DEF Buffered, CanPush
  <2> QED
    BY <1>1, <1>2, <2>1, PushRight
<1>3. CASE ~buffer_policy_table(state, next)
  <2>1. Buffered(next) = buffer
    BY <1>3 DEF Buffered
  <2> QED
    BY <1>1, <1>3, <2>1 DEF BufferRight
<1> QED
  BY <1>2, <1>3

-----------------------------------------------------------------------------
(* The invariant of the start, of an error and of what changes no tree     *)

LEMMA JsonInitInv == JsonInit => JsonInv
<1> SUFFICES ASSUME JsonInit PROVE JsonInv
  OBVIOUS
<1> USE DEF JsonInit
<1>1. dom.stack = <<>> /\ dom.root = FALSE /\ dom.misplaced = FALSE /\ Len(dom.stack) = 0
  BY DEF DomInit
<1>2. dom \in Dom
  <2>1. <<>> \in Seq(Frame)
    OBVIOUS
  <2> QED
    BY <2>1, SizeAssumption DEF DomInit, Dom
<1>3. printer \in Printer /\ printer.indentlevel = 0
  BY DEF PrinterInit, Printer
<1>4. state = "GO" /\ state \notin CommentStates /\ Place = "GO" /\ Place \notin Number \cup InString \cup {"OK"}
  BY DEF CommentStates, Place, Number, InString, Unicode
<1>5. config.max_nesting \in Nat /\ stack_size \in Nat \ {0} /\ Len(stack) = 0
  BY SizeAssumption
<1>6. DataTyped
  <2>1. state \in States /\ save_state \in Between \cup AfterValue
    BY DEF States, Between
  <2>2. stack \in Seq({"object", "array"}) /\ Len(stack) <= stack_size
    BY <1>5
  <2> QED
    BY <1>2, <1>3, <1>5, <2>1, <2>2 DEF DataTyped
<1>7. BufferRight
  <2>1. config.buffer_size \in Nat \ {0} /\ (config.max_data > 0 => config.buffer_size <= config.max_data)
    BY SizeAssumption
  <2> QED
    BY <2>1 DEF BufferRight
<1>8. InStep(dom, printer) /\ FramesRight(dom)
  BY <1>1 DEF InStep, FramesRight
<1>9. DataKept /\ TypeKnown
  BY <1>4 DEF DataKept, TypeKnown
<1>10. SameStack
  BY <1>1, <1>3, <1>5 DEF SameStack
<1>11. PlaceRight
  <2>1. dom.root = (Place # "GO")
    BY <1>1, <1>4
  <2>2. ~InTop(TRUE) /\ ~expecting_key /\ type = "none"
    BY <1>5 DEF InTop
  <2>3. Len(stack) = 0 /\ ~(Len(stack) > 0)
    BY <1>5
  <2> HIDE DEF JsonInit
  <2> QED
    BY <1>4, <2>1, <2>2, <2>3 DEF PlaceRight
<1> QED
  BY <1>1, <1>6, <1>7, <1>8, <1>9, <1>10, <1>11 DEF JsonInv, Reading

LEMMA ReadingHas ==
  ASSUME JsonInv, ret = "ok"
  PROVE  /\ DataKept /\ TypeKnown /\ FramesRight(dom) /\ SameStack /\ PlaceRight
         /\ dom \in Dom /\ printer \in Printer /\ ~dom.misplaced
         /\ Len(stack) \in Nat /\ Len(dom.stack) = Len(stack) /\ printer.indentlevel = Len(stack)
         /\ state \in States /\ config \in Configs /\ DataTyped /\ BufferRight /\ InStep(dom, printer)
  BY DEF JsonInv, Reading, DataTyped, SameStack

LEMMA FailsKeeps ==
  ASSUME JsonInv, ret = "ok", NEW e, e \notin {"ok", "done"}, Fails(e)
  PROVE  JsonInv'
<1>1. ret' = e /\ UNCHANGED <<state, type, buffer, config, save_state, expecting_key, unicode_multi,
                              stack, stack_size, dom, printer>>
  BY DEF Fails, otherVars, consumers
<1>2. DataTyped' /\ BufferRight' /\ InStep(dom, printer)' /\ ~dom'.misplaced
  BY <1>1, ReadingHas DEF DataTyped, BufferRight, InStep
<1> QED
  BY <1>1, <1>2 DEF JsonInv, Reading

(* Nothing is handed on.                                                   *)
LEMMA SilentKeeps ==
  ASSUME JsonInv, ret = "ok", ret' = "ok",
         UNCHANGED <<config, expecting_key, stack, stack_size, consumers>>,
         state' \in States, save_state' \in Between \cup AfterValue, unicode_multi' \in BOOLEAN,
         type' \in {"int", "float", "null", "true", "false", "none"},
         BufferRight', DataKept', TypeKnown', PlaceRight'
  PROVE  JsonInv'
<1>1. UNCHANGED <<config, expecting_key, stack, stack_size, dom, printer>>
  BY DEF consumers
<1>2. DataTyped'
  BY <1>1, ReadingHas DEF DataTyped
<1>3. InStep(dom, printer)' /\ ~dom'.misplaced /\ FramesRight(dom)' /\ SameStack'
  BY <1>1, ReadingHas DEF InStep, FramesRight, SameStack
<1> QED
  BY <1>2, <1>3 DEF JsonInv, Reading

-----------------------------------------------------------------------------
(* A step within a string, a number, a literal or a comment                *)


LEMMA MoveStays ==
  ASSUME JsonInv, ret = "ok", NEW c \in Classes, Move(c), BetweenTokens(state, c, NextOf(c))
  PROVE  DataKept' /\ TypeKnown' /\ PlaceRight'
<1> DEFINE n == NextOf(c)
<1>1. /\ n \in States /\ state' = n /\ buffer' = Buffered(n)
      /\ UNCHANGED <<type, config, save_state, expecting_key, unicode_multi, stack, dom, printer>>
  BY DEF Move, otherVars, consumers
<1>2. \/ state \in Between /\ n = state
      \/ state \in {"_V", "_A"} /\ n \in {"_S", "F1", "N1", "T1"}
      \/ state \in AfterValue /\ n = "OK"
      \/ state \in {"_O", "_K"} /\ n = "_S"
  <2>1. n \notin {"OE", "AE", "SP", "CB", "YB", "OB", "AB", "KS", "MX", "ZX", "IX"}
    BY <1>1 DEF States, Between, AfterValue, CommentStates, Unicode
  <2> HIDE DEF n
  <2> QED
    BY <2>1 DEF BetweenTokens, StartsValue, n
<1> HIDE DEF n
<1>3. DataKept /\ TypeKnown /\ PlaceRight /\ state \notin CommentStates /\ Place = state
  BY <1>2, ReadingHas DEF Between, AfterValue, CommentStates, Place
<1>4. state' \notin CommentStates /\ Place' = n
  BY <1>1, <1>2 DEF Between, AfterValue, CommentStates, Place
<1>5. buffer' = buffer \/ (n = "OK" /\ state # n)
  BY <1>1, <1>2 DEF Between, AfterValue, Buffered, buffer_policy_table, OfNumber, Unicode
<1>6. CASE state \in Between /\ n = state
  <2>1. state' = state /\ buffer' = buffer /\ Place' = Place
    BY <1>1, <1>3, <1>4, <1>5, <1>6
  <2> QED
    BY <1>1, <1>3, <2>1 DEF DataKept, TypeKnown, PlaceRight, InTop, KeyWanted
<1>7. CASE state \in {"_V", "_A"} /\ n \in {"_S", "F1", "N1", "T1"}
  <2>1. ~KeyWanted /\ ~expecting_key /\ type = "none" /\ buffer.offset = 0 /\ Len(stack) # 0
    BY <1>3, <1>7, ReadingHas DEF PlaceRight, TypeKnown, DataKept, KeyWanted, InString, Unicode, Between, Number
  <2>2. ~KeyWanted'
    BY <1>1, <1>4, <1>7, <2>1 DEF KeyWanted, InString, Unicode
  <2>3. DataKept' /\ TypeKnown'
    BY <1>1, <1>4, <1>5, <1>7, <2>1 DEF DataKept, TypeKnown, Number
  <2>4. PlaceRight'
    BY <1>1, <1>3, <1>4, <1>7, <2>1, <2>2 DEF PlaceRight, InTop
  <2> QED
    BY <2>3, <2>4
<1>8. CASE state \in AfterValue /\ n = "OK"
  <2>1. ~expecting_key
    BY <1>3, <1>8 DEF PlaceRight, AfterValue, InString, Unicode
  <2>2. type = "none" <=> state = "OK" /\ type = "none"
    BY <1>3, <1>8 DEF TypeKnown, AfterValue, Number
  <2>3. KeyWanted' <=> KeyWanted
    BY <1>1, <1>3, <1>4, <1>8, <2>1, <2>2 DEF KeyWanted, InString, Unicode, AfterValue
  <2>4. buffer' = buffer \/ type # "none"
    BY <1>1, <1>5, <1>8, <2>2
  <2>5. DataKept' /\ TypeKnown'
    BY <1>1, <1>3, <1>4, <1>8, <2>2, <2>4 DEF DataKept, TypeKnown, Number, Between, CommentStates, Literal
  <2>6. PlaceRight'
    BY <1>1, <1>3, <1>4, <1>8, <2>1, <2>2, <2>3 DEF PlaceRight, InTop, AfterValue
  <2> QED
    BY <2>5, <2>6
<1>9. CASE state \in {"_O", "_K"} /\ n = "_S"
  <2>1. expecting_key /\ KeyWanted /\ type = "none" /\ InTop(TRUE) /\ Len(stack) # 0
    BY <1>3, <1>9, ReadingHas DEF PlaceRight, KeyWanted, TypeKnown, Number
  <2>2. KeyWanted' /\ Place' \in InString
    BY <1>1, <1>4, <1>9, <2>1 DEF KeyWanted, InString
  <2>3. DataKept' /\ TypeKnown'
    BY <1>1, <1>4, <1>9, <2>1 DEF DataKept, TypeKnown, Number, Between, CommentStates, Literal
  <2>4. PlaceRight'
    BY <1>1, <1>3, <1>4, <1>9, <2>1, <2>2 DEF PlaceRight, InTop
  <2> QED
    BY <2>3, <2>4
<1> QED
  BY <1>2, <1>6, <1>7, <1>8, <1>9

LEMMA MoveString ==
  ASSUME JsonInv, ret = "ok", NEW c \in Classes, Move(c), WithinString(state, c, NextOf(c))
  PROVE  DataKept' /\ TypeKnown' /\ PlaceRight'
<1> DEFINE n == NextOf(c)
<1>1. /\ n \in States /\ state' = n /\ buffer' = Buffered(n) /\ CanPush(n)
      /\ UNCHANGED <<type, config, save_state, expecting_key, unicode_multi, stack, dom, printer>>
  BY DEF Move, Accepts, otherVars, consumers
<1>2. /\ state \in InString /\ n \in InString
      /\ n = "U2" => state = "U1"
      /\ n = "U3" => state = "U2"
      /\ n = "U4" => state = "U3"
  <2>1. n \notin {"SE", "UC"}
    BY <1>1 DEF States, Between, AfterValue, CommentStates, Unicode
  <2> HIDE DEF n
  <2> QED
    BY <2>1 DEF WithinString, InString, Unicode, n
<1> HIDE DEF n
<1>3. DataKept /\ TypeKnown /\ PlaceRight /\ state \notin CommentStates /\ Place = state
  BY <1>2, ReadingHas DEF InString, Unicode, CommentStates, Place
<1>4. state' \notin CommentStates /\ Place' = n
  BY <1>1, <1>2 DEF InString, Unicode, CommentStates, Place
<1>5. state \in Unicode => buffer'.offset = buffer.offset + 1
  BY <1>1, <1>2, BufferedRight, ReadingHas DEF buffer_policy_table, Error, InString, Unicode
<1>6. type = "none"
  BY <1>2, <1>3 DEF TypeKnown, InString, Unicode, Number
<1>7. DataKept'
  <2>1. buffer.offset \in Nat
    BY ReadingHas DEF BufferRight
  <2> QED
    BY <1>1, <1>2, <1>3, <1>5, <2>1 DEF DataKept, InString, Unicode, Between, CommentStates, Literal
<1>8. TypeKnown'
  BY <1>1, <1>2, <1>4, <1>6 DEF TypeKnown, InString, Unicode, Number
<1>9. KeyWanted' <=> KeyWanted
  BY <1>1, <1>2, <1>3, <1>4 DEF KeyWanted, InString, Unicode
<1>10. PlaceRight'
  <2>1. Place \notin {"GO", "OK", "_O", "_K", "CO", "_A"} /\ Place' \notin {"GO", "OK", "_O", "_K", "CO", "_A"}
    BY <1>2, <1>3, <1>4 DEF InString, Unicode
  <2> QED
    BY <1>1, <1>2, <1>3, <1>4, <1>9, <2>1 DEF PlaceRight, InTop
<1> QED
  BY <1>7, <1>8, <1>10

LEMMA MoveNumber ==
  ASSUME JsonInv, ret = "ok", NEW c \in Classes, Move(c), WithinNumber(state, c, NextOf(c))
  PROVE  DataKept' /\ TypeKnown' /\ PlaceRight'
<1> DEFINE n == NextOf(c)
<1>1. /\ n \in States /\ state' = n
      /\ UNCHANGED <<type, config, save_state, expecting_key, unicode_multi, stack, dom, printer>>
  BY DEF Move, Accepts, otherVars, consumers
<1>2. state \in Number /\ n \in Number
  <2>1. n \notin {"DE", "DF"}
    BY <1>1 DEF States, Between, AfterValue, CommentStates, Unicode
  <2> HIDE DEF n
  <2> QED
    BY <2>1 DEF WithinNumber, Number, n
<1> HIDE DEF n
<1>3. DataKept /\ TypeKnown /\ PlaceRight /\ state \notin CommentStates /\ Place = state
  BY <1>2, ReadingHas DEF Number, CommentStates, Place
<1>4. state' \notin CommentStates /\ Place' = n
  BY <1>1, <1>2 DEF Number, CommentStates, Place
<1>5. type \in {"int", "float"}
  BY <1>2, <1>3 DEF TypeKnown
<1>6. DataKept'
  BY <1>1, <1>2 DEF DataKept, Number, Between, CommentStates, Literal
<1>7. TypeKnown'
  BY <1>1, <1>2, <1>4, <1>5 DEF TypeKnown
<1>8. Place \notin InString \cup {"GO", "OK", "_O", "_K", "CO", "_A"} /\ Place' \notin InString \cup {"GO", "OK", "_O", "_K", "CO", "_A"}
  BY <1>2, <1>3, <1>4 DEF InString, Unicode, Number
<1>9. PlaceRight'
  BY <1>1, <1>3, <1>8 DEF PlaceRight, InTop, KeyWanted
<1> QED
  BY <1>6, <1>7, <1>9

LEMMA MoveLiteral ==
  ASSUME JsonInv, ret = "ok", NEW c \in Classes, Move(c), WithinLiteral(state, c, NextOf(c))
  PROVE  DataKept' /\ TypeKnown' /\ PlaceRight'
<1> DEFINE n == NextOf(c)
<1>1. /\ n \in States /\ state' = n /\ buffer' = Buffered(n)
      /\ UNCHANGED <<type, config, save_state, expecting_key, unicode_multi, stack, dom, printer>>
  BY DEF Move, Accepts, otherVars, consumers
<1>2. state \in Literal /\ n \in Literal
  <2>1. n \notin {"TR", "FA", "NU"}
    BY <1>1 DEF States, Between, AfterValue, CommentStates, Unicode
  <2> HIDE DEF n
  <2> QED
    BY <2>1 DEF WithinLiteral, Literal, n
<1> HIDE DEF n
<1>3. DataKept /\ TypeKnown /\ PlaceRight /\ state \notin CommentStates /\ Place = state
  BY <1>2, ReadingHas DEF Literal, CommentStates, Place
<1>4. state' \notin CommentStates /\ Place' = n
  BY <1>1, <1>2 DEF Literal, CommentStates, Place
<1>5. type = "none" /\ buffer.offset = 0
  BY <1>2, <1>3 DEF TypeKnown, DataKept, Literal, Number
<1>6. buffer' = buffer
  BY <1>1, <1>2 DEF Buffered, buffer_policy_table, OfNumber, Unicode, Literal
<1>7. DataKept'
  BY <1>1, <1>2, <1>5, <1>6 DEF DataKept, Literal
<1>8. Place \notin InString \cup Number \cup {"GO", "OK", "_O", "_K", "CO", "_A"}
      /\ Place' \notin InString \cup Number \cup {"GO", "OK", "_O", "_K", "CO", "_A"}
  BY <1>2, <1>3, <1>4 DEF InString, Unicode, Number, Literal
<1>9. TypeKnown'
  BY <1>1, <1>4, <1>5, <1>8 DEF TypeKnown
<1>10. PlaceRight'
  BY <1>1, <1>3, <1>8 DEF PlaceRight, InTop, KeyWanted
<1> QED
  BY <1>7, <1>9, <1>10

LEMMA MoveComment ==
  ASSUME JsonInv, ret = "ok", NEW c \in Classes, Move(c), WithinComment(state, c, NextOf(c))
  PROVE  DataKept' /\ TypeKnown' /\ PlaceRight'
<1> DEFINE n == NextOf(c)
<1>1. /\ n \in States /\ state' = n /\ buffer' = Buffered(n)
      /\ UNCHANGED <<type, config, save_state, expecting_key, unicode_multi, stack, dom, printer>>
  BY DEF Move, Accepts, otherVars, consumers
<1>2. state \in CommentStates /\ n \in CommentStates
  <2>1. n # "CE"
    BY <1>1 DEF States, Between, AfterValue, CommentStates, Unicode
  <2> HIDE DEF n
  <2> QED
    BY <2>1 DEF WithinComment, CommentStates, n
<1> HIDE DEF n
<1>3. DataKept /\ TypeKnown /\ PlaceRight
  BY ReadingHas
<1>4. Place' = Place
  BY <1>1, <1>2 DEF Place
<1>5. buffer' = buffer
  BY <1>1, <1>2 DEF Buffered, buffer_policy_table, OfNumber, Unicode, CommentStates
<1>6. DataKept' /\ TypeKnown'
  BY <1>1, <1>2, <1>3, <1>4, <1>5 DEF DataKept, TypeKnown, CommentStates
<1>7. PlaceRight'
  BY <1>1, <1>3, <1>4 DEF PlaceRight, InTop, KeyWanted
<1> QED
  BY <1>6, <1>7

LEMMA MoveKeeps ==
  ASSUME JsonInv, NEW c \in Classes, Move(c)
  PROVE  JsonInv'
<1>1. /\ ret = "ok" /\ CanPush(NextOf(c)) /\ NextOf(c) \in States
      /\ state' = NextOf(c) /\ buffer' = Buffered(NextOf(c))
      /\ ret' = ret /\ UNCHANGED <<type, config, save_state, expecting_key, unicode_multi, stack, stack_size, consumers>>
  BY DEF Move, Accepts, otherVars
<1>2. /\ state \in States /\ config \in Configs /\ BufferRight /\ DataTyped
  BY <1>1, ReadingHas
<1>3. NextOf(c) # Error
  BY <1>1 DEF Error, States, Between, AfterValue, CommentStates, Unicode
<1>4. Follows(state, c, NextOf(c))
  BY <1>2, <1>3, NextIs
<1>5. DataKept' /\ TypeKnown' /\ PlaceRight'
  BY <1>1, <1>4, MoveStays, MoveString, MoveNumber, MoveLiteral, MoveComment DEF Follows
<1>6. BufferRight'
  BY <1>1, <1>2, BufferedRight DEF BufferRight
<1>7. /\ state' \in States /\ save_state' \in Between \cup AfterValue /\ unicode_multi' \in BOOLEAN
      /\ type' \in {"int", "float", "null", "true", "false", "none"}
  BY <1>1, <1>2 DEF DataTyped
<1> QED
  BY <1>1, <1>5, <1>6, <1>7, SilentKeeps

-----------------------------------------------------------------------------
(* The actions that set the type, of escapes, and the ends                 *)

LEMMA ValuePlace ==
  ASSUME JsonInv, ret = "ok", UNCHANGED <<expecting_key, stack, dom>>,
         state \in {"_V", "_A", "CO"} \cup Number \cup Literal,
         state' \in Number \cup {"OK", "_V"}, state' = "OK" => type' # "none"
  PROVE  Place' = state' /\ state' \notin CommentStates /\ PlaceRight'
<1>1. PlaceRight /\ Place = state /\ Len(stack) \in Nat
  BY ReadingHas DEF Place, Number, Literal, CommentStates
<1>2. state' \notin CommentStates /\ Place' = state'
  BY DEF Place, Number, Literal, CommentStates
<1>3. /\ Place \notin InString \cup {"GO", "OK", "_O", "_K"}
      /\ Place' \notin InString \cup {"GO", "_O", "_K", "CO", "_A"}
  BY <1>1, <1>2 DEF InString, Unicode, Number, Literal
<1>4. ~KeyWanted /\ ~expecting_key /\ Len(stack) # 0
  BY <1>1, <1>3 DEF PlaceRight, KeyWanted
<1>5. ~KeyWanted'
  BY <1>2, <1>3 DEF KeyWanted
<1>6. InTop(TRUE) => dom.stack[Len(stack)].key = "set"
  BY <1>1, <1>4 DEF PlaceRight
<1>7. PlaceRight'
  BY <1>3, <1>4, <1>5, <1>6 DEF PlaceRight, InTop
<1> QED
  BY <1>2, <1>7

LEMMA SetsTypeIs ==
  ASSUME NEW n \in DOMAIN SetsType
  PROVE  \/ n \in {"MX", "ZX", "IX"} /\ SetsType[n][1] = "int" /\ SetsType[n][2] \in {"M0", "Z0", "I0"}
         \/ n \in {"DE", "DF"} /\ SetsType[n][1] = "float" /\ SetsType[n][2] \in {"X1", "R1"}
         \/ n \in {"NU", "FA", "TR"} /\ SetsType[n][1] \in {"null", "false", "true"} /\ SetsType[n][2] = "OK"
         \/ n = "KS" /\ SetsType[n][1] = "none" /\ SetsType[n][2] = "_V"
<1>1. n \in {"MX", "ZX", "IX", "DE", "DF", "NU", "FA", "TR", "KS"}
  BY DEF SetsType
<1>2. /\ SetsType["MX"] = <<"int", "M0">> /\ SetsType["ZX"] = <<"int", "Z0">> /\ SetsType["IX"] = <<"int", "I0">>
      /\ SetsType["DE"] = <<"float", "X1">> /\ SetsType["DF"] = <<"float", "R1">>
      /\ SetsType["NU"] = <<"null", "OK">> /\ SetsType["FA"] = <<"false", "OK">> /\ SetsType["TR"] = <<"true", "OK">>
      /\ SetsType["KS"] = <<"none", "_V">>
  BY DEF SetsType
<1> QED
  BY <1>1, <1>2

LEMMA AtSetType ==
  ASSUME state \in States, NEW c \in Classes, NextOf(c) \in DOMAIN SetsType
  PROVE  /\ NextOf(c) \in {"MX", "ZX", "IX"} => state \in {"_V", "_A"}
         /\ NextOf(c) \in {"DE", "DF"} => state \in Number
         /\ NextOf(c) \in {"NU", "FA", "TR"} => state \in Literal
         /\ NextOf(c) = "KS" => state = "CO"
<1>1. NextOf(c) \in {"MX", "ZX", "IX", "DE", "DF", "NU", "FA", "TR", "KS"}
  BY DEF SetsType
<1>2. Follows(state, c, NextOf(c))
  BY <1>1, NextIs DEF Error
<1>3. CASE BetweenTokens(state, c, NextOf(c))
  BY <1>1, <1>3 DEF BetweenTokens, StartsValue, Between
<1>4. CASE WithinNumber(state, c, NextOf(c))
  BY <1>1, <1>4 DEF WithinNumber, Number
<1>5. CASE WithinLiteral(state, c, NextOf(c))
  BY <1>1, <1>5 DEF WithinLiteral, Literal
<1>6. ~WithinString(state, c, NextOf(c)) /\ ~WithinComment(state, c, NextOf(c))
  BY <1>1 DEF WithinString, WithinComment
<1> QED
  BY <1>2, <1>3, <1>4, <1>5, <1>6 DEF Follows

LEMMA SetTypeKeeps ==
  ASSUME JsonInv, NEW c \in Classes, SetType(c)
  PROVE  JsonInv'
<1> DEFINE n == NextOf(c)
<1>1. /\ ret = "ok" /\ CanPush(n) /\ n \in DOMAIN SetsType
      /\ type' = SetsType[n][1] /\ state' = SetsType[n][2] /\ buffer' = Buffered(n)
      /\ ret' = ret /\ UNCHANGED <<config, save_state, expecting_key, unicode_multi, stack, stack_size, consumers>>
  BY DEF SetType, Accepts, otherVars
<1>2. /\ state \in States /\ config \in Configs /\ BufferRight /\ DataTyped /\ DataKept /\ TypeKnown
  BY <1>1, ReadingHas
<1>3. /\ n \in {"MX", "ZX", "IX"} => state \in {"_V", "_A"}
      /\ n \in {"DE", "DF"} => state \in Number
      /\ n \in {"NU", "FA", "TR"} => state \in Literal
      /\ n = "KS" => state = "CO"
  BY <1>1, <1>2, AtSetType
<1>4. \/ n \in {"MX", "ZX", "IX"} /\ type' = "int" /\ state' \in {"M0", "Z0", "I0"}
      \/ n \in {"DE", "DF"} /\ type' = "float" /\ state' \in {"X1", "R1"}
      \/ n \in {"NU", "FA", "TR"} /\ type' \in {"null", "false", "true"} /\ state' = "OK"
      \/ n = "KS" /\ type' = "none" /\ state' = "_V"
  BY <1>1, SetsTypeIs
<1> HIDE DEF n
<1>5. /\ state' \in States /\ type' \in {"int", "float", "null", "true", "false", "none"}
      /\ state' \in Number \cup {"OK", "_V"} /\ (state' = "OK" => type' # "none")
      /\ state \in {"_V", "_A", "CO"} \cup Number \cup Literal
  BY <1>3, <1>4 DEF States, AfterValue, Between, Number
<1>6. Place' = state' /\ state' \notin CommentStates /\ PlaceRight'
  BY <1>1, <1>5, ValuePlace DEF consumers
<1>7. BufferRight'
  BY <1>1, <1>2, BufferedRight DEF BufferRight
<1>8. n = "KS" => buffer' = buffer /\ buffer.offset = 0
  <2> SUFFICES ASSUME n = "KS" PROVE buffer' = buffer /\ buffer.offset = 0
    OBVIOUS
  <2>1. state = "CO"
    BY <1>3
  <2> QED
    BY <1>1, <1>2, <2>1 DEF DataKept, Between, Buffered, buffer_policy_table, OfNumber, Unicode
<1>9. DataKept'
  <2>1. state' = "_V" => n = "KS"
    BY <1>4
  <2>2. state' \notin {"U2", "U3", "U4"} \cup CommentStates \cup Literal \cup (Between \ {"_V"})
    BY <1>4 DEF CommentStates, Literal, Between
  <2> QED
    BY <1>5, <1>8, <2>1, <2>2 DEF DataKept
<1>10. TypeKnown'
  BY <1>4, <1>6 DEF TypeKnown, Number
<1>11. save_state' \in Between \cup AfterValue /\ unicode_multi' \in BOOLEAN
  BY <1>1, <1>2 DEF DataTyped
<1> QED
  BY <1>1, <1>5, <1>6, <1>7, <1>9, <1>10, <1>11, SilentKeeps

LEMMA UnicodeKeeps ==
  ASSUME JsonInv, NEW c \in Classes, act_uc(c)
  PROVE  JsonInv'
<1> DEFINE b == Buffered("UC")
<1>1. PICK kind \in DOMAIN Bytes :
        /\ ret = "ok" /\ CanPush("UC") /\ NextOf(c) = "UC"
        /\ buffer' = [b EXCEPT !.offset = b.offset - 4 + Bytes[kind]]
        /\ unicode_multi' = (kind = "high")
        /\ state' = IF unicode_multi' THEN "D1" ELSE "_S"
        /\ type' = "none"
        /\ ret' = ret /\ UNCHANGED <<config, save_state, expecting_key, stack, stack_size, consumers>>
  BY DEF act_uc, Accepts
<1>2. /\ state \in States /\ config \in Configs /\ BufferRight /\ DataTyped /\ DataKept /\ PlaceRight
  BY <1>1, ReadingHas
<1>3. state = "U4"
  BY <1>1, <1>2, AtFourth
<1>4. Bytes[kind] \in 0 .. 4
  BY DEF Bytes
<1>5. /\ b \in [offset : Nat, size : Nat] /\ b.offset < b.size
      /\ config.max_data > 0 => b.size <= config.max_data
      /\ b.offset = buffer.offset + 1
  <2>1. buffer_policy_table(state, "UC")
    BY <1>3 DEF buffer_policy_table, Unicode, Error
  <2> QED
    BY <1>1, <1>2, <2>1, BufferedRight
<1>6. buffer.offset >= 3 /\ buffer.offset \in Nat
  BY <1>2, <1>3 DEF DataKept, BufferRight
<1> HIDE DEF b
<1>7. BufferRight'
  <2> DEFINE o == b.offset - 4 + Bytes[kind]
  <2>1. o \in Nat /\ o < b.size
    BY <1>4, <1>5, <1>6
  <2>2. buffer' = [b EXCEPT !.offset = o]
    BY <1>1
  <2> HIDE DEF o
  <2>3. buffer' \in [offset : Nat, size : Nat] /\ buffer'.offset = o /\ buffer'.size = b.size
    BY <1>5, <2>1, <2>2
  <2> QED
    BY <1>1, <1>5, <2>1, <2>3 DEF BufferRight
<1>8. state' \in {"D1", "_S"} /\ unicode_multi' \in BOOLEAN
  BY <1>1
<1>9. /\ Place = state /\ Place' = state' /\ state' \in States
      /\ Place \in InString /\ Place' \in InString
      /\ state' \notin CommentStates \cup Between \cup Literal \cup {"U2", "U3", "U4", "OK"}
      /\ Place' \notin Number
  BY <1>3, <1>8 DEF Place, InString, CommentStates, Between, Literal, Unicode, States, Number
<1>10. DataKept' /\ TypeKnown'
  BY <1>1, <1>9 DEF DataKept, TypeKnown
<1>11. KeyWanted' <=> KeyWanted
  BY <1>1, <1>9 DEF KeyWanted, InString, Unicode
<1>12. PlaceRight'
  <2>1. Place \notin {"GO", "OK", "_O", "_K", "CO", "_A"} /\ Place' \notin {"GO", "OK", "_O", "_K", "CO", "_A"}
    BY <1>9 DEF InString, Unicode
  <2> QED
    BY <1>1, <1>2, <1>9, <1>11, <2>1 DEF PlaceRight, InTop, consumers
<1>13. save_state' \in Between \cup AfterValue
  BY <1>1, <1>2 DEF DataTyped
<1> QED
  BY <1>1, <1>7, <1>8, <1>9, <1>10, <1>12, <1>13, SilentKeeps

LEMMA CommentEndKeeps ==
  ASSUME JsonInv, NEW c \in Classes, act_ce(c)
  PROVE  JsonInv'
<1>1. /\ ret = "ok" /\ NextOf(c) = "CE" /\ state' = ResumedAt(save_state) /\ type' = "none" /\ ret' = ret
      /\ UNCHANGED <<buffer, config, save_state, expecting_key, unicode_multi, stack, stack_size, consumers>>
  BY DEF act_ce, Reads, otherVars
<1>2. /\ state \in States /\ config \in Configs /\ BufferRight /\ DataTyped /\ DataKept /\ TypeKnown /\ PlaceRight
  BY <1>1, ReadingHas
<1>3. state \in CommentStates
  BY <1>1, <1>2, AtCommentEnd
<1>4. state' \in Between \cup {"OK"}
  BY <1>1 DEF ResumedAt
<1>5. state' \in States /\ state' \notin CommentStates \cup {"U2", "U3", "U4"} \cup Literal \cup Number
  BY <1>4 DEF States, AfterValue, Between, CommentStates, Literal, Number
<1>6. Place' = Place /\ Place' = state'
  BY <1>1, <1>3, <1>5 DEF Place
<1>7. type = "none" /\ buffer'.offset = 0
  BY <1>1, <1>2, <1>3 DEF TypeKnown, DataKept
<1>8. DataKept' /\ TypeKnown'
  BY <1>1, <1>5, <1>6, <1>7 DEF DataKept, TypeKnown
<1>9. PlaceRight'
  BY <1>1, <1>2, <1>6, <1>7 DEF PlaceRight, InTop, KeyWanted, consumers
<1>10. BufferRight' /\ save_state' \in Between \cup AfterValue /\ unicode_multi' \in BOOLEAN
  BY <1>1, <1>2 DEF DataTyped, BufferRight
<1> QED
  BY <1>1, <1>5, <1>8, <1>9, <1>10, SilentKeeps

LEMMA EndKeeps ==
  ASSUME JsonInv, EndOfFile
  PROVE  JsonInv'
<1>1. /\ ret = "ok" /\ ret' = (IF json_parser_is_done THEN "done" ELSE "syntax_error")
      /\ UNCHANGED <<state, type, buffer, config, save_state, expecting_key, unicode_multi,
                     stack, stack_size, dom, printer>>
  BY DEF EndOfFile, otherVars, consumers
<1>2. DataTyped' /\ BufferRight' /\ InStep(dom, printer)' /\ ~dom'.misplaced
  BY <1>1, ReadingHas DEF DataTyped, BufferRight, InStep
<1>3. ret' = "done" /\ state \notin CommentStates => dom.root /\ dom.stack = <<>>
  <2> SUFFICES ASSUME ret' = "done", state \notin CommentStates PROVE dom.root /\ dom.stack = <<>>
    OBVIOUS
  <2>1. stack = <<>> /\ state # "GO"
    BY <1>1 DEF json_parser_is_done
  <2>2. Len(stack) = 0 /\ Len(dom.stack) = 0 /\ PlaceRight /\ dom \in Dom
    BY <1>1, <2>1, ReadingHas
  <2>3. dom.root
    BY <2>1, <2>2 DEF PlaceRight, Place
  <2> QED
    BY <2>2, <2>3, DomHas
<1>4. ret' # "ok"
  BY <1>1
<1>5. ret' = "done" /\ state' \notin CommentStates => dom'.root /\ dom'.stack = <<>>
  BY <1>1, <1>3
<1> QED
  BY <1>2, <1>4, <1>5 DEF JsonInv, Reading

LEMMA QuietFailures ==
  ASSUME JsonInv
  PROVE  /\ BadChar => JsonInv'
         /\ \A c \in Classes : UnexpectedChar(c) \/ DataLimit(c) \/ SurrogateFails(c) => JsonInv'
<1>1. BadChar => JsonInv'
  BY FailsKeeps DEF BadChar
<1>2. ASSUME NEW c \in Classes, UnexpectedChar(c) PROVE JsonInv'
  BY <1>2, FailsKeeps DEF UnexpectedChar, Reads
<1>3. ASSUME NEW c \in Classes, DataLimit(c) PROVE JsonInv'
  BY <1>3, FailsKeeps DEF DataLimit
<1>4. ASSUME NEW c \in Classes, SurrogateFails(c) PROVE JsonInv'
  <2> DEFINE e == IF unicode_multi THEN "JSON_ERROR_UNICODE_MISSING_LOW_SURROGATE"
                  ELSE "JSON_ERROR_UNICODE_UNEXPECTED_LOW_SURROGATE"
  <2>1. ret = "ok" /\ Fails(e) /\ e \notin {"ok", "done"}
    BY <1>4 DEF SurrogateFails, Accepts
  <2> HIDE DEF e
  <2> QED
    BY <2>1, FailsKeeps
<1> QED
  BY <1>1, <1>2, <1>3, <1>4

-----------------------------------------------------------------------------
(* The actions that hand something on                                      *)

LEMMA EmptiesKeeps ==
  ASSUME BufferRight, Empties, config' = config
  PROVE  BufferRight' /\ buffer'.offset = 0
  BY DEF BufferRight, Empties

(* A value that is due has where to go.                                    *)
LEMMA Due ==
  ASSUME JsonInv, ret = "ok", state \notin CommentStates, ~KeyWanted, Len(stack) > 0
  PROVE  Len(dom.stack) > 0 /\ Belongs(Top(dom))
<1>1. /\ FramesRight(dom) /\ PlaceRight /\ Len(dom.stack) = Len(stack) /\ Len(stack) \in Nat
  BY ReadingHas
<1>2. Top(dom) = dom.stack[Len(stack)] /\ Len(stack) \in 1 .. Len(dom.stack)
  BY <1>1 DEF Top
<1>3. IF Top(dom).object THEN TRUE ELSE Top(dom).key = "none"
  BY <1>1, <1>2 DEF FramesRight
<1>4. Top(dom).object => Top(dom).key = "set"
  <2> SUFFICES ASSUME Top(dom).object PROVE Top(dom).key = "set"
    OBVIOUS
  <2>1. dom.stack[Len(stack)].object \in BOOLEAN
    BY <1>1, <1>2, DomHas, ReadingHas DEF Frame
  <2>2. InTop(TRUE)
    BY <1>2, <2>1 DEF InTop
  <2> QED
    BY <1>1, <1>2, <2>2 DEF PlaceRight
<1> QED
  BY <1>1, <1>3, <1>4 DEF Belongs

FlushedDom == DomTold(dom, Pending)
FlushedPrinter == PrinterTold(printer, Pending)

LEMMA Flush ==
  ASSUME JsonInv, ret = "ok", state \notin CommentStates
  PROVE  /\ Handed(dom, FlushedDom, FlushedPrinter)
         /\ InTop(TRUE) => (Top(FlushedDom).key = "set" <=> ~KeyWanted /\ type = "none")
         /\ type # "none" => Len(stack) > 0
         /\ type = "none" => FlushedDom = dom /\ FlushedPrinter = printer
<1>1. /\ FramesRight(dom) /\ PlaceRight /\ TypeKnown /\ Len(dom.stack) = Len(stack) /\ Len(stack) \in Nat
      /\ dom \in Dom /\ printer \in Printer /\ ~dom.misplaced /\ printer.indentlevel = Len(stack)
      /\ InStep(dom, printer) /\ type \in {"int", "float", "null", "true", "false", "none"}
  BY ReadingHas DEF DataTyped
<1>2. CASE type = "none"
  <2>1. FlushedDom = dom /\ FlushedPrinter = printer
    BY <1>2 DEF FlushedDom, FlushedPrinter, DomTold, PrinterTold, Pending, ValueTypes
  <2>2. Handed(dom, FlushedDom, FlushedPrinter)
    BY <1>1, <2>1 DEF Handed
  <2>3. InTop(TRUE) => (Top(dom).key = "set" <=> ~KeyWanted)
    BY <1>1 DEF PlaceRight, Top, InTop
  <2> QED
    BY <1>2, <2>1, <2>2, <2>3
<1>3. CASE type # "none"
  <2>1. type \in ValueTypes /\ Pending = type
    BY <1>1, <1>3 DEF ValueTypes, Pending
  <2>2. /\ FlushedDom = json_parser_dom_callback(dom, type)
        /\ FlushedPrinter = json_print_mode(printer, type)
    BY <1>3, <2>1 DEF FlushedDom, FlushedPrinter, DomTold, PrinterTold
  <2>3. Len(stack) > 0 /\ ~KeyWanted
    <3>1. Place \in Number \cup {"OK"}
      BY <1>1, <1>3 DEF TypeKnown
    <3>2. ~KeyWanted
      BY <1>3, <3>1 DEF KeyWanted, Number, InString, Unicode
    <3>3. Len(stack) # 0
      BY <1>1, <1>3 DEF PlaceRight
    <3> QED
      BY <1>1, <3>2, <3>3
  <2>4. Len(dom.stack) > 0 /\ Belongs(Top(dom))
    BY <2>3, Due
  <2>5. Handed(dom, FlushedDom, FlushedPrinter) /\ Top(FlushedDom).key # "set"
    BY <1>1, <2>1, <2>2, <2>4, ValueHanded
  <2> QED
    BY <1>3, <2>3, <2>5
<1> QED
  BY <1>2, <1>3

LEMMA StackKept ==
  ASSUME JsonInv, ret = "ok", Handed(dom, dom', printer'), stack' = stack
  PROVE  /\ SameStack' /\ FramesRight(dom)' /\ InStep(dom, printer)' /\ ~dom'.misplaced
         /\ dom' \in Dom /\ printer' \in Printer /\ dom'.root = dom.root
         /\ \A object \in BOOLEAN : InTop(object)' <=> InTop(object)
         /\ Top(dom)' = dom'.stack[Len(stack)]
<1>1. /\ dom' \in Dom /\ printer' \in Printer /\ Len(dom'.stack) = Len(dom.stack)
      /\ \A i \in 1 .. Len(dom.stack) : dom'.stack[i].object = dom.stack[i].object
      /\ FramesRight(dom)' /\ InStep(dom, printer)' /\ ~dom'.misplaced
      /\ dom'.root = dom.root /\ printer'.indentlevel = Len(dom'.stack)
  BY DEF Handed, FramesRight, InStep
<1>2. /\ Len(dom.stack) = Len(stack) /\ Len(stack) \in Nat
      /\ \A i \in 1 .. Len(stack) : stack[i] = ModeOf(dom.stack[i])
  BY ReadingHas DEF SameStack
<1>3. SameStack'
  BY <1>1, <1>2 DEF SameStack, ModeOf
<1>4. \A object \in BOOLEAN : InTop(object)' <=> InTop(object)
  BY <1>1, <1>2 DEF InTop
<1>5. Top(dom)' = dom'.stack[Len(stack)]
  BY <1>1, <1>2 DEF Top
<1> QED
  BY <1>1, <1>3, <1>4, <1>5

(* Handed on, and the parser goes on or stops.                             *)
LEMMA HandKeeps ==
  ASSUME DataTyped', BufferRight', InStep(dom, printer)', ~dom'.misplaced, ret' # "done",
         ret' = "ok" => DataKept' /\ TypeKnown' /\ FramesRight(dom)' /\ SameStack' /\ PlaceRight'
  PROVE  JsonInv'
  BY DEF JsonInv, Reading

LEMMA CommentKeeps ==
  ASSUME JsonInv, NEW c \in Classes, act_comment(c)
  PROVE  JsonInv'
<1>1. /\ ret = "ok" /\ NextOf(c) \in {"CB", "YB"} /\ Empties
      /\ dom' = FlushedDom /\ printer' = FlushedPrinter
      /\ UNCHANGED <<config, expecting_key, unicode_multi, stack, stack_size>>
  BY DEF act_comment, Reads, Told, DomTold, PrinterTold, FlushedDom, FlushedPrinter
<1>2. \/ /\ save_state' = state /\ type' = "none" /\ state' \in {"Y1", "C1"}
         /\ ret' \in {"lost", "ok"}
      \/ /\ UNCHANGED <<state, save_state, type>>
         /\ ret' \in {"lost", "JSON_ERROR_COMMENT_NOT_ALLOWED"}
  BY DEF act_comment, Answer
<1>3. state \in States /\ DataTyped /\ BufferRight /\ TypeKnown /\ PlaceRight /\ Len(stack) \in Nat
  BY <1>1, ReadingHas
<1>4. state \in Between \cup AfterValue
  BY <1>1, <1>3, AtComment
<1>5. state \notin CommentStates /\ Place = state
  BY <1>4 DEF Between, AfterValue, CommentStates, Place
<1>6. BufferRight' /\ buffer'.offset = 0
  BY <1>1, <1>3, EmptiesKeeps
<1>7. /\ Handed(dom, dom', printer')
      /\ InTop(TRUE) => (Top(dom').key = "set" <=> ~KeyWanted /\ type = "none")
  BY <1>1, <1>5, Flush
<1>8. /\ SameStack' /\ FramesRight(dom)' /\ InStep(dom, printer)' /\ ~dom'.misplaced
      /\ dom' \in Dom /\ printer' \in Printer /\ dom'.root = dom.root
      /\ (InTop(TRUE)' <=> InTop(TRUE)) /\ (InTop(FALSE)' <=> InTop(FALSE))
      /\ Top(dom') = dom'.stack[Len(stack)]
  BY <1>1, <1>7, StackKept
<1>9. DataTyped'
  <2>1. {"Y1", "C1"} \subseteq States
    BY DEF States, CommentStates
  <2> QED
    BY <1>1, <1>2, <1>3, <1>4, <1>8, <2>1 DEF DataTyped
<1>10. ret' # "done"
  BY <1>2
<1>11. ASSUME ret' = "ok" PROVE DataKept' /\ TypeKnown' /\ PlaceRight'
  <2>1. save_state' = state /\ type' = "none" /\ state' \in {"Y1", "C1"}
    BY <1>2, <1>11
  <2>2. state' \in CommentStates /\ Place' = ResumedAt(state)
    BY <2>1 DEF CommentStates, Place
  <2>3. DataKept'
    BY <1>6, <2>1, <2>2 DEF DataKept
  <2>4. CASE state \in Between
    <3>1. Place' = Place /\ Place \notin Number \cup {"OK"}
      BY <1>5, <2>2, <2>4 DEF ResumedAt, Between, Number
    <3>2. type = "none"
      BY <1>3, <3>1 DEF TypeKnown
    <3>3. KeyWanted' <=> KeyWanted
      BY <1>1, <2>1, <3>1, <3>2 DEF KeyWanted
    <3>4. PlaceRight'
      BY <1>1, <1>3, <1>7, <1>8, <2>1, <3>1, <3>2, <3>3 DEF PlaceRight
    <3> QED
      BY <2>1, <2>3, <3>1, <3>4 DEF TypeKnown
  <2>5. CASE state \notin Between
    <3>1. Place' = "OK" /\ state \in AfterValue
      BY <1>4, <2>2, <2>5 DEF ResumedAt
    <3>2. ~expecting_key /\ Place \notin {"GO", "_O", "_K", "CO", "_A"}
      BY <1>3, <1>5, <3>1 DEF PlaceRight, AfterValue, InString, Unicode
    <3>3. KeyWanted \/ type # "none"
      BY <1>3, <1>5, <3>1 DEF KeyWanted, TypeKnown, AfterValue, Number
    <3>4. KeyWanted'
      BY <2>1, <3>1 DEF KeyWanted
    <3>5. PlaceRight'
      BY <1>1, <1>3, <1>7, <1>8, <2>1, <3>1, <3>2, <3>3, <3>4 DEF PlaceRight
    <3>6. TypeKnown'
      BY <2>1, <3>1 DEF TypeKnown, Number
    <3> QED
      BY <2>3, <3>5, <3>6
  <2> QED
    BY <2>4, <2>5
<1> QED
  BY <1>6, <1>8, <1>9, <1>10, <1>11, HandKeeps

LEMMA CommaKeeps ==
  ASSUME JsonInv, NEW c \in Classes, act_sp(c)
  PROVE  JsonInv'
<1>1. /\ ret = "ok" /\ NextOf(c) = "SP" /\ Empties
      /\ dom' = FlushedDom /\ printer' = FlushedPrinter
      /\ UNCHANGED <<config, save_state, unicode_multi, stack, stack_size>>
  BY DEF act_sp, Reads, Told, DomTold, PrinterTold, FlushedDom, FlushedPrinter
<1>2. \/ /\ stack # <<>> /\ expecting_key' = (expecting_key \/ InObject)
         /\ state' = IF InObject THEN "_K" ELSE "_V"
         /\ type' = "none" /\ ret' \in {"lost", "ok"}
      \/ /\ UNCHANGED <<state, expecting_key, type>>
         /\ ret' \in {"lost", "JSON_ERROR_COMMA_OUT_OF_STRUCTURE"}
  BY DEF act_sp, Answer
<1>3. state \in States /\ DataTyped /\ BufferRight /\ TypeKnown /\ PlaceRight /\ Len(stack) \in Nat
  BY <1>1, ReadingHas
<1>4. state \in AfterValue
  BY <1>1, <1>3, AtComma
<1>5. state \notin CommentStates /\ Place = state
  BY <1>4 DEF AfterValue, CommentStates, Place
<1>6. BufferRight' /\ buffer'.offset = 0
  BY <1>1, <1>3, EmptiesKeeps
<1>7. /\ Handed(dom, dom', printer')
      /\ InTop(TRUE) => (Top(dom').key = "set" <=> ~KeyWanted /\ type = "none")
  BY <1>1, <1>5, Flush
<1>8. /\ SameStack' /\ FramesRight(dom)' /\ InStep(dom, printer)' /\ ~dom'.misplaced
      /\ dom' \in Dom /\ printer' \in Printer /\ dom'.root = dom.root
      /\ (InTop(TRUE)' <=> InTop(TRUE)) /\ (InTop(FALSE)' <=> InTop(FALSE))
      /\ Top(dom') = dom'.stack[Len(stack)]
  BY <1>1, <1>7, StackKept
<1>9. DataTyped'
  <2>1. {"_K", "_V"} \subseteq States /\ expecting_key' \in BOOLEAN
    BY <1>2, <1>3 DEF States, Between, DataTyped
  <2> QED
    BY <1>1, <1>2, <1>3, <1>8, <2>1 DEF DataTyped
<1>10. ret' # "done"
  BY <1>2
<1>11. ASSUME ret' = "ok" PROVE DataKept' /\ TypeKnown' /\ PlaceRight'
  <2>1. /\ stack # <<>> /\ expecting_key' = (expecting_key \/ InObject)
        /\ state' = (IF InObject THEN "_K" ELSE "_V") /\ type' = "none"
    BY <1>2, <1>11
  <2>2. state' \in {"_K", "_V"} /\ state' \notin CommentStates /\ Place' = state'
    BY <2>1 DEF CommentStates, Place
  <2>3. DataKept' /\ TypeKnown'
    BY <1>6, <2>1, <2>2 DEF DataKept, TypeKnown, Number
  <2>4. Len(stack) > 0 /\ (InObject <=> InTop(TRUE)) /\ (~InObject <=> InTop(FALSE))
    <3>1. stack \in Seq({"object", "array"}) /\ Len(stack) > 0
      BY <1>3, <2>1 DEF DataTyped
    <3>2. Last(stack) = ModeOf(dom.stack[Len(stack)])
      <4>1. Last(stack) = stack[Len(stack)] /\ Len(stack) \in 1 .. Len(stack)
        BY <3>1 DEF Last
      <4> QED
        BY <1>1, <4>1, ReadingHas DEF SameStack
    <3>3. dom.stack[Len(stack)].object \in BOOLEAN
      BY <1>1, <3>1, ReadingHas, DomHas DEF Frame
    <3> QED
      BY <3>1, <3>2, <3>3 DEF InObject, InTop, ModeOf
  <2>5. ~expecting_key
    BY <1>3, <1>4, <1>5 DEF PlaceRight, AfterValue, InString, Unicode
  <2>6. KeyWanted \/ type # "none"
    BY <1>3, <1>4, <1>5 DEF KeyWanted, TypeKnown, AfterValue, Number
  <2>7. PlaceRight'
    <3>0. Len(stack)' > 0 /\ Len(stack)' # 0
      BY <1>1, <1>3, <2>4
    <3>1. InTop(TRUE)' => dom'.stack[Len(stack')].key # "set"
      BY <1>1, <1>7, <1>8, <2>6
    <3>2. CASE InObject
      <4>1. Place' = "_K" /\ expecting_key' /\ InTop(TRUE)' /\ KeyWanted'
        BY <1>8, <2>1, <2>2, <2>4, <3>2 DEF KeyWanted
      <4> QED
        BY <3>0, <3>1, <4>1 DEF PlaceRight
    <3>3. CASE ~InObject
      <4>1. Place' = "_V" /\ ~expecting_key' /\ ~InTop(TRUE)
        BY <2>1, <2>2, <2>4, <2>5, <3>3
      <4> QED
        BY <1>8, <3>0, <4>1 DEF PlaceRight
    <3> QED
      BY <3>2, <3>3
  <2> QED
    BY <2>3, <2>7
<1> QED
  BY <1>6, <1>8, <1>9, <1>10, <1>11, HandKeeps

LEMMA QuoteKeeps ==
  ASSUME JsonInv, NEW c \in Classes, act_se(c)
  PROVE  JsonInv'
<1>1. /\ ret = "ok" /\ NextOf(c) = "SE" /\ Empties /\ type' = "none"
      /\ state' = (IF expecting_key THEN "CO" ELSE "OK") /\ expecting_key' = FALSE
      /\ dom' = json_parser_dom_callback(dom, IF expecting_key THEN "key" ELSE "string")
      /\ printer' = json_print_mode(printer, IF expecting_key THEN "key" ELSE "string")
      /\ ret' \in {"lost", "ok"}
      /\ UNCHANGED <<config, save_state, unicode_multi, stack, stack_size>>
  BY DEF act_se, Reads, Told, DomTold, PrinterTold, Answer
<1>2. /\ state \in States /\ DataTyped /\ BufferRight /\ PlaceRight /\ Len(stack) \in Nat
      /\ dom \in Dom /\ printer \in Printer /\ FramesRight(dom) /\ ~dom.misplaced
      /\ Len(dom.stack) = Len(stack) /\ printer.indentlevel = Len(stack)
  BY <1>1, ReadingHas
<1>3. state = "_S"
  BY <1>1, <1>2, AtQuote
<1>4. state \notin CommentStates /\ Place = "_S"
  BY <1>3 DEF CommentStates, Place
<1>5. Len(stack) > 0
  BY <1>2, <1>4 DEF PlaceRight
<1>6. BufferRight' /\ buffer'.offset = 0
  BY <1>1, <1>2, EmptiesKeeps
<1>7. /\ Handed(dom, dom', printer')
      /\ Top(dom').key = "set" <=> expecting_key
  <2>1. CASE expecting_key
    <3>1. Top(dom).object
      BY <1>2, <2>1 DEF PlaceRight, InTop, Top
    <3> QED
      BY <1>1, <1>2, <1>5, <2>1, <3>1, KeyHanded
  <2>2. CASE ~expecting_key
    <3>1. ~KeyWanted
      BY <1>4, <2>2 DEF KeyWanted
    <3>2. Belongs(Top(dom))
      BY <1>1, <1>4, <1>5, <3>1, Due
    <3>3. "string" \in ValueTypes
      BY DEF ValueTypes
    <3> QED
      BY <1>1, <1>2, <1>5, <2>2, <3>2, <3>3, ValueHanded
  <2> QED
    BY <2>1, <2>2
<1>8. /\ SameStack' /\ FramesRight(dom)' /\ InStep(dom, printer)' /\ ~dom'.misplaced
      /\ dom' \in Dom /\ printer' \in Printer
      /\ (InTop(TRUE)' <=> InTop(TRUE))
      /\ Top(dom') = dom'.stack[Len(stack)]
  BY <1>1, <1>7, StackKept
<1>9. DataTyped'
  <2>1. state' \in States
    BY <1>1 DEF States, Between, AfterValue
  <2> QED
    BY <1>1, <1>2, <1>8, <2>1 DEF DataTyped
<1>10. state' \in {"CO", "OK"} /\ state' \notin CommentStates /\ Place' = state'
  BY <1>1 DEF CommentStates, Place
<1>11. DataKept' /\ TypeKnown'
  BY <1>1, <1>6, <1>10 DEF DataKept, TypeKnown, Number
<1>12. PlaceRight'
  <2>1. Len(stack)' > 0 /\ Len(stack)' # 0 /\ Top(dom') = dom'.stack[Len(stack')] /\ ~expecting_key'
    BY <1>1, <1>2, <1>5, <1>8
  <2>2. CASE expecting_key
    <3>1. Place' = "CO" /\ InTop(TRUE)' /\ ~KeyWanted'
      BY <1>1, <1>2, <1>8, <1>10, <2>2 DEF PlaceRight, KeyWanted, InString, Unicode
    <3> QED
      BY <1>7, <2>1, <2>2, <3>1 DEF PlaceRight
  <2>3. CASE ~expecting_key
    <3>1. Place' = "OK" /\ KeyWanted'
      BY <1>1, <1>10, <2>3 DEF KeyWanted
    <3> QED
      BY <1>7, <2>1, <2>3, <3>1 DEF PlaceRight
  <2> QED
    BY <2>2, <2>3
<1> QED
  BY <1>1, <1>6, <1>8, <1>9, <1>11, <1>12, HandKeeps

LEMMA OpenKeeps ==
  ASSUME JsonInv, NEW c \in Classes, act_open(c)
  PROVE  JsonInv'
<1>1. /\ ret = "ok" /\ NextOf(c) \in {"OB", "AB"}
      /\ dom' = json_parser_dom_callback(dom, c) /\ printer' = json_print_mode(printer, c)
      /\ UNCHANGED <<config, save_state, unicode_multi, buffer>>
  <2>1. state \in States
    BY ReadingHas DEF act_open, Reads
  <2>2. ret = "ok" /\ NextOf(c) \in {"OB", "AB"}
    BY DEF act_open, Reads
  <2>3. c # "none"
    BY <2>1, <2>2, AtOpen DEF Open
  <2> QED
    BY <2>2, <2>3 DEF act_open, Told, DomTold, PrinterTold
<1>2. \/ /\ UNCHANGED <<state, type, expecting_key, stack, stack_size>>
         /\ ret' \in {"lost", "JSON_ERROR_NESTING_LIMIT"}
      \/ /\ stack' = Append(stack, Mode(c)) /\ stack_size' = Room
         /\ expecting_key' = (expecting_key \/ c = "LCURB")
         /\ state' = (IF c = "LCURB" THEN "_O" ELSE "_A") /\ type' = "none"
         /\ ret' \in {"lost", "ok"}
  BY DEF act_open, Answer
<1>3. /\ state \in States /\ DataTyped /\ BufferRight /\ PlaceRight /\ DataKept /\ TypeKnown /\ SameStack
      /\ Len(stack) \in Nat /\ stack \in Seq({"object", "array"}) /\ stack_size \in Nat \ {0}
      /\ dom \in Dom /\ printer \in Printer /\ FramesRight(dom) /\ ~dom.misplaced
      /\ Len(dom.stack) = Len(stack) /\ printer.indentlevel = Len(stack) /\ Len(stack) <= stack_size
  BY <1>1, ReadingHas DEF DataTyped
<1>4. c \in Open /\ state \in {"GO", "_V", "_A"}
  BY <1>1, <1>3, AtOpen
<1>5. state \notin CommentStates /\ Place = state /\ ~KeyWanted /\ ~expecting_key /\ buffer.offset = 0
  <2>1. state \notin CommentStates /\ Place = state
    BY <1>4 DEF CommentStates, Place
  <2>2. ~KeyWanted /\ ~expecting_key
    BY <1>3, <1>4, <2>1 DEF KeyWanted, PlaceRight, InString, Unicode
  <2> QED
    BY <1>3, <1>4, <2>1, <2>2 DEF DataKept, Between
<1>6. Len(dom.stack) > 0 => Belongs(Top(dom))
  BY <1>1, <1>3, <1>5, Due
<1>7. /\ dom' \in Dom /\ printer' \in Printer /\ Len(dom'.stack) = Len(stack) + 1
      /\ \A i \in 1 .. Len(stack) : dom'.stack[i].object = dom.stack[i].object
      /\ Top(dom').object <=> c = "LCURB"
      /\ Top(dom').key = "none"
      /\ FramesRight(dom') /\ InStep(dom', printer') /\ ~dom'.misplaced
      /\ dom'.root = dom.root /\ printer'.indentlevel = Len(dom'.stack)
  BY <1>1, <1>3, <1>4, <1>6, OpenHanded
<1>8. FramesRight(dom)' /\ InStep(dom, printer)' /\ ~dom'.misplaced /\ Top(dom') = dom'.stack[Len(stack) + 1]
  BY <1>7 DEF FramesRight, InStep, Top
<1>9. c \in {"LCURB", "LSQRB"}
  BY <1>4 DEF Open
<1>10. BufferRight' /\ ret' # "done"
  BY <1>1, <1>2, <1>3 DEF BufferRight
<1>11. DataTyped'
  <2>1. CASE UNCHANGED <<state, type, expecting_key, stack, stack_size>>
    BY <1>1, <1>3, <1>7, <2>1 DEF DataTyped
  <2>2. CASE stack' = Append(stack, Mode(c)) /\ stack_size' = Room
             /\ expecting_key' = (expecting_key \/ c = "LCURB")
             /\ state' = (IF c = "LCURB" THEN "_O" ELSE "_A") /\ type' = "none"
    <3>1. Mode(c) \in {"object", "array"} /\ state' \in States
      BY <2>2 DEF Mode, States, Between
    <3>2. stack' \in Seq({"object", "array"}) /\ Len(stack') = Len(stack) + 1
      BY <1>3, <2>2, <3>1
    <3>3. stack_size' \in Nat \ {0} /\ Len(stack) + 1 <= stack_size'
      BY <1>3, <2>2 DEF Room
    <3>4. expecting_key' \in BOOLEAN
      BY <2>2
    <3> QED
      BY <1>1, <1>3, <1>7, <2>2, <3>1, <3>2, <3>3, <3>4 DEF DataTyped
  <2> QED
    BY <1>2, <2>1, <2>2
<1>12. ASSUME ret' = "ok" PROVE DataKept' /\ TypeKnown' /\ SameStack' /\ PlaceRight'
  <2>1. /\ stack' = Append(stack, Mode(c)) /\ expecting_key' = (expecting_key \/ c = "LCURB")
        /\ state' = (IF c = "LCURB" THEN "_O" ELSE "_A") /\ type' = "none"
    BY <1>2, <1>12
  <2>2. state' \in {"_O", "_A"} /\ state' \notin CommentStates /\ Place' = state'
    BY <2>1 DEF CommentStates, Place
  <2>3. DataKept' /\ TypeKnown'
    BY <1>1, <1>5, <2>1, <2>2 DEF DataKept, TypeKnown, Number
  <2>4. /\ Len(stack)' = Len(stack) + 1 /\ stack'[Len(stack) + 1] = Mode(c)
        /\ \A i \in 1 .. Len(stack) : stack'[i] = stack[i]
    BY <1>3, <2>1
  <2>5. dom'.stack[Len(stack)'].object <=> c = "LCURB"
    BY <1>7, <1>8, <2>4
  <2>6. SameStack'
    <3>1. Mode(c) = ModeOf(dom'.stack[Len(stack) + 1])
      BY <1>9, <2>4, <2>5 DEF Mode, ModeOf
    <3>2. \A i \in 1 .. Len(stack) : stack'[i] = ModeOf(dom'.stack[i])
      BY <1>3, <1>7, <2>4 DEF SameStack, ModeOf
    <3>3. \A i \in 1 .. Len(stack) + 1 : i = Len(stack) + 1 \/ i \in 1 .. Len(stack)
      BY <1>3
    <3>4. \A i \in 1 .. Len(stack) + 1 : stack'[i] = ModeOf(dom'.stack[i])
      BY <2>4, <3>1, <3>2, <3>3
    <3> QED
      BY <1>7, <2>4, <3>4 DEF SameStack
  <2>7. PlaceRight'
    <3>1. Len(stack)' > 0 /\ Len(stack)' # 0 /\ dom'.stack[Len(stack)'].key # "set"
      BY <1>3, <1>7, <1>8, <2>4
    <3>2. dom'.stack[Len(stack)'].object \in BOOLEAN
      BY <1>3, <1>7, <1>8, <2>4, TopIs DEF Frame
    <3>3. CASE c = "LCURB"
      <4>1. Place' = "_O" /\ expecting_key' /\ InTop(TRUE)' /\ KeyWanted'
        BY <2>1, <2>2, <2>5, <3>1, <3>2, <3>3 DEF InTop, KeyWanted
      <4> QED
        BY <3>1, <4>1 DEF PlaceRight
    <3>4. CASE c # "LCURB"
      <4>1. Place' = "_A" /\ ~expecting_key' /\ InTop(FALSE)' /\ ~InTop(TRUE)'
        BY <1>5, <2>1, <2>2, <2>5, <3>1, <3>2, <3>4 DEF InTop
      <4> QED
        BY <3>1, <4>1 DEF PlaceRight
    <3> QED
      BY <3>3, <3>4
  <2> QED
    BY <2>3, <2>6, <2>7
<1> QED
  BY <1>8, <1>10, <1>11, <1>12, HandKeeps

LEMMA CloseKeeps ==
  ASSUME JsonInv, NEW c \in Classes, act_close(c)
  PROVE  JsonInv'
<1>1. /\ ret = "ok" /\ NextOf(c) \in {"OE", "AE"} /\ Empties
      /\ dom' = json_parser_dom_callback(FlushedDom, c) /\ printer' = json_print_mode(FlushedPrinter, c)
      /\ UNCHANGED <<config, save_state, unicode_multi, stack_size>>
  <2>1. state \in States
    BY ReadingHas DEF act_close, Reads
  <2>2. ret = "ok" /\ NextOf(c) \in {"OE", "AE"}
    BY DEF act_close, Reads
  <2>3. c # "none"
    BY <2>1, <2>2, AtClose DEF Close
  <2> QED
    BY <2>2, <2>3 DEF act_close, Told, DomTold, PrinterTold, FlushedDom, FlushedPrinter
<1>2. \/ /\ Pops(c) /\ stack' = Front(stack) /\ expecting_key' = (expecting_key /\ c = "RSQRB")
         /\ state' = "OK" /\ type' = "none" /\ ret' \in {"lost", "ok"}
      \/ /\ UNCHANGED <<state, type, expecting_key, stack>>
         /\ ret' \in {"lost", PopError}
  BY DEF act_close, Answer
<1>3. /\ state \in States /\ DataTyped /\ BufferRight /\ PlaceRight /\ TypeKnown /\ SameStack
      /\ Len(stack) \in Nat /\ stack \in Seq({"object", "array"}) /\ stack_size \in Nat \ {0}
      /\ Len(dom.stack) = Len(stack) /\ Len(stack) <= stack_size
  BY <1>1, ReadingHas DEF DataTyped
<1>4. c \in Close /\ state \in AfterValue \cup {"_O", "_A"}
  BY <1>1, <1>3, AtClose
<1>5. state \notin CommentStates /\ Place = state
  BY <1>4 DEF AfterValue, CommentStates, Place
<1>6. /\ Handed(dom, FlushedDom, FlushedPrinter)
      /\ type # "none" => Len(stack) > 0
  BY <1>1, <1>5, Flush
<1>7. /\ FlushedDom \in Dom /\ FlushedPrinter \in Printer /\ Len(FlushedDom.stack) = Len(stack)
      /\ FramesRight(FlushedDom) /\ ~FlushedDom.misplaced /\ FlushedPrinter.indentlevel = Len(stack)
      /\ \A i \in 1 .. Len(stack) : FlushedDom.stack[i].object = dom.stack[i].object
      /\ FlushedDom.root = dom.root
  BY <1>3, <1>6 DEF Handed
<1>8. BufferRight' /\ buffer'.offset = 0
  BY <1>1, <1>3, EmptiesKeeps
<1>9. ret' # "done" /\ PopError \notin {"ok", "done"}
  BY <1>2 DEF PopError
<1>10. CASE Len(stack) = 0
  <2>1. dom' = [FlushedDom EXCEPT !.lost = TRUE]
    <3>1. c \notin Open
      BY <1>4 DEF Open, Close
    <3> QED
      BY <1>1, <1>7, <1>10, <3>1, NoneToldIs
  <2>2. /\ dom' \in Dom /\ dom'.stack = FlushedDom.stack /\ dom'.misplaced = FlushedDom.misplaced
        /\ dom'.lost = TRUE
    BY <1>7, <2>1 DEF Dom
  <2>3. dom'.stack = <<>> /\ ~dom'.misplaced
    BY <1>7, <1>10, <2>2, DomHas
  <2>4. printer' \in Printer
    BY <1>1, <1>7, PrintedIs
  <2>5. ret' = "lost" /\ UNCHANGED <<state, type, expecting_key, stack>>
    <3>1. stack = <<>> /\ ~Pops(c)
      BY <1>3, <1>10 DEF Pops
    <3> QED
      BY <2>2, <3>1 DEF act_close, Answer
  <2>6. DataTyped' /\ InStep(dom, printer)'
    BY <1>1, <1>3, <2>2, <2>3, <2>4, <2>5 DEF DataTyped, InStep
  <2> QED
    BY <1>8, <1>9, <2>3, <2>5, <2>6, HandKeeps
<1>11. CASE Len(stack) > 0
  <2> DEFINE n == Len(stack) - 1
  <2>1. HandedBack(FlushedDom, dom', printer', n)
    BY <1>1, <1>4, <1>7, <1>11, CloseHanded
  <2>2. n \in Nat /\ Len(stack) = n + 1
    BY <1>3, <1>11
  <2>3. /\ dom' \in Dom /\ printer' \in Printer /\ Len(dom'.stack) = n
        /\ \A i \in 1 .. n : dom'.stack[i].object = FlushedDom.stack[i].object
        /\ FramesRight(dom') /\ InStep(dom', printer') /\ ~dom'.misplaced
        /\ printer'.indentlevel = n
        /\ n = 0 => dom'.root
        /\ n > 0 => dom'.root = FlushedDom.root /\ dom'.stack[n].key # "set"
    BY <2>1 DEF HandedBack
  <2>4. FramesRight(dom)' /\ InStep(dom, printer)'
    BY <2>3 DEF FramesRight, InStep
  <2>5. Front(stack) \in Seq({"object", "array"}) /\ Len(Front(stack)) = n
        /\ \A i \in 1 .. n : Front(stack)[i] = stack[i]
    BY <1>3, <1>11, FrontLast
  <2> HIDE DEF n
  <2>6. DataTyped'
    <3>1. CASE UNCHANGED <<state, type, expecting_key, stack>>
      BY <1>1, <1>3, <2>3, <3>1 DEF DataTyped
    <3>2. CASE stack' = Front(stack) /\ expecting_key' = (expecting_key /\ c = "RSQRB")
               /\ state' = "OK" /\ type' = "none"
      <4>1. "OK" \in States /\ expecting_key' \in BOOLEAN
        BY <3>2 DEF States, AfterValue
      <4>2. stack' \in Seq({"object", "array"}) /\ Len(stack') <= stack_size'
        BY <1>1, <1>3, <2>2, <2>5, <3>2
      <4> QED
        BY <1>1, <1>3, <2>3, <3>2, <4>1, <4>2 DEF DataTyped
    <3> QED
      BY <1>2, <3>1, <3>2
  <2>7. ASSUME ret' = "ok" PROVE DataKept' /\ TypeKnown' /\ SameStack' /\ PlaceRight'
    <3>1. /\ Pops(c) /\ stack' = Front(stack) /\ expecting_key' = (expecting_key /\ c = "RSQRB")
          /\ state' = "OK" /\ type' = "none"
      BY <1>2, <1>9, <2>7
    <3>2. state' \notin CommentStates /\ Place' = "OK"
      BY <3>1 DEF CommentStates, Place
    <3>3. DataKept' /\ TypeKnown'
      BY <1>8, <3>1, <3>2 DEF DataKept, TypeKnown, Number
    <3>4. Len(stack)' = n /\ SameStack'
      <4>1. Len(stack)' = n
        BY <2>5, <3>1
      <4>2. \A i \in 1 .. n : i \in 1 .. Len(stack)
        BY <2>2
      <4>3. \A i \in 1 .. n : stack'[i] = ModeOf(dom.stack[i])
        BY <1>3, <2>5, <3>1, <4>2 DEF SameStack
      <4>4. \A i \in 1 .. n : dom'.stack[i].object = dom.stack[i].object
        BY <1>7, <2>3, <4>2
      <4>5. \A i \in 1 .. n : stack'[i] = ModeOf(dom'.stack[i])
        BY <4>3, <4>4 DEF ModeOf
      <4> QED
        BY <2>3, <4>1, <4>5 DEF SameStack
    <3>5. ~expecting_key'
      <4> SUFFICES ASSUME expecting_key, c = "RSQRB" PROVE FALSE
        BY <3>1
      <4>1. dom.stack[Len(stack)].object = TRUE
        BY <1>3 DEF PlaceRight, InTop
      <4>2. Last(stack) = "array" /\ Last(stack) = stack[Len(stack)] /\ Len(stack) \in 1 .. Len(stack)
        BY <1>3, <1>11, <3>1 DEF Pops, Mode, Last
      <4>3. stack[Len(stack)] = ModeOf(dom.stack[Len(stack)])
        BY <1>3, <4>2 DEF SameStack
      <4> QED
        BY <4>1, <4>2, <4>3 DEF ModeOf
    <3>6. PlaceRight'
      <4>1. n = 0 => dom'.root = TRUE
        BY <2>3, DomHas
      <4>2. n > 0 => dom'.root = dom.root
        BY <1>7, <2>3
      <4>3. KeyWanted'
        BY <3>1, <3>2 DEF KeyWanted
      <4>4. InTop(TRUE)' => dom'.stack[Len(stack')].key # "set"
        BY <2>3, <3>4 DEF InTop
      <4>5. Len(stack)' = 0 => dom'.root = (Place' # "GO")
        BY <3>2, <3>4, <4>1
      <4> QED
        BY <3>1, <3>2, <3>5, <4>3, <4>4, <4>5 DEF PlaceRight
    <3> QED
      BY <3>3, <3>4, <3>6
  <2> QED
    BY <1>8, <1>9, <2>3, <2>4, <2>6, <2>7, HandKeeps
<1> QED
  BY <1>3, <1>10, <1>11

-----------------------------------------------------------------------------
(* The results                                                             *)

LEMMA JsonStepInv == JsonInv /\ [JsonNext]_jsonVars => JsonInv'
<1> SUFFICES ASSUME JsonInv, [JsonNext]_jsonVars PROVE JsonInv'
  OBVIOUS
<1>1. CASE UNCHANGED jsonVars
  BY <1>1 DEF jsonVars, JsonInv, DataTyped, BufferRight, InStep, Reading, DataKept, TypeKnown, FramesRight,
              SameStack, PlaceRight, Place, InTop, KeyWanted
<1>2. CASE BadChar
  BY <1>2, QuietFailures
<1>3. CASE EndOfFile
  BY <1>3, EndKeeps
<1>4. ASSUME NEW c \in Classes, json_parser_string(c) PROVE JsonInv'
  <2>1. CASE UnexpectedChar(c) \/ DataLimit(c) \/ SurrogateFails(c)
    BY <2>1, QuietFailures
  <2>2. CASE Move(c)
    BY <2>2, MoveKeeps
  <2>3. CASE SetType(c)
    BY <2>3, SetTypeKeeps
  <2>4. CASE act_uc(c)
    BY <2>4, UnicodeKeeps
  <2>5. CASE act_comment(c)
    BY <2>5, CommentKeeps
  <2>6. CASE act_ce(c)
    BY <2>6, CommentEndKeeps
  <2>7. CASE act_open(c)
    BY <2>7, OpenKeeps
  <2>8. CASE act_close(c)
    BY <2>8, CloseKeeps
  <2>9. CASE act_se(c)
    BY <2>9, QuoteKeeps
  <2>10. CASE act_sp(c)
    BY <2>10, CommaKeeps
  <2> QED
    BY <1>4, <2>1, <2>2, <2>3, <2>4, <2>5, <2>6, <2>7, <2>8, <2>9, <2>10 DEF json_parser_string
<1> QED
  BY <1>1, <1>2, <1>3, <1>4 DEF JsonNext, process_file

LEMMA JsonInvRight == JsonInv => JsonRight
<1> SUFFICES ASSUME JsonInv PROVE JsonRight
  OBVIOUS
<1>1. DataTyped /\ BufferRight /\ dom \in Dom /\ ~dom.misplaced /\ InStep(dom, printer)
  BY DEF JsonInv, DataTyped
<1>2. JsonTypeOK
  <2>1. type \in ValueTypes \cup {"none"}
    BY <1>1 DEF DataTyped, ValueTypes
  <2>2. \A i \in DOMAIN dom.stack :
          dom.stack[i] \in [object : BOOLEAN, key : {"none", "set", "freed"}, empty : BOOLEAN]
    BY <1>1, DomHas DEF Frame
  <2> QED
    BY <1>1, <2>1, <2>2 DEF JsonTypeOK, DataTyped, BufferRight
<1>3. TreeMatches
  <2>1. ASSUME ret = "ok"
        PROVE  /\ stack = [i \in DOMAIN dom.stack |-> ModeOf(dom.stack[i])]
               /\ state \in Between \/ (state = "OK" /\ Pending = "none") => buffer.offset = 0
               /\ stack = <<>> /\ state \notin CommentStates => dom.root = (state # "GO")
    <3>1. DataKept /\ SameStack /\ PlaceRight
      BY <2>1, ReadingHas
    <3>2. stack = [i \in DOMAIN dom.stack |-> ModeOf(dom.stack[i])]
      <4>1. DOMAIN dom.stack = 1 .. Len(stack)
        BY <1>1, <3>1, DomHas DEF SameStack
      <4>2. stack = [i \in 1 .. Len(stack) |-> stack[i]]
        BY <1>1 DEF DataTyped
      <4> QED
        BY <3>1, <4>1, <4>2 DEF SameStack
    <3>3. state = "OK" /\ Pending = "none" => type = "none"
      BY <1>1 DEF DataTyped, Pending, ValueTypes
    <3>4. stack = <<>> /\ state \notin CommentStates => dom.root = (state # "GO")
      BY <3>1 DEF PlaceRight, Place
    <3> QED
      BY <3>1, <3>2, <3>3, <3>4 DEF DataKept
  <2>2. ret = "done" /\ state \notin CommentStates => dom.root /\ dom.stack = <<>>
    BY DEF JsonInv
  <2> QED
    BY <1>1, <2>1, <2>2 DEF TreeMatches
<1>4. PrinterInStep
  BY <1>1 DEF PrinterInStep, InStep, Last
<1> QED
  BY <1>2, <1>3, <1>4 DEF JsonRight

(* Whatever text is read, in chunks of any size: what the tree builder and *)
(* the printer have is what the parser has read, and the buffer keeps room *)
(* for the terminator (json.c:936, jsonlint.c:57).                         *)
THEOREM JsonAlwaysRight == JsonSpec => []JsonRight
<1>1. JsonSpec => []JsonInv
  BY JsonInitInv, JsonStepInv, PTL DEF JsonSpec
<1> QED
  BY <1>1, JsonInvRight, PTL

LEMMA CommentStepIs ==
  JsonInv /\ [JsonNext]_jsonVars => (ret' = "ok" /\ state \in CommentStates => CommentStep)
<1> SUFFICES ASSUME JsonInv, JsonNext, ret' = "ok", state \in CommentStates PROVE CommentStep
  <2>1. UNCHANGED jsonVars /\ state \in CommentStates => CommentStep
    BY DEF jsonVars, CommentStep
  <2> QED
    BY <2>1
<1>1. ~BadChar /\ ~EndOfFile
  BY DEF BadChar, EndOfFile, Fails
<1>2. PICK c \in Classes : json_parser_string(c)
  BY <1>1 DEF JsonNext, process_file
<1>3. ret = "ok"
  BY <1>2 DEF json_parser_string, UnexpectedChar, DataLimit, Move, SetType, act_uc, SurrogateFails, act_comment,
              act_ce, act_open, act_close, act_se, act_sp, Reads, Accepts
<1>4. state \in States /\ save_state \in Between \cup AfterValue
  BY <1>3, ReadingHas DEF DataTyped
<1>5. CASE Move(c)
  <2> DEFINE n == NextOf(c)
  <2>1. n \in States /\ state' = n /\ buffer' = Buffered(n) /\ UNCHANGED <<stack, dom, printer>>
    BY <1>5 DEF Move, otherVars, consumers
  <2>2. n # Error /\ n # "CE"
    BY <2>1 DEF Error, States, Between, AfterValue, CommentStates, Unicode
  <2>3. Follows(state, c, n)
    BY <1>4, <2>2, NextIs
  <2> HIDE DEF n
  <2>4. WithinComment(state, c, n)
    BY <2>3 DEF Follows, BetweenTokens, WithinString, WithinNumber, WithinLiteral, Between, AfterValue, CommentStates
  <2>5. n \in CommentStates
    BY <2>2, <2>4 DEF WithinComment, CommentStates
  <2>6. buffer' = buffer
    BY <2>1, <2>5 DEF Buffered, buffer_policy_table, OfNumber, Unicode, CommentStates
  <2> QED
    BY <2>1, <2>5, <2>6 DEF CommentStep
<1>6. CASE act_ce(c)
  <2>1. state' = ResumedAt(save_state) /\ UNCHANGED <<stack, buffer, dom, printer>>
    BY <1>6 DEF act_ce, otherVars, consumers
  <2>2. AfterBlank = ResumedAt(save_state)
    BY <1>4, SpaceIs DEF AfterBlank
  <2> QED
    BY <2>1, <2>2 DEF CommentStep
<1>7. ~UnexpectedChar(c) /\ ~DataLimit(c) /\ ~SurrogateFails(c)
  BY DEF UnexpectedChar, DataLimit, SurrogateFails, Fails
<1>8. state \notin Between \cup AfterValue \cup {"_S", "U4"} \cup Number \cup Literal
  BY DEF Between, AfterValue, CommentStates, Number, Literal
<1>9. ~SetType(c)
  <2> SUFFICES ASSUME SetType(c) PROVE FALSE
    OBVIOUS
  <2>1. NextOf(c) \in DOMAIN SetsType
    BY DEF SetType
  <2>2. NextOf(c) \in {"MX", "ZX", "IX", "DE", "DF", "NU", "FA", "TR", "KS"}
    BY <2>1 DEF SetsType
  <2> QED
    BY <1>4, <1>8, <2>1, <2>2, AtSetType DEF Between
<1>10. ~act_uc(c)
  BY <1>4, <1>8, AtFourth DEF act_uc
<1>11. ~act_comment(c)
  BY <1>4, <1>8, AtComment DEF act_comment, Reads
<1>12. ~act_open(c)
  <2>1. {"GO", "_V", "_A"} \subseteq Between
    BY DEF Between
  <2> QED
    BY <1>4, <1>8, <2>1, AtOpen DEF act_open, Reads
<1>13. ~act_close(c)
  <2>1. {"_O", "_A"} \subseteq Between
    BY DEF Between
  <2> QED
    BY <1>4, <1>8, <2>1, AtClose DEF act_close, Reads
<1>14. ~act_se(c) /\ ~act_sp(c)
  BY <1>4, <1>8, AtQuote, AtComma DEF act_se, act_sp, Reads
<1> QED
  BY <1>2, <1>5, <1>6, <1>7, <1>9, <1>10, <1>11, <1>12, <1>13, <1>14 DEF json_parser_string

(* A comment is a blank, wherever it stands (json.c:483).                  *)
THEOREM CommentsAreNothing == JsonSpec => CommentsAreBlank
<1>1. JsonSpec => []JsonInv
  BY JsonInitInv, JsonStepInv, PTL DEF JsonSpec
<1> QED
  BY <1>1, CommentStepIs, PTL DEF JsonSpec, CommentsAreBlank
=============================================================================
