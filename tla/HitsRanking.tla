---------------------------- MODULE HitsRanking -----------------------------
(***************************************************************************)
(* From the JSON tree of an interval to the answer of a get_hottest        *)
(* request.  thread_job reads the trees into lists (jsonlint.c: read_tree),*)
(* adds the lists up by hash id and area and ranks the sums (main.cpp:     *)
(* do_memo); the task threads write the best of the ranking into a file,   *)
(* one file for each N (hits_get_hottest), and send that file piece by     *)
(* piece (HTTPSession.cpp: ResponseFileContent, ReadFileContent).  No lock *)
(* is taken by any of them, although do_memo names the place of one.       *)
(*                                                                         *)
(* Which slots of the ring are merged is HitsRing's subject: here they are *)
(* the trees that do_memo is given.  A file is a head, a unit for each     *)
(* record and a foot, and a piece is a unit.                               *)
(***************************************************************************)
EXTENDS Integers, Sequences, FiniteSets, SequencesExt, FiniteSetsExt

CONSTANTS
  TreeLists,   \* the trees that one do_memo may merge: a set of sequences
  KeyOrder,    \* the keys of records, <<hash_id, area_id>>, in the map's order
  ValidIds,    \* the hash ids that are 32 or 40 characters long
  atoi,        \* the area of each key of an area object
  Readers,     \* the sessions that answer get_hottest
  Nums,        \* what they ask for
  MaxMemos     \* bound on the runs of do_memo

ASSUME RankingAssumption ==
  /\ KeyOrder \in Seq(ToSet(KeyOrder)) /\ IsInjective(KeyOrder)
  /\ ToSet(KeyOrder) \subseteq STRING \X Int
  /\ MaxMemos \in Nat
  /\ Nums \subseteq Int

VARIABLES
  g_hits_memo,  \* the sums: a function from keys to [pc, mobile]
  g_hits_sort,  \* the ranking, lowest first: a sequence of [total, key]
  memoPc,       \* of do_memo: "idle", "clear" or "sort"
  toSort,       \* the keys of the records it has still to insert
  trees,        \* history: what the last do_memo merged
  memos,        \* history: how often do_memo ran
  files,        \* per N the units of its file
  session       \* per reader its state: see SessionInit

memoVars == <<g_hits_memo, g_hits_sort, memoPc, toSort, trees, memos>>
vars == <<memoVars, files, session>>

-----------------------------------------------------------------------------
(* read_tree: from a JSON value to lists.  A value is [type, elems], with  *)
(* <<key, value>> pairs in an object, or [type, num] with what atol or     *)
(* time_from_string makes of the text.                                     *)

EmptyStat == [start_time |-> 0, pc_list |-> <<>>, mobile_list |-> <<>>]
NoArea == [area_id |-> 0, hashid_list |-> <<>>]
NoName == ""
NoHits == [hash_id |-> NoName, hits_num |-> 0]

(* What is in a value of the type that is looked for; others are passed over. *)
Elems(v, type) == IF v.type = type THEN v.elems ELSE <<>>

read_tree_playnum(h, v) ==
  IF v.type \in {"string", "int"} THEN [h EXCEPT !.hits_num = v.num] ELSE h

read_tree_hashid(h, v) ==
  FoldLeft(LAMBDA a, e : read_tree_playnum([a EXCEPT !.hash_id = e[1]], e[2]),
           h, Elems(v, "object"))

hashid_stat_valid(h) == h.hash_id \in ValidIds /\ h.hits_num > 0

(* What is not valid is left out.                                          *)
WithHit(a, h) ==
  IF hashid_stat_valid(h) THEN [a EXCEPT !.hashid_list = Append(@, h)] ELSE a
read_tree_hashids(a, v) ==
  FoldLeft(LAMBDA b, e : WithHit(b, read_tree_hashid(NoHits, e)), a, Elems(v, "array"))

(* An area object with several keys puts all of it into the last area.     *)
read_tree_area(a, v) ==
  FoldLeft(LAMBDA b, e : read_tree_hashids([b EXCEPT !.area_id = atoi[e[1]]], e[2]),
           a, Elems(v, "object"))

read_tree_platform(list, v) ==
  LET areas == Elems(v, "array") IN list \o [i \in DOMAIN areas |-> read_tree_area(NoArea, areas[i])]

read_tree_time(stat, v) ==
  IF v.type = "string" THEN [stat EXCEPT !.start_time = v.num] ELSE stat

MobileReplaces(stat, key, v) ==                      \* wrong: the last list counts
  CASE key = "time" -> read_tree_time(stat, v)
    [] key = "PC" -> [stat EXCEPT !.pc_list = read_tree_platform(<<>>, v)]
    [] key = "MOBILE" -> [stat EXCEPT !.mobile_list = read_tree_platform(<<>>, v)]
    [] OTHER -> stat
read_tree_member(stat, key, v) ==
  CASE key = "time" -> read_tree_time(stat, v)
    [] key = "PC" -> [stat EXCEPT !.pc_list = read_tree_platform(@, v)]
    [] key = "MOBILE" -> [stat EXCEPT !.mobile_list = read_tree_platform(@, v)]
    [] OTHER -> stat

read_tree_data_array0(stat, v) ==
  FoldLeft(LAMBDA s, e : read_tree_member(s, e[1], e[2]), stat, Elems(v, "object"))

read_tree_data(stat, v) ==
  FoldLeft(LAMBDA s, e : read_tree_data_array0(s, e), stat, Elems(v, "array"))

read_tree_root(stat, v) ==
  FoldLeft(LAMBDA s, e : IF e[1] = "data" THEN read_tree_data(s, e[2]) ELSE s,
           stat, Elems(v, "object"))

-----------------------------------------------------------------------------
(* hits_records_merge: each hit of a list is added to its record, which is *)
(* made when the key is new.                                               *)
NewRecord == [pc |-> 0, mobile |-> 0]
RecordOf(records, key) == IF key \in DOMAIN records THEN records[key] ELSE NewRecord
WithRecord(records, key, r) ==
  [k \in DOMAIN records \cup {key} |-> IF k = key THEN r ELSE records[k]]

Plus(r, platform, num) ==
  IF platform = "PC" THEN [r EXCEPT !.pc = @ + num] ELSE [r EXCEPT !.mobile = @ + num]
AddHit(records, platform, key, num) ==
  WithRecord(records, key, Plus(RecordOf(records, key), platform, num))

MergeArea(records, platform, area) ==
  FoldLeft(LAMBDA r, h : AddHit(r, platform, <<h.hash_id, area.area_id>>, h.hits_num),
           records, area.hashid_list)
MergeList(records, platform, list) ==
  FoldLeft(LAMBDA r, area : MergeArea(r, platform, area), records, list)
hits_records_merge(records, stat) ==
  MergeList(MergeList(records, "PC", stat.pc_list), "MOBILE", stat.mobile_list)

NoRecords == [k \in {} |-> NewRecord]
MergeStat(records, stat) ==
  IF stat.start_time > 0 THEN hits_records_merge(records, stat) ELSE records

-----------------------------------------------------------------------------
SessionInit ==
  [pc |-> "idle", num |-> 0, return_num |-> 0, iter |-> 0, printed |-> <<>>,
   sent |-> <<>>, memo |-> NoRecords, rebuilt |-> FALSE, mixed |-> FALSE]
  \* iter:    the place in the ranking of the last record printed, 0 before
  \* memo:    history: the records when the size of the ranking was read
  \* rebuilt: history: do_memo was at work between then and the end of the loop
  \* mixed:   history: another session wrote the file before it was sent

Init ==
  /\ g_hits_memo = NoRecords /\ g_hits_sort = <<>>
  /\ memoPc = "idle" /\ toSort = {}
  /\ trees = <<>> /\ memos = 0
  /\ files = [n \in Nums |-> <<>>]
  /\ session = [r \in Readers |-> SessionInit]

(* The ranking changes: in the midst of the loop of a session, whose       *)
(* iterator then leads nowhere, or after the session read the size.        *)
Disturb == session' = [r \in Readers |->
  [session[r] EXCEPT !.rebuilt = @ \/ session[r].pc = "print"]]

(* do_memo: the records are cleared and merged ...                         *)
Merged(ts) ==
  FoldLeft(LAMBDA r, v : MergeStat(r, read_tree_root(EmptyStat, v)), NoRecords, ts)

(* The form of what OXEYE gives (hu.json), as far as it is read: an area   *)
(* object has one area, a hash object one hash id, a time is after 1970.   *)
Each(v, type, Is(_)) ==
  LET s == Elems(v, type) IN s \in Seq(ToSet(s)) /\ \A i \in DOMAIN s : Is(s[i])
IsPlaynum(v) == v.type \in {"string", "int"} => v.num \in Int
IsHashid(v) ==
  /\ Each(v, "object", LAMBDA e : e[1] \in STRING /\ IsPlaynum(e[2]))
  /\ Len(Elems(v, "object")) <= 1
IsArea(v) ==
  /\ Each(v, "object", LAMBDA e : atoi[e[1]] \in Int /\ Each(e[2], "array", IsHashid))
  /\ Len(Elems(v, "object")) <= 1
IsPeriod(v) == Each(v, "object", LAMBDA e :
  /\ e[1] = "time" /\ e[2].type = "string" => e[2].num \in Nat \ {0}
  /\ e[1] \in {"PC", "MOBILE"} => Each(e[2], "array", IsArea))
IsTree(v) == Each(v, "object", LAMBDA e : e[1] = "data" => Each(e[2], "array", IsPeriod))
ASSUME TreesAssumption ==
  \A ts \in TreeLists : ts \in Seq(ToSet(ts)) /\ \A i \in DOMAIN ts : IsTree(ts[i])

(* What the type of g_hits_memo says, a map to records of numbers.         *)
IsMap(records) ==
  DOMAIN records \subseteq ToSet(KeyOrder) /\ records \in [DOMAIN records -> [pc : Int, mobile : Int]]
ASSUME MergedAssumption == \A ts \in TreeLists : IsMap(Merged(ts))

Merge ==
  /\ memoPc = "idle" /\ memos < MaxMemos
  /\ \E ts \in TreeLists : trees' = ts /\ g_hits_memo' = Merged(ts)
  /\ memos' = memos + 1
  /\ memoPc' = "clear"
  /\ UNCHANGED <<g_hits_sort, toSort, files, session>>

(* ... and then the ranking is cleared and filled, in the map's order.     *)
ClearSort ==
  /\ memoPc = "clear"
  /\ g_hits_sort' = <<>>
  /\ toSort' = DOMAIN g_hits_memo
  /\ memoPc' = "sort"
  /\ Disturb
  /\ UNCHANGED <<g_hits_memo, trees, memos, files>>

(* multimap::insert: behind all that are not greater.                      *)
Total(rec) == rec.mobile + rec.pc
UpperBound(sorted, total) == CHOOSE p \in 1 .. Len(sorted) + 1 :
  \A i \in DOMAIN sorted : sorted[i].total <= total <=> i < p
Inserted(sorted, e) == InsertAt(sorted, UpperBound(sorted, e.total), e)

(* The least of the keys in the map's order.                               *)
IsNext(k) ==
  \E i \in DOMAIN KeyOrder :
    k = KeyOrder[i] /\ k \in toSort /\ \A j \in 1 .. i - 1 : KeyOrder[j] \notin toSort

hits_records_sort ==
  /\ memoPc = "sort"
  /\ \E k \in toSort :
       /\ IsNext(k)
       /\ g_hits_sort' = Inserted(g_hits_sort, [total |-> Total(g_hits_memo[k]), key |-> k])
       /\ toSort' = toSort \ {k}
  /\ Disturb
  /\ UNCHANGED <<g_hits_memo, memoPc, trees, memos, files>>

MemoDone ==
  /\ memoPc = "sort" /\ toSort = {}
  /\ memoPc' = "idle"
  /\ UNCHANGED <<g_hits_memo, g_hits_sort, toSort, trees, memos, files, session>>

-----------------------------------------------------------------------------
(* hits_get_hottest(num), by one session.                                  *)

(* fopen("wb") empties the file, also under those who are sending it.      *)
Emptied(r, n) == [q \in Readers |->
  [session[q] EXCEPT !.mixed = @ \/ (q # r /\ session[q].num = n)]]

ReturnNum(n) == IF Len(g_hits_sort) < n THEN Len(g_hits_sort) ELSE n

OpenFile(r, n) ==
  /\ session[r].pc = "idle"
  /\ files' = [files EXCEPT ![n] = <<>>]
  /\ session' = [Emptied(r, n) EXCEPT ![r] =
       [SessionInit EXCEPT !.pc = "size", !.num = n,
          !.mixed = \E q \in Readers \ {r} :
             session[q].pc \in {"size", "print", "close"} /\ session[q].num = n]]
  /\ UNCHANGED memoVars

ReadSize(r) ==
  /\ session[r].pc = "size"
  /\ session' = [session EXCEPT ![r].pc = "print",
       ![r].return_num = ReturnNum(session[r].num),
       ![r].memo = g_hits_memo, ![r].rebuilt = memoPc # "idle"]
  /\ UNCHANGED <<memoVars, files>>

(* One round of the loop: the ranking from its end, until return_num       *)
(* records are printed.                                                    *)
Record(rank) == LET e == g_hits_sort[Len(g_hits_sort) + 1 - rank] IN <<"record", e.key, e.total>>
OneMore(s) == s.iter + 1 > s.return_num              \* wrong: one record too many
Enough(s) == s.iter + 1 >= s.return_num

PrintRecord(r) ==
  LET s == session[r] IN
  /\ s.pc = "print"
  /\ s.iter < Len(g_hits_sort)
  /\ session' = [session EXCEPT ![r].iter = @ + 1,
       ![r].printed = Append(@, Record(s.iter + 1)),
       ![r].pc = IF Enough(s) THEN "close" ELSE "print"]
  /\ UNCHANGED <<memoVars, files>>

PrintedAll(r) ==
  /\ session[r].pc = "print"
  /\ session[r].iter >= Len(g_hits_sort)
  /\ session' = [session EXCEPT ![r].pc = "close"]
  /\ UNCHANGED <<memoVars, files>>

(* fclose: what was printed goes over what is in the file by now.          *)
Written(s) == <<<<"head", s.num, s.return_num>>>> \o s.printed \o <<<<"foot">>>>
Over(new, old) == new \o SubSeq(old, Len(new) + 1, Len(old))

(* The session then opens the file to send it.                             *)
CloseFile(r) ==
  LET s == session[r] IN
  /\ s.pc = "close"
  /\ files' = [files EXCEPT ![s.num] = Over(Written(s), @)]
  /\ session' = [session EXCEPT ![r].pc = "send", ![r].iter = 0,
                                ![r].return_num = 0, ![r].printed = <<>>]
  /\ UNCHANGED memoVars

(* ReadFileContent: the next piece of the file as it is now.               *)
SendPiece(r) ==
  LET s == session[r]
      next == Len(s.sent) + 1 IN
  /\ s.pc = "send"
  /\ session' = [session EXCEPT ![r] =
       IF next \in DOMAIN files[s.num]
       THEN [s EXCEPT !.sent = Append(@, files[s.num][next])]
       ELSE [s EXCEPT !.pc = "sent"]]
  /\ UNCHANGED <<memoVars, files>>

(* The answer is out; the connection may bring another request.            *)
NextRequest(r) ==
  /\ session[r].pc = "sent"
  /\ session' = [session EXCEPT ![r] = SessionInit]
  /\ UNCHANGED <<memoVars, files>>

Reader(r) ==
  \/ \E n \in Nums : OpenFile(r, n)
  \/ ReadSize(r) \/ PrintRecord(r) \/ PrintedAll(r) \/ CloseFile(r) \/ SendPiece(r) \/ NextRequest(r)

do_memo == Merge \/ ClearSort \/ hits_records_sort \/ MemoDone

Next == do_memo \/ \E r \in Readers : Reader(r)

Spec == Init /\ [][Next]_vars

-----------------------------------------------------------------------------
TypeOK ==
  /\ DOMAIN g_hits_memo \subseteq ToSet(KeyOrder)
  /\ \A k \in DOMAIN g_hits_memo : g_hits_memo[k] \in [pc : Nat, mobile : Nat]
  /\ g_hits_sort \in Seq([total : Nat \ {0}, key : ToSet(KeyOrder)])
  /\ memoPc \in {"idle", "clear", "sort"} /\ memos \in 0 .. MaxMemos
  /\ toSort \subseteq ToSet(KeyOrder)
  /\ DOMAIN files = Nums
  /\ \A r \in Readers :
       /\ session[r].pc \in {"idle", "size", "print", "close", "send", "sent"}
       /\ session[r].iter = Len(session[r].printed)
       /\ session[r].iter <= Cardinality(ToSet(KeyOrder))

(* What the trees mean: every hit below data, a platform, an area and a    *)
(* hash id that was played at all.                                         *)
SumOf(f) == FoldLeft(LAMBDA sum, x : sum + x, 0, f)
SumOver(s, Of(_)) == SumOf([i \in DOMAIN s |-> Of(s[i])])
Playnum(v) == IF v.type \in {"string", "int"} /\ v.num > 0 THEN v.num ELSE 0

InHashid(v, id) ==
  SumOver(Elems(v, "object"), LAMBDA e : IF e[1] = id THEN Playnum(e[2]) ELSE 0)
InHashids(v, id) == SumOver(Elems(v, "array"), LAMBDA h : InHashid(h, id))
InArea(v, key) ==
  SumOver(Elems(v, "object"), LAMBDA e : IF atoi[e[1]] = key[2] THEN InHashids(e[2], key[1]) ELSE 0)
InPlatform(v, key) == SumOver(Elems(v, "array"), LAMBDA area : InArea(area, key))
InPeriod(v, platform, key) ==
  SumOver(Elems(v, "object"), LAMBDA e : IF e[1] = platform THEN InPlatform(e[2], key) ELSE 0)
InData(v, platform, key) == SumOver(Elems(v, "array"), LAMBDA p : InPeriod(p, platform, key))
InTree(v, platform, key) ==
  SumOver(Elems(v, "object"), LAMBDA e : IF e[1] = "data" THEN InData(e[2], platform, key) ELSE 0)

(* A tree without a time is not merged.                                    *)
Some(v, type, Is(_)) == LET s == Elems(v, type) IN \E i \in DOMAIN s : Is(s[i])
HasTime(v) == Some(v, "object", LAMBDA e : e[1] = "time" /\ e[2].type = "string")
IsTimed(v) == Some(v, "object", LAMBDA e : e[1] = "data" /\ Some(e[2], "array", HasTime))
SumMeant(ts, platform, key) ==
  SumOver(ts, LAMBDA v : IF IsTimed(v) THEN InTree(v, platform, key) ELSE 0)

(* In states of the right types: the records are the sums of what the      *)
(* trees say, by hash id and area and apart for the two platforms, over    *)
(* all lists and intervals, whatever the order of their members; a hash id *)
(* has a record exactly if it was played and is one.                       *)
SumsRight ==
  \A k \in ToSet(KeyOrder) :
    LET sums == [pc |-> SumMeant(trees, "PC", k), mobile |-> SumMeant(trees, "MOBILE", k)] IN
    /\ k \in DOMAIN g_hits_memo <=> k[1] \in ValidIds /\ sums # NewRecord
    /\ k \in DOMAIN g_hits_memo => g_hits_memo[k] = sums
MemoIsSum == TypeOK /\ (memoPc = "clear" => SumsRight)

(* The records of a file, from the best.                                   *)
IsRanking(recs, memo, n) ==
  LET total == [k \in DOMAIN memo |-> memo[k].pc + memo[k].mobile]
      keys  == {recs[i][2] : i \in DOMAIN recs} IN
  /\ Len(recs) = Cardinality(keys) /\ keys \subseteq DOMAIN memo
  /\ Len(recs) = IF Cardinality(DOMAIN memo) < n THEN Cardinality(DOMAIN memo) ELSE n
  /\ \A i \in DOMAIN recs : recs[i][3] = total[recs[i][2]]
  /\ \A i, j \in DOMAIN recs : i < j => recs[i][3] >= recs[j][3]
  /\ \A k \in DOMAIN memo \ keys, i \in DOMAIN recs : total[k] <= recs[i][3]

(* A session that asks for the best num is sent them, whole, in order and  *)
(* as many as the head of the file says, although rankings are rebuilt and *)
(* other sessions answered between any two steps, provided that do_memo    *)
(* stood still during the loop and nobody else asked for the same num.     *)
RankingServed ==
  \A r \in Readers :
    LET s == session[r]
        n == Len(s.sent) IN
    s.pc = "sent" /\ s.num > 0 /\ ~s.rebuilt /\ ~s.mixed =>
      /\ n > 1 /\ s.sent[n] = <<"foot">>
      /\ s.sent[1] = <<"head", s.num, n - 2>>
      /\ IsRanking(SubSeq(s.sent, 2, n - 1), s.memo, s.num)
=============================================================================
