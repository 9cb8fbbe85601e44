--------------------------- MODULE MCHitsRanking ----------------------------
(* TLC instances of HitsRanking: the trees have what OXEYE's files have,   *)
(* and what read_tree passes over.                                         *)
EXTENDS HitsRanking, TLC

Object(members) == [type |-> "object", elems |-> members]
Array(values) == [type |-> "array", elems |-> values]
Text(n) == [type |-> "string", num |-> n]
Int1(n) == [type |-> "int", num |-> n]
True == [type |-> "true"]

Played(id, n) == Object(<<<<id, n>>>>)
Area(name, played) == Object(<<<<name, Array(played)>>>>)
File(periods) == Object(<<<<"result", Text(0)>>, <<"data", Array(periods)>>>>)

(* Both platforms, an area under two names, a list in two parts.           *)
Full == File(<<Object(<<
  <<"time", Text(7)>>,
  <<"PC", Array(<<Area("1", <<Played("h1", Int1(2)), Played("h2", Text(1))>>),
                  Area("01", <<Played("h1", Int1(1))>>)>>)>>,
  <<"MOBILE", Array(<<Area("1", <<Played("h2", Int1(2))>>),
                      Area("2", <<Played("h1", Int1(1))>>)>>)>>,
  <<"PC", Array(<<Area("2", <<Played("h1", Int1(1))>>)>>)>>
  >>)>>)

(* The time last, ids that are none, counts that are none, an empty list.  *)
Odd == File(<<
  Object(<<<<"MOBILE", Array(<<Area("2", <<Played("h1", Int1(3)), Played("short", Int1(4)),
                                           Played("h2", True), Played("h2", Int1(0))>>),
                               Area("1", <<>>)>>)>>>>),
  Object(<<<<"TV", Array(<<Area("1", <<Played("h1", Int1(9))>>)>>)>>, <<"time", Text(8)>>>>)>>)

(* No time: not merged.                                                    *)
Untimed == File(<<Object(<<<<"PC", Array(<<Area("1", <<Played("h1", Int1(5))>>)>>)>>>>)>>)

MCTreeLists == {<<Odd, Full>>, <<Untimed, Odd>>}
MCKeyOrder == <<<<"h1", 1>>, <<"h1", 2>>, <<"h2", 1>>, <<"h2", 2>>>>
MCatoi == "1" :> 1 @@ "01" :> 1 @@ "2" :> 2
MCSymmetry == Permutations(Readers)
=============================================================================
