----------------------------- MODULE MCParsers -----------------------------
(* TLC instance of Parsers: requests of every kind; the configuration of   *)
(* json_parse and one with every limit that jsonlint.c has an option for;  *)
(* short texts.                                                            *)
EXTENDS Parsers

(* A request for a URI, with one header, and with another line or another  *)
(* end of line.                                                            *)
Get(uri, eol) == [method |-> "GET", scheme |-> <<>>, uri |-> uri, version |-> <<"HTTP/1.1">>,
                  headers |-> 1, eol |-> eol]
Cmd == <<"/", "?", "cmd", "=">>
ManyRequests ==
  {Get(<<>>, <<CR, LF>>), Get(<<"/">>, <<CR, LF>>), Get(<<"/", "page">>, <<CR>>),
   Get(<<"/", "gone">>, <<LF>>),
   Get(Cmd \o <<"get_coldest">>, <<LF>>), Get(Cmd \o <<"get_hottest">>, <<CR, LF>>),
   Get(Cmd \o <<"get_hottest", "&", "N", "=", "5">>, <<CR>>),
   Get(<<"/", "?", "N", "=", "7", "&", "cmd", "=", "get_hottest", "&", "N", "=", "5">>, <<CR, LF>>),
   [Get(<<"/">>, <<CR, LF>>) EXCEPT !.headers = 0], [Get(<<"/">>, <<LF>>) EXCEPT !.method = "POST"],
   [Get(<<"/">>, <<CR>>) EXCEPT !.version = <<>>],
   [Get(<<"/">>, <<LF>>) EXCEPT !.version = <<"word">>],
   [Get(<<"/", "page">>, <<CR, LF>>) EXCEPT !.scheme = <<"http://", "host">>],
   [Get(<<>>, <<CR>>) EXCEPT !.version = <<>>, !.headers = 0],
   [Get(<<>>, <<LF>>) EXCEPT !.version = Cmd \o <<"get_coldest">>],
   [Get(<<"/">>, <<CR, LF>>) EXCEPT !.version = <<>>, !.headers = 0]}
Page == {<<"/", "page">>}

Program ==
  [max_nesting |-> 0, max_data |-> 0, buffer_size |-> 2,
   allow_c_comments |-> TRUE, allow_yaml_comments |-> TRUE]
Limited ==
  [max_nesting |-> 1, max_data |-> 3, buffer_size |-> 2,
   allow_c_comments |-> TRUE, allow_yaml_comments |-> FALSE]
MCConfigs == {Program, Limited}

Alphabet == {0, 10, 13, 32, 34, 46, 49, 58, 65, 97}
LineText == {10, 13, 65}
ShortTexts == UNION {[1 .. n -> Alphabet] : n \in 0 .. 2}
              \cup [1 .. 3 -> LineText] \cup [1 .. 4 -> {10, 13}]
SomeQueries == {<<>>, <<65>>, <<97, 49>>, <<32, 97>>}
=============================================================================
