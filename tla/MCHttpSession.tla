---------------------------- MODULE MCHttpSession ----------------------------
(* TLC instances of HttpSession: what the client sends.                    *)
EXTENDS HttpSession

(* One request in one piece.                                               *)
Single == {<<"page">>, <<"file">>}

(* Requests of every kind, in parts, and several in a row.                 *)
Mixed == Single \cup
         {<<"part", "file", "page">>, <<"file", "file">>, <<"post", "part", "page">>,
          <<"bad", "page", "file">>, <<"part", "part", "unknown">>,
          <<"page", "part", "file", "page">>}
=============================================================================
