------------------------------ MODULE Parsers ------------------------------
(***************************************************************************)
(* What takes apart the bytes that come from outside: the requests of      *)
(* clients, the statistics that were downloaded, and the string parser.    *)
(* None of them waits for another, so a behaviour exercises one of them,   *)
(* and the others rest.                                                    *)
(***************************************************************************)
EXTENDS JsonParser, StringParser, HttpParse

VARIABLE part

ASSUME ParsersAssumption == RequestAssumption

(* A part that rests does so in any one of its first states.               *)
ParsersInit ==
  /\ part \in {"requests", "json", "strings"}
  /\ RequestsInit /\ (part = "requests" \/ stream = <<CHOOSE r \in Requests : TRUE>>)
  /\ JsonInit /\ (part = "json" \/ config = CHOOSE c \in Configs : TRUE)
  /\ IF part = "strings" THEN ParserInit ELSE OverNoString

ParsersNext ==
  \/ part = "requests" /\ RequestsNext /\ UNCHANGED <<part, jsonVars, parserVars>>
  \/ part = "json" /\ JsonNext /\ UNCHANGED <<part, requestVars, parserVars>>
  \/ part = "strings" /\ ParserNext /\ UNCHANGED <<part, requestVars, jsonVars>>

ParsersSpec == ParsersInit /\ [][ParsersNext]_<<part, requestVars, jsonVars, parserVars>>

-----------------------------------------------------------------------------
(* What each part promises is said in its own module: AsMeant and            *)
(* AnsweredWhenWhole of the requests, JsonRight and CommentsAreBlank of the  *)
(* documents, LinesRight and SearchRight of the parser's lines and finds.    *)
=============================================================================
