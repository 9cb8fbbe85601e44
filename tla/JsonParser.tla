----------------------------- MODULE JsonParser -----------------------------
(***************************************************************************)
(* The JSON parser of json.c, reading one character after the other, and   *)
(* the two consumers its callback is used with: the tree builder           *)
(* (json_parser_dom_callback, on which jsonlint.c builds what do_tree      *)
(* returns) and the printer (json_print_mode).                             *)
(*                                                                         *)
(* A character is its class, so the documents are all the sequences of     *)
(* classes; they may come in chunks of any size, as the parser keeps all   *)
(* it knows between two characters.  The buffer is its length; the         *)
(* code point that four hexadecimal digits make is one of five kinds.      *)
(* malloc is taken to succeed.                                             *)
(***************************************************************************)
EXTENDS Integers, Sequences, SequencesExt

CONSTANTS
  Configs,                     \* the json_config a parser may be given
  LIBJSON_DEFAULT_STACK_SIZE,  \* modes the stack has room for at first
  DomStackSize,                \* structures the tree builder has room for at first
  MaxDepth,                    \* bound on the nesting of a document
  MaxData                      \* bound on the length of a string or number

(* The bytes of a struct stack_elem: two pointers and a length.            *)
ElemSize == 24

ASSUME SizeAssumption ==
  /\ LIBJSON_DEFAULT_STACK_SIZE \in Nat \ {0}
  /\ DomStackSize \in Nat \ {0}
  /\ MaxDepth \in Nat /\ MaxData \in Nat
  /\ \A c \in Configs :
       /\ c.max_nesting \in Nat /\ c.max_data \in Nat /\ c.buffer_size \in Nat \ {0}
       /\ c.max_data > 0 => c.buffer_size <= c.max_data
       /\ c.allow_c_comments \in BOOLEAN /\ c.allow_yaml_comments \in BOOLEAN

VARIABLES
  config,         \* what the parser was given
  state,          \* where in the grammar it is
  save_state,     \* where it was before the comment it is in
  expecting_key,  \* whether the next string is a key
  type,           \* the value that was read and not handed on yet
  unicode_multi,  \* whether the first half of a surrogate pair was read
  stack,          \* the structures that are open: "array" or "object"
  stack_size,     \* how many of them there is room for
  buffer,         \* the data of the value being read: its offset and size
  ret,            \* "ok", an error, or how the file was judged at its end
  dom,            \* the tree builder: see DomInit
  printer         \* the printer's flags

jsonVars == <<config, state, save_state, expecting_key, type, unicode_multi,
              stack, stack_size, buffer, ret, dom, printer>>

-----------------------------------------------------------------------------
(* Characters and states                                                   *)

Blank   == {"SPACE", "NL", "WHITE"}
Digit   == {"ZERO", "DIGIT"}
Hex     == Digit \cup {"a", "b", "c", "d", "e", "f", "ABCDF", "E"}
Symbols == {"LCURB", "RCURB", "LSQRB", "RSQRB", "COLON", "COMMA", "QUOTE", "BACKS",
            "SLASH", "PLUS", "MINUS", "DOT", "STAR", "HASH"}
Classes == Blank \cup Hex \cup Symbols \cup {"l", "n", "r", "s", "t", "u", "OTHER"}

(* Between two tokens, before a value; and where a value may just be over. *)
Between == {"GO", "_O", "_K", "CO", "_V", "_A"}
AfterValue == {"OK", "Z0", "I0", "R2", "X3"}
CommentStates == {"C1", "C2", "C3", "Y1"}
Unicode == {"U1", "U2", "U3", "U4"}
States ==
  Between \cup AfterValue \cup CommentStates \cup Unicode
  \cup {"_S", "E0", "M0", "R1", "X1", "X2", "D1", "D2"}
  \cup {"T1", "T2", "T3", "F1", "F2", "F3", "F4", "N1", "N2", "N3"}

(* What starts a value in a _V or an _A.                                   *)
StartsValue ==
  {<<"LCURB", "OB">>, <<"LSQRB", "AB">>, <<"QUOTE", "_S">>, <<"MINUS", "MX">>,
   <<"ZERO", "ZX">>, <<"DIGIT", "IX">>, <<"f", "F1">>, <<"n", "N1">>, <<"t", "T1">>}

(* One rule of the table: from these states, with these characters, to     *)
(* that state or action.                                                   *)
Rules ==
       {<<{s}, Blank, s>> : s \in Between}
  \cup {<<{"_V", "_A"}, {r[1]}, r[2]>> : r \in StartsValue}
  \cup {<<AfterValue, Blank, "OK">>, <<AfterValue, {"RCURB"}, "OE">>,
        <<AfterValue, {"RSQRB"}, "AE">>, <<AfterValue, {"COMMA"}, "SP">>,
        <<(Between \cup AfterValue) \ {"X3"}, {"SLASH"}, "CB">>,
        <<(Between \cup AfterValue) \ {"X3"}, {"HASH"}, "YB">>,
        <<{"GO"}, {"LCURB"}, "OB">>, <<{"GO"}, {"LSQRB"}, "AB">>,
        <<{"_O"}, {"RCURB"}, "OE">>, <<{"_A"}, {"RSQRB"}, "AE">>,
        <<{"_O", "_K"}, {"QUOTE"}, "_S">>, <<{"CO"}, {"COLON"}, "KS">>}
  \cup {<<{"_S"}, Classes \ {"NL", "WHITE", "QUOTE", "BACKS"}, "_S">>,
        <<{"_S"}, {"QUOTE"}, "SE">>, <<{"_S"}, {"BACKS"}, "E0">>,
        <<{"E0"}, {"QUOTE", "BACKS", "SLASH", "b", "f", "n", "r", "t"}, "_S">>,
        <<{"E0"}, {"u"}, "U1">>, <<{"U1"}, Hex, "U2">>, <<{"U2"}, Hex, "U3">>,
        <<{"U3"}, Hex, "U4">>, <<{"U4"}, Hex, "UC">>,
        <<{"D1"}, {"BACKS"}, "D2">>, <<{"D2"}, {"u"}, "U1">>}
  \cup {<<{"M0"}, {"ZERO"}, "Z0">>, <<{"M0"}, {"DIGIT"}, "I0">>, <<{"I0"}, Digit, "I0">>,
        <<{"Z0", "I0"}, {"DOT"}, "DF">>, <<{"I0"}, {"e", "E"}, "DE">>,
        <<{"R1", "R2"}, Digit, "R2">>, <<{"R2"}, {"e", "E"}, "X1">>,
        <<{"X1"}, {"PLUS", "MINUS"}, "X2">>, <<{"X1", "X2", "X3"}, Digit, "X3">>}
  \cup {<<{"T1"}, {"r"}, "T2">>, <<{"T2"}, {"u"}, "T3">>, <<{"T3"}, {"e"}, "TR">>,
        <<{"F1"}, {"a"}, "F2">>, <<{"F2"}, {"l"}, "F3">>, <<{"F3"}, {"s"}, "F4">>,
        <<{"F4"}, {"e"}, "FA">>,
        <<{"N1"}, {"u"}, "N2">>, <<{"N2"}, {"l"}, "N3">>, <<{"N3"}, {"l"}, "NU">>}
  \cup {<<{"C1"}, {"STAR"}, "C2">>, <<{"C2"}, Classes \ {"STAR"}, "C2">>,
        <<{"C2", "C3"}, {"STAR"}, "C3">>, <<{"C3"}, Classes \ {"STAR", "SLASH"}, "C2">>,
        <<{"C3"}, {"SLASH"}, "CE">>,
        <<{"Y1"}, Classes \ {"NL"}, "Y1">>, <<{"Y1"}, {"NL"}, "CE">>}

Error == "__"
state_transition_table ==
  [s \in States |-> [c \in Classes |->
    LET applies == {r \in Rules : s \in r[1] /\ c \in r[2]}
    IN IF applies = {} THEN Error ELSE (CHOOSE r \in applies : TRUE)[3]]]

(* What is read of numbers and strings goes to the buffer, an escape as    *)
(* the one character it stands for.                                        *)
OfNumber == {"MX", "ZX", "IX", "DE", "DF", "Z0", "I0", "R2", "X1", "X2", "X3"}
buffer_policy_table(s, next) ==
  \/ next \in OfNumber
  \/ s \in {"_S", "E0"} /\ next = "_S"
  \/ s \in Unicode /\ next # Error

(* The actions that only set the type and the state.                       *)
SetsType ==
  [MX |-> <<"int", "M0">>, ZX |-> <<"int", "Z0">>, IX |-> <<"int", "I0">>,
   DE |-> <<"float", "X1">>, DF |-> <<"float", "R1">>, NU |-> <<"null", "OK">>,
   FA |-> <<"false", "OK">>, TR |-> <<"true", "OK">>, KS |-> <<"none", "_V">>]

-----------------------------------------------------------------------------
(* The consumers.  A structure that is open has an object or an array, the *)
(* key for its next value ("none", "set", or "freed" and not replaced) and *)
(* whether it is empty.  "misplaced" is history: a value was appended to   *)
(* an object without a key of its own, or to an array with one.            *)

Open == {"LCURB", "LSQRB"}
Close == {"RCURB", "RSQRB"}
ValueTypes == {"int", "float", "string", "null", "true", "false"}

DomInit ==
  [stack |-> <<>>, stack_size |-> DomStackSize, room |-> DomStackSize,
   root |-> FALSE, misplaced |-> FALSE, lost |-> FALSE]

(* dom_push asks for stack_size * 2 bytes, which hold fewer elements.      *)
tree_create_structure(object) == [object |-> object, key |-> "none", empty |-> TRUE]
dom_push(d, object) ==
  LET grows == Len(d.stack) = d.stack_size
      size  == IF grows THEN d.stack_size * 2 ELSE d.stack_size
      room  == IF grows THEN size \div ElemSize ELSE d.room IN
  [d EXCEPT !.stack = Append(@, tree_create_structure(object)),
            !.stack_size = size, !.room = room, !.lost = Len(d.stack) >= room]

(* What is done to the structure on top.                                   *)
OnTop(d, structure) == [d EXCEPT !.stack = Append(Front(d.stack), structure)]

(* tree_append: with a key to an object, without one to an array.          *)
tree_append(d, structure) ==
  [OnTop(d, [structure EXCEPT !.empty = FALSE]) EXCEPT
     !.misplaced = d.misplaced \/ structure.key # (IF structure.object THEN "set" ELSE "none")]

(* The key of the structure on top is then freed, but not cleared.         *)
FreedKey(key) == IF key = "set" THEN "freed" ELSE key
DomAppended(d) ==
  LET appended == tree_append(d, Last(d.stack))
      top      == Last(appended.stack)
  IN OnTop(appended, [top EXCEPT !.key = FreedKey(top.key)])

(* An END or a value without a structure reads before the stack.           *)
json_parser_dom_callback(d, t) ==
  IF t \in Open THEN dom_push(d, t = "LCURB")
  ELSE IF d.stack = <<>> THEN [d EXCEPT !.lost = TRUE]
  ELSE IF t \in Close
    THEN LET popped == [d EXCEPT !.stack = Front(@)] IN
         IF popped.stack = <<>> THEN [popped EXCEPT !.root = TRUE] ELSE DomAppended(popped)
  ELSE IF t = "key" THEN OnTop(d, [Last(d.stack) EXCEPT !.key = "set"])
  ELSE DomAppended(d)

PrinterInit == [first |-> TRUE, enter_object |-> TRUE, afterkey |-> FALSE, indentlevel |-> 0]

json_print_mode(p, t) ==
  [first |-> FALSE, enter_object |-> t \in Open, afterkey |-> t = "key",
   indentlevel |-> p.indentlevel + (IF t \in Open THEN 1 ELSE 0) - (IF t \in Close THEN 1 ELSE 0)]

(* The callbacks of one character: of the value before it, and its own.    *)
DomTold(d, t) == IF t = "none" THEN d ELSE json_parser_dom_callback(d, t)
PrinterTold(p, t) == IF t = "none" THEN p ELSE json_print_mode(p, t)
Told(first, then) ==
  /\ dom' = DomTold(DomTold(dom, first), then)
  /\ printer' = PrinterTold(PrinterTold(printer, first), then)

(* do_buffer: the value read before this character, if there is one.       *)
Pending == IF type \in ValueTypes THEN type ELSE "none"

-----------------------------------------------------------------------------
JsonInit ==
  /\ config \in Configs
  /\ state = "GO" /\ save_state = "GO"
  /\ expecting_key = FALSE /\ type = "none" /\ unicode_multi = FALSE
  /\ stack = <<>>
  /\ stack_size = IF config.max_nesting > 0 THEN config.max_nesting
                  ELSE LIBJSON_DEFAULT_STACK_SIZE
  /\ buffer = [offset |-> 0, size |-> config.buffer_size]
  /\ ret = "ok"
  /\ dom = DomInit /\ printer = PrinterInit

consumers == <<dom, printer>>
(* All but the state, the type, the buffer and the answer.                 *)
otherVars == <<config, save_state, expecting_key, unicode_multi, stack, stack_size, consumers>>

NextOf(c) == state_transition_table[state][c]
Reads(c, next) == ret = "ok" /\ NextOf(c) = next

Fails(e) ==
  /\ ret' = e
  /\ UNCHANGED <<state, type, buffer, otherVars>>

BadChar == ret = "ok" /\ Fails("JSON_ERROR_BAD_CHAR")

UnexpectedChar(c) == Reads(c, Error) /\ Fails("JSON_ERROR_UNEXPECTED_CHAR")

(* buffer_push leaves room for the terminator.                             *)
Full(b) == b.offset + 1 >= b.size
AtLimit(b) == Full(b) /\ config.max_data > 0 /\ b.size = config.max_data
Grown(b) == IF config.max_data > 0 /\ b.size * 2 > config.max_data
            THEN config.max_data ELSE b.size * 2
buffer_push(b) == [offset |-> b.offset + 1, size |-> IF Full(b) THEN Grown(b) ELSE b.size]

(* The buffer when the action or the next state gets its turn.             *)
Buffered(next) ==
  IF buffer_policy_table(state, next) THEN buffer_push(buffer) ELSE buffer
WithinBound(next) == buffer_policy_table(state, next) => buffer.offset < MaxData
CanPush(next) == buffer_policy_table(state, next) => ~AtLimit(buffer)

DataLimit(c) == ret = "ok" /\ ~CanPush(NextOf(c)) /\ Fails("JSON_ERROR_DATA_LIMIT")

Accepts(c) == ret = "ok" /\ CanPush(NextOf(c)) /\ WithinBound(NextOf(c))

Move(c) ==
  /\ Accepts(c) /\ NextOf(c) \in States
  /\ state' = NextOf(c)
  /\ buffer' = Buffered(NextOf(c))
  /\ UNCHANGED <<type, ret, otherVars>>

SetType(c) ==
  /\ Accepts(c) /\ NextOf(c) \in DOMAIN SetsType
  /\ type' = SetsType[NextOf(c)][1] /\ state' = SetsType[NextOf(c)][2]
  /\ buffer' = Buffered(NextOf(c))
  /\ UNCHANGED <<ret, otherVars>>

(* act_uc: the four digits become one to four bytes, or the half of a pair *)
(* that stays in unicode_multi.                                            *)
Bytes == [ascii |-> 1, two |-> 2, three |-> 3, high |-> 0, low |-> 4]
act_uc(c) ==
  \E kind \in DOMAIN Bytes :
    /\ Accepts(c) /\ NextOf(c) = "UC"
    /\ unicode_multi = (kind = "low")
    /\ buffer' = [Buffered("UC") EXCEPT !.offset = @ - 4 + Bytes[kind]]
    /\ unicode_multi' = (kind = "high")
    /\ state' = IF unicode_multi' THEN "D1" ELSE "_S"
    /\ type' = "none"
    /\ UNCHANGED <<ret, config, save_state, expecting_key, stack, stack_size, consumers>>

SurrogateFails(c) ==
  \E kind \in DOMAIN Bytes :
    /\ Accepts(c) /\ NextOf(c) = "UC"
    /\ unicode_multi # (kind = "low")
    /\ Fails(IF unicode_multi THEN "JSON_ERROR_UNICODE_MISSING_LOW_SURROGATE"
             ELSE "JSON_ERROR_UNICODE_UNEXPECTED_LOW_SURROGATE")

-----------------------------------------------------------------------------
(* The actions that may hand something on.  Once a consumer is lost the    *)
(* callback does not return.                                               *)
Answer(e) == ret' = IF dom'.lost THEN "lost" ELSE e
Empties == buffer' = [buffer EXCEPT !.offset = 0]

(* act_cb and act_yb: the value before a comment is handed on first, also  *)
(* when the comment is refused.                                            *)
Allowed(c) == IF c = "HASH" THEN config.allow_yaml_comments ELSE config.allow_c_comments
act_comment(c) ==
  /\ Reads(c, "CB") \/ Reads(c, "YB")
  /\ Told(Pending, "none") /\ Empties
  /\ IF Allowed(c)
     THEN /\ save_state' = state /\ type' = "none"
          /\ state' = IF c = "HASH" THEN "Y1" ELSE "C1"
          /\ Answer("ok")
     ELSE Answer("JSON_ERROR_COMMENT_NOT_ALLOWED") /\ UNCHANGED <<state, save_state, type>>
  /\ UNCHANGED <<config, expecting_key, unicode_multi, stack, stack_size>>

Resumed(s) == s                                      \* wrong: back inside the number
ResumedAt(s) == IF s \in Between THEN s ELSE "OK"
act_ce(c) ==
  /\ Reads(c, "CE")
  /\ state' = ResumedAt(save_state)
  /\ type' = "none"
  /\ UNCHANGED <<buffer, ret, otherVars>>

Mode(c) == IF c \in {"LCURB", "RCURB"} THEN "object" ELSE "array"

(* state_push with state_grow: a limit on the nesting stands in the way of *)
(* more room.                                                              *)
NoRoom == Len(stack) >= stack_size /\ config.max_nesting # 0
Room == IF Len(stack) >= stack_size THEN stack_size * 2 ELSE stack_size

(* act_ob and act_ab.                                                      *)
act_open(c) ==
  /\ Reads(c, "OB") \/ Reads(c, "AB")
  /\ Len(stack) < MaxDepth
  /\ Told("none", c)
  /\ IF NoRoom
     THEN /\ Answer("JSON_ERROR_NESTING_LIMIT")
          /\ UNCHANGED <<state, type, expecting_key, stack, stack_size>>
     ELSE /\ stack' = Append(stack, Mode(c))
          /\ stack_size' = Room
          /\ expecting_key' = (expecting_key \/ c = "LCURB")
          /\ state' = IF c = "LCURB" THEN "_O" ELSE "_A"
          /\ type' = "none"
          /\ Answer("ok")
  /\ UNCHANGED <<config, save_state, unicode_multi, buffer>>

(* state_pop                                                               *)
Pops(c) == stack # <<>> /\ Last(stack) = Mode(c)
PopError == IF stack = <<>> THEN "JSON_ERROR_POP_EMPTY" ELSE "JSON_ERROR_POP_UNEXPECTED_MODE"

(* act_oe and act_ae: the END is handed on before the stack is looked at.  *)
act_close(c) ==
  /\ Reads(c, "OE") \/ Reads(c, "AE")
  /\ Told(Pending, c) /\ Empties
  /\ IF Pops(c)
     THEN /\ stack' = Front(stack)
          /\ expecting_key' = (expecting_key /\ c = "RSQRB")
          /\ state' = "OK" /\ type' = "none"
          /\ Answer("ok")
     ELSE /\ Answer(PopError)
          /\ UNCHANGED <<state, type, expecting_key, stack>>
  /\ UNCHANGED <<config, save_state, unicode_multi, stack_size>>

act_se(c) ==
  /\ Reads(c, "SE")
  /\ Told("none", IF expecting_key THEN "key" ELSE "string") /\ Empties
  /\ state' = IF expecting_key THEN "CO" ELSE "OK"
  /\ expecting_key' = FALSE
  /\ type' = "none"
  /\ Answer("ok")
  /\ UNCHANGED <<config, save_state, unicode_multi, stack, stack_size>>

NeverKey == FALSE                                    \* wrong: only { expects a key
InObject == Last(stack) = "object"
act_sp(c) ==
  /\ Reads(c, "SP")
  /\ Told(Pending, "none") /\ Empties
  /\ IF stack # <<>>
     THEN /\ expecting_key' = (expecting_key \/ InObject)
          /\ state' = IF InObject THEN "_K" ELSE "_V"
          /\ type' = "none"
          /\ Answer("ok")
     ELSE /\ Answer("JSON_ERROR_COMMA_OUT_OF_STRUCTURE")
          /\ UNCHANGED <<state, type, expecting_key>>
  /\ UNCHANGED <<config, save_state, unicode_multi, stack, stack_size>>

(* do_tree at the end of the file.                                         *)
json_parser_is_done == stack = <<>> /\ state # "GO"
EndOfFile ==
  /\ ret = "ok"
  /\ ret' = IF json_parser_is_done THEN "done" ELSE "syntax_error"
  /\ UNCHANGED <<state, type, buffer, otherVars>>

-----------------------------------------------------------------------------
json_parser_string(c) ==
  \/ UnexpectedChar(c) \/ DataLimit(c) \/ Move(c) \/ SetType(c)
  \/ act_uc(c) \/ SurrogateFails(c)
  \/ act_comment(c) \/ act_ce(c) \/ act_open(c) \/ act_close(c) \/ act_se(c) \/ act_sp(c)

(* Until the file ends or the parser gives an error.                       *)
process_file == BadChar \/ \E c \in Classes : json_parser_string(c)

JsonNext == process_file \/ EndOfFile

JsonSpec == JsonInit /\ [][JsonNext]_jsonVars

-----------------------------------------------------------------------------
(* Well-typed states; what is read always leaves room for the terminator,  *)
(* whatever an escape becomes.                                             *)
JsonTypeOK ==
  /\ config \in Configs
  /\ state \in States /\ save_state \in Between \cup AfterValue
  /\ expecting_key \in BOOLEAN /\ unicode_multi \in BOOLEAN
  /\ type \in ValueTypes \cup {"none"}
  /\ stack \in Seq({"object", "array"}) /\ stack_size \in Nat /\ Len(stack) <= stack_size
  /\ buffer.offset \in Nat /\ buffer.size \in Nat /\ buffer.offset < buffer.size
  /\ \A i \in DOMAIN dom.stack :
       dom.stack[i] \in [object : BOOLEAN, key : {"none", "set", "freed"}, empty : BOOLEAN]

ModeOf(frame) == IF frame.object THEN "object" ELSE "array"

(* What the tree builder has is what the parser has read: the same open    *)
(* structures, every value of an object with a key of its own and every    *)
(* value of an array with none, no data of one value in the next one's,    *)
(* and at the end a root, unless the file ends inside a comment.           *)
TreeMatches ==
  /\ ret = "ok" =>
       /\ stack = [i \in DOMAIN dom.stack |-> ModeOf(dom.stack[i])]
       /\ state \in Between \/ (state = "OK" /\ Pending = "none") => buffer.offset = 0
       /\ stack = <<>> /\ state \notin CommentStates => dom.root = (state # "GO")
  /\ ~dom.misplaced
  /\ ret = "done" /\ state \notin CommentStates => dom.root /\ dom.stack = <<>>

(* The printer puts a comma before a value or key exactly if it has a      *)
(* sibling before it and no key: its two flags and its indentation agree   *)
(* with the structures of the tree, by which they are not computed.        *)
PrinterInStep ==
  dom.stack # <<>> =>
    LET top == Last(dom.stack) IN
    /\ printer.afterkey <=> top.key = "set"
    /\ printer.enter_object <=> top.empty /\ top.key # "set"
    /\ printer.indentlevel = Len(dom.stack)

(* The tree builder and the printer keep up with the parser, whose buffer  *)
(* keeps room for the terminator (json.c:936, jsonlint.c:57).              *)
JsonRight == JsonTypeOK /\ TreeMatches /\ PrinterInStep

(* A comment is a blank: while it is read nothing is handed on, and after  *)
(* it the parser goes on from where a blank would have left it.            *)
AfterBlank == state_transition_table[save_state]["SPACE"]
CommentStep ==
  /\ UNCHANGED <<stack, buffer, dom, printer>>
  /\ state' \in CommentStates \/ state' = AfterBlank
CommentsAreBlank ==
  [][ret' = "ok" /\ state \in CommentStates => CommentStep]_jsonVars
=============================================================================
