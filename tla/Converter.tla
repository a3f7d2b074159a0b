----------------------------- MODULE Converter -----------------------------
(***************************************************************************)
(* The converter of the older grammar syntax (generator/tools/old2new.cc):  *)
(* a table-driven LALR(1) parser, fed one token at a time, whose reductions *)
(* write the same grammar as calls of combinators.  A token is its type and *)
(* its place in the text; the value of a symbol is a stream.  yyerrcnt is   *)
(* left out: all it leads to is a function that does nothing.               *)
(***************************************************************************)
EXTENDS Integers, Sequences, SequencesExt, FiniteSets

CONSTANTS Texts,            \* sequences of token types, each with or without the end
          YYSTACKDEPTH      \* 100 in the code

ASSUME ConverterAssumption == YYSTACKDEPTH \in Nat \ {0, 1}

VARIABLES text,             \* what the lexer gives
          fed,              \* tokens of it that Parse was called with
          yymajor,          \* the token of the call that is going on, or YYNOCODE
          yystack,          \* states, symbols and their values; empty: yyidx = -1
          outp,             \* what was converted: a derivation, or None
          phase,            \* "running", "printed", "aborted"
          kept,             \* tokens shifted since yystack was last set up
          lost              \* what was lost: "token", "stack"

vars == <<text, fed, yymajor, yystack, outp, phase, kept, lost>>

-----------------------------------------------------------------------------
(* The tables, as they are.                                                *)
YYNOCODE == 42
YYNSTATE == 83
YY_ERROR_ACTION == 119
YY_ACCEPT_ACTION == 120
YY_SHIFT_COUNT == 47
YY_SHIFT_USE_DFLT == -2
YY_REDUCE_COUNT == 26
YY_REDUCE_USE_DFLT == -29
yy_action ==
  <<46, 40, 74, 40, 74, 72, 52, 57, 3, 16, 20, 73, 62, 2, 41, 5, 18, 36, 13, 12,
  10, 8, 34, 7, 46, 28, 74, 65, 82, 57, 26, 4, 45, 14, 65, 80, 62, 2, 51, 5, 83,
  36, 13, 12, 10, 8, 34, 7, 46, 81, 40, 74, 32, 47, 55, 120, 22, 24, 1, 73, 17,
  46, 53, 40, 74, 79, 42, 55, 48, 31, 24, 19, 73, 46, 40, 74, 63, 56, 72, 54,
  59, 45, 24, 65, 73, 17, 35, 71, 27, 25, 65, 45, 76, 65, 69, 77, 42, 70, 39,
  31, 45, 39, 65, 45, 44, 65, 69, 30, 45, 68, 65, 45, 21, 65, 11, 37, 31, 67,
  45, 37, 65, 45, 75, 65, 9, 58, 23, 66, 46, 78, 45, 15, 65, 45, 46, 65, 64, 6,
  45, 33, 65, 32, 47, 24, 50, 73, 61, 43, 46, 29, 78, 38, 60, 49, 35>>
yy_lookahead ==
  <<1, 29, 30, 29, 30, 33, 34, 33, 36, 10, 5, 12, 13, 14, 9, 16, 3, 18, 19, 20,
  21, 22, 23, 24, 1, 29, 30, 31, 2, 33, 6, 35, 29, 10, 31, 2, 13, 14, 35, 16, 0,
  18, 19, 20, 21, 22, 23, 24, 1, 7, 29, 30, 12, 13, 33, 27, 28, 10, 37, 12, 13,
  1, 15, 29, 30, 7, 8, 33, 40, 4, 10, 37, 12, 1, 29, 30, 13, 17, 33, 34, 7, 29,
  10, 31, 12, 13, 13, 35, 29, 5, 31, 29, 2, 31, 35, 7, 8, 35, 3, 4, 29, 3, 31,
  29, 29, 31, 35, 32, 29, 35, 31, 29, 5, 31, 35, 3, 4, 35, 29, 3, 31, 29, 11,
  31, 35, 38, 39, 35, 1, 2, 29, 3, 31, 29, 1, 31, 35, 3, 29, 35, 31, 12, 13, 10,
  35, 12, 25, 29, 1, 32, 2, 29, 38, 40, 13>>
yy_shift_ofst ==
  <<129, -1, 72, 47, 133, 133, 23, 23, 23, 23, 23, 23, 23, 23, 23, 23, 23, 23,
  23, 60, 127, 141, 40, 73, 147, 148, 147, 112, 95, 88, 58, 5, 134, 121, 63,
  128, 107, 111, 116, 90, 98, 84, 33, 42, 24, 65, 26, 13>>
yy_reduce_ofst ==
  <<28, -4, -28, 45, 34, 21, 109, 104, 101, 92, 89, 82, 79, 74, 71, 62, 59, 52,
  3, -26, 75, 87, 113, 114, 122, 117, 118>>
yy_default ==
  <<119, 119, 119, 119, 119, 119, 119, 119, 119, 119, 119, 119, 119, 119, 119,
  119, 119, 119, 119, 119, 119, 119, 119, 119, 119, 119, 119, 119, 119, 119,
  119, 119, 119, 119, 119, 119, 119, 119, 119, 119, 119, 119, 119, 119, 119,
  119, 119, 119, 118, 117, 116, 115, 97, 98, 96, 100, 101, 99, 104, 105, 103,
  114, 113, 112, 111, 110, 109, 108, 107, 106, 102, 95, 94, 93, 92, 91, 85, 90,
  88, 89, 87, 86, 84>>
yyTokenName ==
  <<"$", "UINT", "INT", "EQUAL", "BAR", "LBRACKET", "DOTS", "RBRACKET", "COMMA",
  "NEG", "MANY", "STRING", "CONSTIDENTIFIER", "VARIDENTIFIER", "LCURL", "RCURL",
  "LEDGE", "REDGE", "CHOOSE", "MANY1", "SEPBY", "SEPBY1", "OPTIONAL", "REF",
  "LPAREN", "RPAREN", "error", "file", "statements", "int", "constint",
  "constrainedint", "commaset", "constfield", "field", "parser",
  "struct_contents", "constfields", "option", "options", "statement">>
yyRuleName ==
  <<<<"file", "statements">>, <<"int", "UINT", "INT">>, <<"constint", "int",
  "EQUAL", "INT">>, <<"constrainedint", "int", "BAR", "LBRACKET", "int", "DOTS",
  "int", "RBRACKET">>, <<"commaset", "commaset", "COMMA", "INT">>, <<"commaset",
  "INT">>, <<"constrainedint", "int", "BAR", "LBRACKET", "commaset",
  "RBRACKET">>, <<"constrainedint", "int", "BAR", "NEG", "LBRACKET", "commaset",
  "RBRACKET">>, <<"constfield", "MANY", "int", "EQUAL", "STRING">>,
  <<"constfield", "constint">>, <<"constfield", "CONSTIDENTIFIER">>, <<"field",
  "constfield">>, <<"field", "VARIDENTIFIER", "parser">>, <<"struct_contents",
  "struct_contents", "field">>, <<"struct_contents", "field">>, <<"parser",
  "LCURL", "struct_contents", "RCURL">>, <<"constfields", "constfields",
  "constfield">>, <<"constfields", "constfield">>, <<"parser", "LEDGE",
  "constfields", "parser", "constfields", "REDGE">>, <<"option",
  "VARIDENTIFIER", "EQUAL", "parser">>, <<"options", "options", "option">>,
  <<"options", "option">>, <<"parser", "CHOOSE", "LBRACKET", "options",
  "RBRACKET">>, <<"parser", "MANY", "parser">>, <<"parser", "MANY1", "parser">>,
  <<"parser", "SEPBY", "parser", "parser">>, <<"parser", "SEPBY1", "parser",
  "parser">>, <<"parser", "constrainedint">>, <<"parser", "OPTIONAL",
  "parser">>, <<"parser", "REF", "VARIDENTIFIER">>, <<"parser",
  "VARIDENTIFIER">>, <<"parser", "LPAREN", "parser", "RPAREN">>, <<"statement",
  "VARIDENTIFIER", "EQUAL", "parser">>, <<"statement", "CONSTIDENTIFIER",
  "EQUAL", "parser">>, <<"statements", "statements", "statement">>,
  <<"statements", "statement">>>>
yyRuleInfo ==
  <<<<27, 1>>, <<29, 2>>, <<30, 3>>, <<31, 7>>, <<32, 3>>, <<32, 1>>, <<31, 5>>,
  <<31, 6>>, <<33, 4>>, <<33, 1>>, <<33, 1>>, <<34, 1>>, <<34, 2>>, <<36, 2>>,
  <<36, 1>>, <<35, 3>>, <<37, 2>>, <<37, 1>>, <<35, 5>>, <<38, 3>>, <<39, 2>>,
  <<39, 1>>, <<35, 4>>, <<35, 2>>, <<35, 2>>, <<35, 3>>, <<35, 3>>, <<35, 1>>,
  <<35, 2>>, <<35, 2>>, <<35, 1>>, <<35, 3>>, <<40, 3>>, <<40, 3>>, <<28, 2>>,
  <<28, 1>>>>
-----------------------------------------------------------------------------
(* Looking an action up.  A table starts with its entry 0.                  *)
Entry(table, i) == table[i + 1]
Symbol(code) == Entry(yyTokenName, code)
Code(symbol) == (CHOOSE i \in DOMAIN yyTokenName : yyTokenName[i] = symbol) - 1

yy_find_shift_action_LastState(stateno, look) ==     \* mutant: ">=" for ">"
  LET i == Entry(yy_shift_ofst, stateno) + look
  IN IF \/ stateno >= YY_SHIFT_COUNT
        \/ i \notin 0..(Len(yy_action) - 1)
        \/ Entry(yy_lookahead, i) # look THEN Entry(yy_default, stateno)
     ELSE Entry(yy_action, i)
yy_find_shift_action(stateno, look) ==
  LET i == Entry(yy_shift_ofst, stateno) + look
  IN IF \/ stateno > YY_SHIFT_COUNT
        \/ i - look = YY_SHIFT_USE_DFLT
        \/ i \notin 0..(Len(yy_action) - 1)
        \/ Entry(yy_lookahead, i) # look THEN Entry(yy_default, stateno)
     ELSE Entry(yy_action, i)

NoAction == -1                                  \* one of the assertions fails
yy_find_reduce_action(stateno, look) ==
  LET i == Entry(yy_reduce_ofst, stateno) + look
  IN IF \/ stateno > YY_REDUCE_COUNT
        \/ i - look = YY_REDUCE_USE_DFLT
        \/ i \notin 0..(Len(yy_action) - 1)
        \/ Entry(yy_lookahead, i) # look THEN NoAction
     ELSE Entry(yy_action, i)

-----------------------------------------------------------------------------
(* What the action of a rule writes into its stream, and the symbols of the *)
(* rule whose streams it writes there; no operator<< of the program writes  *)
(* one stream into another, so that each of those is written as an address. *)
(* A rule that writes nothing hands on the stream of its one symbol.        *)
Writes ==
  <<<<"", <<1>>>>, <<"h_bits", <<2>>>>, <<"N_CONSTANT(h_int_range)", <<1, 3, 3>>>>,
    <<"h_int_range", <<1, 4, 6>>>>, <<",", <<3, 1>>>>, <<"", <<1>>>>, <<"h_in", <<4, 4>>>>,
    <<"h_not_in", <<5, 5>>>>, <<"N_CONSTANT(h_tok)", <<4>>>>, <<"", <<1>>>>, <<"N_EMBED", <<1>>>>,
    <<"N_CONSTANT", <<1>>>>, <<"N_FIELD", <<1, 2>>>>, <<"sequence", <<1, 2>>>>, <<"", <<1>>>>,
    <<"N_STRUCT", <<2>>>>, <<" ", <<1, 2>>>>, <<"", <<1>>>>, <<"N_WRAP", <<2, 3, 4>>>>,
    <<"N_OPTION", <<1, 3>>>>, <<"sequence", <<1, 2>>>>, <<"", <<1>>>>, <<"N_CHOICE", <<3>>>>,
    <<"N_ARRAY,h_many", <<2>>>>, <<"N_ARRAY,h_many1", <<2>>>>, <<"N_SEPBY", <<3, 2>>>>,
    <<"N_SEPBY1", <<3, 2>>>>, <<"N_UINT", <<1>>>>, <<"N_OPTIONAL", <<2>>>>, <<"N_REF", <<2>>>>,
    <<"N_EMBED", <<1>>>>, <<"", <<2>>>>, <<"N_DEFPARSER;", <<1, 3>>>>, <<"N_DEFPARSER", <<1, 3>>>>,
    <<"endl", <<1, 2>>>>, <<"endl", <<1>>>>>>

(* assert(...->str() == "h_bits(8,false)"): an int holds an address where   *)
(* its width is to be, so that these never hold.                           *)
AssertsBits == {6, 7, 8}

(* A stream: of a token, with its text, or of a reduction, with what was    *)
(* written and the streams whose addresses are in it.                      *)
None == <<"none">>
TokenStream(at) == <<"token", at>>
Stream(r, minors) ==
  LET w == Entry(Writes, r)
      streams == [i \in DOMAIN w[2] |-> minors[w[2][i]]]
  IN IF w[1] = "" THEN streams[1] ELSE <<"stream", w[1], streams>>

-----------------------------------------------------------------------------
-----------------------------------------------------------------------------
StackEntry(stateno, major, minor) == [stateno |-> stateno, major |-> major, minor |-> minor]
Top == Last(yystack)
Act == yy_find_shift_action(Top.stateno, yymajor)
Parsing == phase = "running" /\ yymajor # YYNOCODE /\ yystack # << >>
Emptied == << >>                                \* yy_pop_parser_stack until yyidx is -1

Init ==
  /\ text \in Texts /\ fed = 0 /\ yymajor = YYNOCODE /\ yystack = << >>
  /\ outp = None /\ phase = "running" /\ kept = << >> /\ lost = {}

(* main calls Parse with the next token; an empty stack is set up again.    *)
Parse ==
  /\ phase = "running" /\ yymajor = YYNOCODE /\ fed < Len(text)
  /\ fed' = fed + 1
  /\ yymajor' = Code(text[fed + 1])
  /\ IF yystack = << >>
       THEN yystack' = <<StackEntry(0, 0, None)>> /\ kept' = << >>
       ELSE UNCHANGED <<yystack, kept>>
  /\ UNCHANGED <<text, outp, phase, lost>>

(* The loop of Parse, by the action it finds.                              *)
Shift ==
  /\ Parsing /\ Act < YYNSTATE /\ Len(yystack) < YYSTACKDEPTH
  /\ yystack' = Append(yystack, StackEntry(Act, yymajor, TokenStream(fed)))
  /\ yymajor' = YYNOCODE
  /\ kept' = Append(kept, fed)
  /\ UNCHANGED <<text, fed, outp, phase, lost>>

(* yyStackOverflow pops everything, and the next call starts from nothing.  *)
Overflow ==
  /\ Parsing /\ Act < YYNSTATE /\ Len(yystack) = YYSTACKDEPTH
  /\ yystack' = Emptied /\ yymajor' = YYNOCODE /\ lost' = lost \cup {"stack"}
  /\ UNCHANGED <<text, fed, outp, phase, kept>>

Reducing == Parsing /\ Act \in YYNSTATE..(YY_ERROR_ACTION - 1)
Rule == Act - YYNSTATE
nrhs == Entry(yyRuleInfo, Rule)[2]
Base == SubSeq(yystack, 1, Len(yystack) - nrhs)
Popped == SubSeq(yystack, Len(Base) + 1, Len(yystack))
Result == Stream(Rule, [i \in DOMAIN Popped |-> Popped[i].minor])
Goto == yy_find_reduce_action(Last(Base).stateno, Entry(yyRuleInfo, Rule)[1])

yy_reduce ==
  /\ Reducing /\ Rule \notin AssertsBits /\ Goto \in 0..(YYNSTATE - 1)
  /\ yystack' = Append(Base, StackEntry(Goto, Entry(yyRuleInfo, Rule)[1], Result))
  /\ UNCHANGED <<text, fed, yymajor, outp, phase, kept, lost>>

(* The rule for a file: its action sets outp, yy_accept pops everything.    *)
yy_accept ==
  /\ Reducing /\ Goto = YY_ACCEPT_ACTION
  /\ outp' = Result /\ yystack' = Emptied
  /\ UNCHANGED <<text, fed, yymajor, phase, kept, lost>>

Aborts ==
  /\ Reducing /\ (Rule \in AssertsBits \/ Goto \notin 0..(YYNSTATE - 1) \cup {YY_ACCEPT_ACTION})
  /\ phase' = "aborted"
  /\ UNCHANGED <<text, fed, yymajor, yystack, outp, kept, lost>>

(* Without an error token in the grammar, a token that fits nothing is      *)
(* thrown away, with a line on stderr, where main.cc:25 sends the trace of  *)
(* the parser; the end of the text fails the parse.                         *)
SyntaxError ==
  /\ Parsing /\ Act = YY_ERROR_ACTION /\ Symbol(yymajor) # "$"
  /\ lost' = lost \cup {"token"} /\ yymajor' = YYNOCODE
  /\ UNCHANGED <<text, fed, yystack, outp, phase, kept>>
yy_parse_failed ==
  /\ Parsing /\ Act = YY_ERROR_ACTION /\ Symbol(yymajor) = "$"
  /\ lost' = lost \cup {"token"} /\ yymajor' = YYNOCODE /\ yystack' = Emptied
  /\ UNCHANGED <<text, fed, outp, phase, kept>>

(* The call returns when the stack is empty, whatever the token.            *)
Return ==
  /\ phase = "running" /\ yymajor # YYNOCODE /\ yystack = << >>
  /\ yymajor' = YYNOCODE
  /\ UNCHANGED <<text, fed, yystack, outp, phase, kept, lost>>

Finish ==
  /\ phase = "running" /\ yymajor = YYNOCODE /\ fed = Len(text)
  /\ phase' = "printed"
  /\ UNCHANGED <<text, fed, yymajor, yystack, outp, kept, lost>>

Next ==
  \/ Parse \/ Shift \/ Overflow \/ yy_reduce \/ yy_accept \/ Aborts \/ SyntaxError \/ yy_parse_failed
  \/ Return \/ Finish
Spec == Init /\ [][Next]_vars

-----------------------------------------------------------------------------
(* What a sequence of tokens means by the rules as yyRuleName writes them:  *)
(* <<symbol, from, to, stream>> for each part of it a symbol derives, with  *)
(* the stream that its rule's action makes of the streams of its symbols.  *)
Matches(parts, rhs, from) ==
  FoldLeft(LAMBDA ms, sym :
             UNION {{<<p[3], Append(m[2], p[4])>> : p \in {x \in parts : x[1] = sym /\ x[2] = m[1]}} :
                      m \in ms},
           {<<from, << >>>>}, rhs)
RECURSIVE Closed(_, _)
Closed(w, parts) ==
  LET more == UNION {{<<Head(Entry(yyRuleName, r)), i, m[1], Stream(r, m[2])>> :
                        m \in Matches(parts, Tail(Entry(yyRuleName, r)), i)} :
                       r \in 0..(Len(yyRuleName) - 1), i \in 0..(Len(w) - 1)}
  IN IF more \subseteq parts THEN parts ELSE Closed(w, parts \cup more)
Meanings(tokens) ==
  {p[4] : p \in {x \in Closed(tokens, {<<text[tokens[i]], i - 1, i, TokenStream(tokens[i])>> :
                                          i \in DOMAIN tokens}) :
                   x[1] = "file" /\ x[2] = 0 /\ x[3] = Len(tokens)}}

(* The tables parse the grammar they come from: what is converted is what   *)
(* the rules make of the tokens that were kept, and a text they derive is   *)
(* converted, without a token of it thrown away, unless the stack of the    *)
(* parser overflows; of what is lost only the trace on stderr tells.       *)
ConvertsLanguage ==
  phase = "printed" =>
    /\ outp # None => outp \in Meanings(kept)
    /\ outp = None \/ lost # {} =>
         \/ "stack" \in lost
         \/ text = << >> \/ Last(text) # "$"
         \/ Meanings([i \in 1..(Len(text) - 1) |-> i]) = {}
=============================================================================
