---------------------------- MODULE GrammarText ----------------------------
(***************************************************************************)
(* Texts of the grammar language, for the parsers of it that cnail          *)
(* generated from its own grammar (NewGrammar.tla, ParserTest.tla).  A      *)
(* symbol is a character, or a piece of a keyword: keywords that share a    *)
(* prefix are cut where they part, so that a parser that tries the wrong    *)
(* one first stops where it would in the text.                              *)
(***************************************************************************)
EXTENDS Grammar

Pieces ==
  "uint" :> <<"u", "int">> @@ "int" :> <<"int">> @@
  "many " :> <<"many", " ">> @@ "many1" :> <<"many", "1">> @@
  "sepBy" :> <<"sep", "B", "y">> @@ "sepBy1" :> <<"sep", "B", "y", "1">> @@
  "n_of" :> <<"n", "_", "of">> @@ "optional " :> <<"optional", " ">> @@
  "||" :> <<"|", "|">> @@ ".." :> <<".", ".">> @@ "0x" :> <<"0", "x">> @@
  "!LITTLE-ENDIAN" :> <<"!", "LITTLE", "-", "ENDIAN">> @@
  "!BIG-ENDIAN" :> <<"!", "BIG", "-", "ENDIAN">>
Spelled(word) == IF word \in DOMAIN Pieces THEN Pieces[word] ELSE <<word>>
Text(word) == Lit(Spelled(word))

(* The ranges of the grammar's integers.                                   *)
Digit == {"0", "1", "8"}
HexLetter == {"A", "a"}
Letter == {"u", "int", "many", "sep", "y", "n", "of", "optional", "x", "a",
           "choose", "select", "apply", "transform"}
Lower == Letter \cup Digit \cup {"_"}
Upper == {"A", "B", "LITTLE", "BIG", "ENDIAN"}
Mark == {" ", "nl", ";", "'", "\"", "\\", "|", ".", ",", "=", "[", "]", "!", "{", "}",
         "<", ">", "(", ")", "*", "@", "$", "-"}
Char == Lower \cup Upper \cup Mark
AnyChar == Char
NotQuote == Char \ {"\""}

(* What the second pass does at a constant, whatever it was.               *)
Skip == Lit(<< >>)

(* A structure or wrap, written as its items in order: constants, and the   *)
(* parsers between them.                                                    *)
IsConst(x) == x.op \in {"carray", "clittle", "crepeat", "cunion", "cstruct"}
Fields(items) ==
  Struct([i \in DOMAIN items |-> IF IsConst(items[i]) THEN Const(items[i]) ELSE Field(items[i])])
Only(items) ==
  LET at == CHOOSE i \in DOMAIN items : ~IsConst(items[i])
  IN Wrap(SubSeq(items, 1, at - 1), items[at], SubSeq(items, at + 1, Len(items)))
Alts(pairs) == Choice([i \in DOMAIN pairs |-> pairs[i][1]], [i \in DOMAIN pairs |-> pairs[i][2]])
=============================================================================
