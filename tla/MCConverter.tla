---------------------------- MODULE MCConverter ----------------------------
(***************************************************************************)
(* Files of one or two definitions that between them use every rule of the *)
(* older syntax, and each of them damaged in one place: a token left out,   *)
(* said twice or after the next one; and the end of the text missing, as    *)
(* after a character no token starts with.                                 *)
(***************************************************************************)
EXTENDS Converter

Define(parser) == <<"VARIDENTIFIER", "EQUAL">> \o parser
uint == <<"UINT", "INT">>
name == <<"VARIDENTIFIER">>
constant == uint \o <<"EQUAL", "INT">>
Parsers ==
  {uint, <<"OPTIONAL", "MANY">> \o name, <<"MANY1", "REF">> \o name,
   uint \o <<"BAR", "LBRACKET">> \o uint \o <<"DOTS">> \o uint \o <<"RBRACKET">>,
   uint \o <<"BAR", "LBRACKET", "INT", "COMMA", "INT", "RBRACKET">>,
   uint \o <<"BAR", "NEG", "LBRACKET", "INT", "RBRACKET">>,
   <<"LCURL", "CONSTIDENTIFIER">> \o name \o uint \o <<"RCURL">>,
   <<"LCURL", "MANY">> \o uint \o <<"EQUAL", "STRING", "RCURL">>,
   <<"LEDGE">> \o constant \o <<"CONSTIDENTIFIER">> \o name \o <<"CONSTIDENTIFIER", "REDGE">>,
   <<"CHOOSE", "LBRACKET">> \o Define(name) \o Define(uint) \o <<"RBRACKET">>,
   <<"SEPBY", "LPAREN">> \o name \o <<"RPAREN">> \o name,
   <<"SEPBY1">> \o uint \o <<"LPAREN", "LPAREN", "LPAREN">> \o name \o <<"RPAREN", "RPAREN", "RPAREN">>}
Files == {Define(p) : p \in Parsers}
         \cup {<<"CONSTIDENTIFIER", "EQUAL">> \o name \o Define(uint) \o Define(name)}
Damaged(w) ==
  {w} \cup {RemoveAt(w, i) : i \in DOMAIN w} \cup {InsertAt(w, i, w[i]) : i \in DOMAIN w}
       \cup {[w EXCEPT ![i] = w[i + 1], ![i + 1] = w[i]] : i \in 1..(Len(w) - 1)}
MCTexts == {Append(w, "$") : w \in UNION {Damaged(f) : f \in Files}} \cup Files
=============================================================================
