----------------------------- MODULE ParserTest ----------------------------
(***************************************************************************)
(* The parser of the grammar language that an older cnail emitted,          *)
(* generator/parser_test.c: packrat_X and its second pass, and the          *)
(* generator; a rule is called with the offset, not with the stream.        *)
(***************************************************************************)
EXTENDS GrammarText

-----------------------------------------------------------------------------
(* First pass.                                                             *)
packrat_WHITE == CMany(CUnion(<<Lit(<<" ">>), Lit(<<"nl">>)>>))
packrat_SEPERATOR == CStruct(<<CMany(Lit(<<" ">>)), CMany(CUnion(<<Lit(<<"nl">>), Lit(<<";">>)>>))>>)
t(word) == CStruct(<<packrat_WHITE, Text(word)>>)

packrat_number == Many1(Num(Digit))
packrat_varidentifier == Only(<<packrat_WHITE, Many1(Num(Letter))>>)
packrat_constidentifier == Only(<<packrat_WHITE, Many1(Num(Upper))>>)
packrat_contextidentifier == Only(<<packrat_WHITE, Text("@"), Many1(Num(Letter))>>)
packrat_intconstant ==
  Only(<<packrat_WHITE,
         Alts(<<<<"ASCII",
                  Only(<<Text("'"),
                         Alts(<<<<"ESCAPE", Only(<<Text("\\"), Num(AnyChar)>>)>>,
                                <<"DIRECT", Num(AnyChar)>>>>), Text("'")>>)>>,
                <<"NUMBER", Call("number")>>>>)>>)
packrat_intp ==
  Alts(<<<<"UNSIGNED", Only(<<t("uint"), Many1(Num(Digit))>>)>>,
         <<"SIGNED", Only(<<t("int"), Many1(Num(Digit))>>)>>>>)
packrat_constint == Fields(<<Call("intp"), t("="), Call("intconstant")>>)
packrat_arrayvalue ==
  Alts(<<<<"STRING",
           Only(<<packrat_WHITE, Text("\""), Many(Num(NotQuote)), Text("\"")>>)>>,
         <<"VALUES", Only(<<t("["), Many(Call("intconstant")), t("]")>>)>>>>)
packrat_constarray == Fields(<<t("many "), Call("intp"), t("="), Call("arrayvalue")>>)
packrat_constfields == SepBy1(packrat_SEPERATOR, Call("constparser"))
packrat_constparser_CARRAY ==
  <<<<"CARRAY", Call("constarray")>>,
    <<"CREPEAT", Only(<<t("many "), Call("constparser")>>)>>, <<"CINT", Call("constint")>>,
    <<"CREF", Call("constidentifier")>>,
    <<"CSTRUCT", Only(<<t("{"), Call("constfields"), t("}")>>)>>>>
packrat_constparser_CUNION ==
  <<<<"CUNION", Many1(Only(<<t("||"), Call("constparser")>>))>>>>
packrat_constparser == Alts(packrat_constparser_CARRAY \o packrat_constparser_CUNION)
packrat_intconstraint_RANGE ==
  <<<<"RANGE",
      Fields(<<Optional(Call("intconstant")), t(".."), Optional(Call("intconstant"))>>)>>,
    <<"SET", Only(<<t("["), SepBy1(Text(","), Call("intconstant")), t("]")>>)>>>>
packrat_intconstraint_NEGATE == <<<<"NEGATE", Only(<<t("!"), Call("intconstraint")>>)>>>>
packrat_intconstraint == Alts(packrat_intconstraint_RANGE \o packrat_intconstraint_NEGATE)
packrat_constrainedint ==
  Fields(<<Call("intp"), Optional(Only(<<t("|"), Call("intconstraint")>>))>>)
packrat_structparser ==
  Only(<<t("{"),
         SepBy(packrat_SEPERATOR,
               Alts(<<<<"CONSTANT", Call("constparser")>>,
                      <<"CONTEXT",
                        Fields(<<Call("contextidentifier"), Call("constrainedint")>>)>>,
                      <<"FIELD", Fields(<<Call("varidentifier"), Call("parser")>>)>>>>)),
         t("}")>>)
packrat_wrapparser ==
  Fields(<<t("<"),
           Optional(Only(<<SepBy1(packrat_SEPERATOR, Call("constparser")),
                           packrat_SEPERATOR>>)), Call("parser"),
           Optional(Only(<<packrat_SEPERATOR,
                           SepBy(packrat_SEPERATOR, Call("constparser"))>>)), t(">")>>)
packrat_choiceparser ==
  Only(<<t("choose"), t("{"),
         Many(Fields(<<Call("constidentifier"), t("="), Call("parser")>>)), t("}")>>)
packrat_arrayparser_MANYONE ==
  <<<<"MANYONE", Only(<<t("many1"), Call("parser")>>)>>,
    <<"MANY", Only(<<t("many"), Call("parser")>>)>>>>
packrat_arrayparser_SEPBYONE ==
  <<<<"SEPBYONE", Fields(<<t("sepBy1"), Call("constparser"), Call("parser")>>)>>,
    <<"SEPBY", Fields(<<t("sepBy"), Call("constparser"), Call("parser")>>)>>>>
packrat_arrayparser == Alts(packrat_arrayparser_MANYONE \o packrat_arrayparser_SEPBYONE)
packrat_parserinner_INT ==
  <<<<"INT", Call("constrainedint")>>, <<"STRUCT", Call("structparser")>>,
    <<"WRAP", Call("wrapparser")>>, <<"CHOICE", Call("choiceparser")>>,
    <<"ARRAY", Call("arrayparser")>>,
    <<"LENGTH", Fields(<<t("n_of"), Call("contextidentifier"), Call("parser")>>)>>>>
packrat_parserinner_OPTIONAL ==
  <<<<"OPTIONAL", Only(<<t("optional "), Call("parser")>>)>>,
    <<"UNION", Many1(Only(<<t("||"), Call("parser")>>))>>>>
packrat_parserinner_REF ==
  <<<<"REF", Only(<<t("*"), Call("varidentifier")>>)>>, <<"NAME", Call("varidentifier")>>>>
packrat_parserinner ==
  Alts(packrat_parserinner_INT \o packrat_parserinner_OPTIONAL \o packrat_parserinner_REF)
packrat_parser ==
  Alts(<<<<"PAREN", Only(<<t("("), Call("parserinner"), t(")")>>)>>,
         <<"PR", Call("parserinner")>>>>)
packrat_definition ==
  Alts(<<<<"PARSER", Fields(<<Call("varidentifier"), t("="), Call("parser")>>)>>,
         <<"CONST",
           Fields(<<Call("constidentifier"), packrat_WHITE, Text("="), packrat_WHITE,
                    Call("constparser")>>)>>>>)
packrat_grammar == Only(<<Many1(Call("definition")), packrat_WHITE>>)

-----------------------------------------------------------------------------
(* Second pass: constants are skipped, sizes come from the trace.          *)
bind_number == Many(Num(Char))
bind_varidentifier == Only(<<Skip, Many(Num(Char))>>)
bind_constidentifier == Only(<<Skip, Many(Num(Char))>>)
bind_contextidentifier == Only(<<Skip, Skip, Many(Num(Char))>>)
bind_intconstant ==
  Only(<<Skip,
         Alts(<<<<"ASCII",
                  Only(<<Skip,
                         Alts(<<<<"ESCAPE", Only(<<Skip, Num(Char)>>)>>,
                                <<"DIRECT", Num(Char)>>>>), Skip>>)>>,
                <<"NUMBER", Name("number")>>>>)>>)
bind_intp ==
  Alts(<<<<"UNSIGNED", Only(<<Skip, Many(Num(Char))>>)>>,
         <<"SIGNED", Only(<<Skip, Many(Num(Char))>>)>>>>)
bind_constint == Fields(<<Name("intp"), Skip, Name("intconstant")>>)
bind_arrayvalue ==
  Alts(<<<<"STRING", Only(<<Skip, Skip, Many(Num(Char)), Skip>>)>>,
         <<"VALUES", Only(<<Skip, Many(Name("intconstant")), Skip>>)>>>>)
bind_constarray == Fields(<<Skip, Name("intp"), Skip, Name("arrayvalue")>>)
bind_constfields == SepBy(Skip, Name("constparser"))
bind_constparser ==
  Alts(<<<<"CARRAY", Name("constarray")>>,
         <<"CREPEAT", Only(<<Skip, Ref("constparser")>>)>>, <<"CINT", Name("constint")>>,
         <<"CREF", Name("constidentifier")>>,
         <<"CSTRUCT", Only(<<Skip, Name("constfields"), Skip>>)>>,
         <<"CUNION", Many(Only(<<Skip, Name("constparser")>>))>>>>)
bind_intconstraint ==
  Alts(<<<<"RANGE",
           Fields(<<Optional(Name("intconstant")), Skip,
                    Optional(Name("intconstant"))>>)>>,
         <<"SET", Only(<<Skip, SepBy(Skip, Name("intconstant")), Skip>>)>>,
         <<"NEGATE", Only(<<Skip, Ref("intconstraint")>>)>>>>)
bind_constrainedint ==
  Fields(<<Name("intp"), Optional(Only(<<Skip, Name("intconstraint")>>))>>)
bind_structparser ==
  Only(<<Skip,
         SepBy(Skip,
               Alts(<<<<"CONSTANT", Name("constparser")>>,
                      <<"CONTEXT",
                        Fields(<<Name("contextidentifier"), Name("constrainedint")>>)>>,
                      <<"FIELD", Fields(<<Name("varidentifier"), Ref("parser")>>)>>>>)),
         Skip>>)
bind_wrapparser ==
  Fields(<<Skip, Optional(Only(<<SepBy(Skip, Name("constparser")), Skip>>)), Ref("parser"),
           Optional(Only(<<Skip, SepBy(Skip, Name("constparser"))>>)), Skip>>)
bind_choiceparser ==
  Only(<<Skip, Skip, Many(Fields(<<Name("constidentifier"), Skip, Ref("parser")>>)), Skip>>)
bind_arrayparser ==
  Alts(<<<<"MANYONE", Only(<<Skip, Ref("parser")>>)>>,
         <<"MANY", Only(<<Skip, Ref("parser")>>)>>,
         <<"SEPBYONE", Fields(<<Skip, Name("constparser"), Ref("parser")>>)>>,
         <<"SEPBY", Fields(<<Skip, Name("constparser"), Ref("parser")>>)>>>>)
bind_parserinner ==
  Alts(<<<<"INT", Name("constrainedint")>>, <<"STRUCT", Name("structparser")>>,
         <<"WRAP", Name("wrapparser")>>, <<"CHOICE", Name("choiceparser")>>,
         <<"ARRAY", Name("arrayparser")>>,
         <<"LENGTH", Fields(<<Skip, Name("contextidentifier"), Ref("parser")>>)>>,
         <<"OPTIONAL", Only(<<Skip, Ref("parser")>>)>>,
         <<"UNION", Many(Only(<<Skip, Ref("parser")>>))>>,
         <<"REF", Only(<<Skip, Name("varidentifier")>>)>>,
         <<"NAME", Name("varidentifier")>>>>)
bind_parser ==
  Alts(<<<<"PAREN", Only(<<Skip, Name("parserinner"), Skip>>)>>,
         <<"PR", Name("parserinner")>>>>)
bind_definition ==
  Alts(<<<<"PARSER", Fields(<<Name("varidentifier"), Skip, Name("parser")>>)>>,
         <<"CONST",
           Fields(<<Name("constidentifier"), Skip, Skip, Skip, Name("constparser")>>)>>>>)
bind_grammar_LeavesWhite == Many(Name("definition"))    \* mutant: the cell of WHITE is left
bind_grammar == Only(<<Many(Name("definition")), Skip>>)

-----------------------------------------------------------------------------
(* Generator.                                                              *)
gen_WHITE == Lit(<<" ">>)
gen_SEPERATOR == Lit(<<" ", "nl">>)
gen_t(word) == Lit(<<" ">> \o Spelled(word))
gen_number == Many(Num(AnyChar))
gen_varidentifier == Only(<<gen_WHITE, Many(Num(AnyChar))>>)
gen_constidentifier == Only(<<gen_WHITE, Many(Num(AnyChar))>>)
gen_contextidentifier == Only(<<gen_t("@"), Many(Num(AnyChar))>>)
gen_intconstant ==
  Only(<<gen_WHITE,
         Alts(<<<<"ASCII",
                  Only(<<Text("'"),
                         Alts(<<<<"ESCAPE", Only(<<Text("\\"), Num(AnyChar)>>)>>,
                                <<"DIRECT", Num(AnyChar)>>>>), Text("'")>>)>>,
                <<"NUMBER", Name("number")>>>>)>>)
gen_intp ==
  Alts(<<<<"UNSIGNED", Only(<<gen_t("uint"), Many(Num(AnyChar))>>)>>,
         <<"SIGNED", Only(<<gen_t("int"), Many(Num(AnyChar))>>)>>>>)
gen_constint == Fields(<<Name("intp"), gen_t("="), Name("intconstant")>>)
gen_arrayvalue ==
  Alts(<<<<"STRING", Only(<<gen_t("\""), Many(Num(AnyChar)), Text("\"")>>)>>,
         <<"VALUES", Only(<<gen_t("["), Many(Name("intconstant")), gen_t("]")>>)>>>>)
gen_constarray == Fields(<<gen_t("many "), Name("intp"), gen_t("="), Name("arrayvalue")>>)
gen_constfields == SepBy(gen_SEPERATOR, Name("constparser"))
gen_constparser ==
  Alts(<<<<"CARRAY", Name("constarray")>>,
         <<"CREPEAT", Only(<<gen_t("many "), Name("constparser")>>)>>,
         <<"CINT", Name("constint")>>, <<"CREF", Name("constidentifier")>>,
         <<"CSTRUCT", Only(<<gen_t("{"), Name("constfields"), gen_t("}")>>)>>,
         <<"CUNION", Many(Only(<<gen_t("||"), Name("constparser")>>))>>>>)
gen_intconstraint ==
  Alts(<<<<"RANGE",
           Fields(<<Optional(Name("intconstant")), gen_t(".."),
                    Optional(Name("intconstant"))>>)>>,
         <<"SET",
           Only(<<gen_t("["), SepBy(Text(","), Name("intconstant")), gen_t("]")>>)>>,
         <<"NEGATE", Only(<<gen_t("!"), Name("intconstraint")>>)>>>>)
gen_constrainedint ==
  Fields(<<Name("intp"), Optional(Only(<<gen_t("|"), Name("intconstraint")>>))>>)
gen_structparser ==
  Only(<<gen_t("{"),
         SepBy(gen_SEPERATOR,
               Alts(<<<<"CONSTANT", Name("constparser")>>,
                      <<"CONTEXT",
                        Fields(<<Name("contextidentifier"), Name("constrainedint")>>)>>,
                      <<"FIELD", Fields(<<Name("varidentifier"), Name("parser")>>)>>>>)),
         gen_t("}")>>)
gen_wrapparser ==
  Fields(<<gen_t("<"),
           Optional(Only(<<SepBy(gen_SEPERATOR, Name("constparser")), gen_SEPERATOR>>)),
           Name("parser"),
           Optional(Only(<<gen_SEPERATOR, SepBy(gen_SEPERATOR, Name("constparser"))>>)),
           gen_t(">")>>)
gen_choiceparser ==
  Only(<<gen_t("choose"), gen_t("{"),
         Many(Fields(<<Name("constidentifier"), gen_t("="), Name("parser")>>)),
         gen_t("}")>>)
gen_arrayparser ==
  Alts(<<<<"MANYONE", Only(<<gen_t("many1"), Name("parser")>>)>>,
         <<"MANY", Only(<<gen_t("many"), Name("parser")>>)>>,
         <<"SEPBYONE", Fields(<<gen_t("sepBy1"), Name("constparser"), Name("parser")>>)>>,
         <<"SEPBY", Fields(<<gen_t("sepBy"), Name("constparser"), Name("parser")>>)>>>>)
gen_parserinner ==
  Alts(<<<<"INT", Name("constrainedint")>>, <<"STRUCT", Name("structparser")>>,
         <<"WRAP", Name("wrapparser")>>, <<"CHOICE", Name("choiceparser")>>,
         <<"ARRAY", Name("arrayparser")>>,
         <<"LENGTH",
           Fields(<<gen_t("n_of"), Name("contextidentifier"), Name("parser")>>)>>,
         <<"OPTIONAL", Only(<<gen_t("optional "), Name("parser")>>)>>,
         <<"UNION", Many(Only(<<gen_t("||"), Name("parser")>>))>>,
         <<"REF", Only(<<gen_t("*"), Name("varidentifier")>>)>>,
         <<"NAME", Name("varidentifier")>>>>)
gen_parser ==
  Alts(<<<<"PAREN", Only(<<gen_t("("), Name("parserinner"), gen_t(")")>>)>>,
         <<"PR", Name("parserinner")>>>>)
gen_definition ==
  Alts(<<<<"PARSER", Fields(<<Name("varidentifier"), gen_t("="), Name("parser")>>)>>,
         <<"CONST",
           Fields(<<Name("constidentifier"), gen_t("="), gen_WHITE,
                    Name("constparser")>>)>>>>)
gen_grammar == Only(<<Many(Name("definition")), gen_WHITE>>)

-----------------------------------------------------------------------------
(* The rules by name.                                                      *)
PegRules ==
  "number" :> packrat_number @@ "varidentifier" :> packrat_varidentifier @@
  "constidentifier" :> packrat_constidentifier @@
  "contextidentifier" :> packrat_contextidentifier @@
  "intconstant" :> packrat_intconstant @@ "intp" :> packrat_intp @@
  "constint" :> packrat_constint @@ "arrayvalue" :> packrat_arrayvalue @@
  "constarray" :> packrat_constarray @@ "constfields" :> packrat_constfields @@
  "constparser" :> packrat_constparser @@ "intconstraint" :> packrat_intconstraint @@
  "constrainedint" :> packrat_constrainedint @@ "structparser" :> packrat_structparser @@
  "wrapparser" :> packrat_wrapparser @@ "choiceparser" :> packrat_choiceparser @@
  "arrayparser" :> packrat_arrayparser @@ "parserinner" :> packrat_parserinner @@
  "parser" :> packrat_parser @@ "definition" :> packrat_definition @@
  "grammar" :> packrat_grammar
BindRules ==
  "number" :> bind_number @@ "varidentifier" :> bind_varidentifier @@
  "constidentifier" :> bind_constidentifier @@
  "contextidentifier" :> bind_contextidentifier @@ "intconstant" :> bind_intconstant @@
  "intp" :> bind_intp @@ "constint" :> bind_constint @@ "arrayvalue" :> bind_arrayvalue @@
  "constarray" :> bind_constarray @@ "constfields" :> bind_constfields @@
  "constparser" :> bind_constparser @@ "intconstraint" :> bind_intconstraint @@
  "constrainedint" :> bind_constrainedint @@ "structparser" :> bind_structparser @@
  "wrapparser" :> bind_wrapparser @@ "choiceparser" :> bind_choiceparser @@
  "arrayparser" :> bind_arrayparser @@ "parserinner" :> bind_parserinner @@
  "parser" :> bind_parser @@ "definition" :> bind_definition @@ "grammar" :> bind_grammar
GenRules ==
  "number" :> gen_number @@ "varidentifier" :> gen_varidentifier @@
  "constidentifier" :> gen_constidentifier @@
  "contextidentifier" :> gen_contextidentifier @@ "intconstant" :> gen_intconstant @@
  "intp" :> gen_intp @@ "constint" :> gen_constint @@ "arrayvalue" :> gen_arrayvalue @@
  "constarray" :> gen_constarray @@ "constfields" :> gen_constfields @@
  "constparser" :> gen_constparser @@ "intconstraint" :> gen_intconstraint @@
  "constrainedint" :> gen_constrainedint @@ "structparser" :> gen_structparser @@
  "wrapparser" :> gen_wrapparser @@ "choiceparser" :> gen_choiceparser @@
  "arrayparser" :> gen_arrayparser @@ "parserinner" :> gen_parserinner @@
  "parser" :> gen_parser @@ "definition" :> gen_definition @@ "grammar" :> gen_grammar
=============================================================================
