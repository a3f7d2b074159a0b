----------------------------- MODULE NewGrammar ----------------------------
(***************************************************************************)
(* The parser and generator of the grammar language in use,                 *)
(* generator/new_grammar.nail.c, as cnail emitted them: what each peg_X     *)
(* recognises, what each bind_X reads back, and what each gen_X writes.     *)
(* TwoPass.tla and Generator.tla say how such code runs.  An alternative of *)
(* a long choice has a definition of its own.                               *)
(***************************************************************************)
EXTENDS GrammarText

-----------------------------------------------------------------------------
(* First pass.                                                             *)
peg_WHITE == CMany(CUnion(<<Lit(<<" ">>), Lit(<<"nl">>)>>))
peg_SEPERATOR == CStruct(<<CMany(Lit(<<" ">>)), CMany(CUnion(<<Lit(<<"nl">>), Lit(<<";">>)>>))>>)
t(word) == CStruct(<<peg_WHITE, Text(word)>>)

peg_number == Many1(Num(Digit))
peg_varidentifier == Only(<<peg_WHITE, Many1(Num(Lower))>>)
peg_constidentifier == Only(<<peg_WHITE, Many1(Num(Upper))>>)
peg_streamidentifier == Only(<<peg_WHITE, Text("$"), Many1(Num(Lower))>>)
peg_dependencyidentifier == Only(<<peg_WHITE, Text("@"), Many1(Num(Lower))>>)
peg_intconstant ==
  Only(<<peg_WHITE,
         Alts(<<<<"ASCII",
                  Only(<<Text("'"),
                         Alts(<<<<"ESCAPE", Only(<<Text("\\"), Num(AnyChar)>>)>>,
                                <<"DIRECT", Num(AnyChar)>>>>), Text("'")>>)>>,
                <<"HEX",
                  Only(<<Text("0"), Text("x"),
                         Many(Union(<<Num(Digit), Num(HexLetter)>>))>>)>>,
                <<"NUMBER", Name("number")>>>>)>>)
peg_intp ==
  Alts(<<<<"UNSIGN", Only(<<t("uint"), Many1(Num(Digit))>>)>>,
         <<"SIGN", Only(<<t("int"), Many1(Num(Digit))>>)>>>>)
peg_constint == Fields(<<Name("intp"), t("="), Name("intconstant")>>)
peg_arrayvalue ==
  Alts(<<<<"STRING", Only(<<peg_WHITE, Text("\""), Many(Num(NotQuote)), Text("\"")>>)>>,
         <<"VALUES", Only(<<t("["), Many(Name("intconstant")), t("]")>>)>>>>)
peg_constarray == Fields(<<t("many "), Name("intp"), t("="), Name("arrayvalue")>>)
peg_constfields == SepBy1(peg_SEPERATOR, Name("constparser"))
peg_constparser_CARRAY ==
  <<<<"CARRAY", Name("constarray")>>,
    <<"CREPEAT", Only(<<t("many "), Name("constparser")>>)>>, <<"CINT", Name("constint")>>,
    <<"CREF", Name("constidentifier")>>,
    <<"CSTRUCT", Only(<<t("{"), Name("constfields"), t("}")>>)>>>>
peg_constparser_CUNION == <<<<"CUNION", Many1(Only(<<t("||"), Name("constparser")>>))>>>>
peg_constparser == Alts(peg_constparser_CARRAY \o peg_constparser_CUNION)
peg_constraintelem ==
  Alts(<<<<"RANGE",
           Fields(<<Optional(Name("intconstant")), t(".."),
                    Optional(Name("intconstant"))>>)>>,
         <<"INTVALUE", Name("intconstant")>>>>)
peg_intconstraint ==
  Alts(<<<<"SINGLE", Name("constraintelem")>>,
         <<"SET", Only(<<t("["), SepBy1(Text(","), Name("constraintelem")), t("]")>>)>>,
         <<"NEGATE", Only(<<t("!"), Name("intconstraint")>>)>>>>)
peg_constrainedint ==
  Fields(<<Name("intp"), Optional(Only(<<t("|"), Name("intconstraint")>>))>>)
peg_transform ==
  Fields(<<SepBy(t(","), Name("streamidentifier")), t("transform"), Name("varidentifier"),
           t("("), Many(Name("parameter")), t(")")>>)
peg_structparser ==
  Only(<<t("{"),
         SepBy(peg_SEPERATOR,
               Alts(<<<<"CONSTANT", Name("constparser")>>,
                      <<"DEPENDENCY",
                        Fields(<<Name("dependencyidentifier"), Name("parser")>>)>>,
                      <<"TRANSFORM", Name("transform")>>,
                      <<"FIELD", Fields(<<Name("varidentifier"), Name("parser")>>)>>>>)),
         t("}")>>)
peg_wrapparser ==
  Fields(<<t("<"),
           Optional(Only(<<SepBy1(peg_SEPERATOR, Name("constparser")), peg_SEPERATOR>>)),
           Name("parser"),
           Optional(Only(<<peg_SEPERATOR, SepBy(peg_SEPERATOR, Name("constparser"))>>)),
           t(">")>>)
peg_choiceparser ==
  Only(<<t("choose"), t("{"),
         Many(Fields(<<Name("constidentifier"), t("="), Name("parser")>>)), t("}")>>)
peg_selectparser ==
  Fields(<<t("select"), t("("), Name("dependencyidentifier"), t(")"), t("{"),
           Many(Fields(<<Name("constidentifier"), t("="), Name("intconstant"),
                         Name("parser")>>)), t("}")>>)
peg_arrayparser_MANYONE_Swapped ==      \* mutant: many is tried before many1
  <<<<"MANY", Only(<<t("many"), Name("parser")>>)>>,
    <<"MANYONE", Only(<<t("many1"), Name("parser")>>)>>>>
peg_arrayparser_MANYONE ==
  <<<<"MANYONE", Only(<<t("many1"), Name("parser")>>)>>,
    <<"MANY", Only(<<t("many"), Name("parser")>>)>>>>
peg_arrayparser_SEPBYONE ==
  <<<<"SEPBYONE", Fields(<<t("sepBy1"), Name("constparser"), Name("parser")>>)>>,
    <<"SEPBY", Fields(<<t("sepBy"), Name("constparser"), Name("parser")>>)>>>>
peg_arrayparser == Alts(peg_arrayparser_MANYONE \o peg_arrayparser_SEPBYONE)
peg_parameter ==
  Alts(<<<<"PDEPENDENCY", Name("dependencyidentifier")>>,
         <<"PSTREAM", Name("streamidentifier")>>>>)
peg_parameterlist == Only(<<t("("), SepBy1(t(","), Name("parameter")), t(")")>>)
peg_parameterdefinition ==
  Alts(<<<<"DSTREAM", Name("streamidentifier")>>,
         <<"DDEPENDENCY", Fields(<<Name("dependencyidentifier"), Name("parser")>>)>>>>)
peg_parameterdefinitionlist ==
  Only(<<t("("), SepBy1(t(","), Name("parameterdefinition")), t(")")>>)
peg_parserinvocation == Fields(<<Name("varidentifier"), Optional(Name("parameterlist"))>>)
peg_parserinner_INTEGER ==
  <<<<"INTEGER", Name("constrainedint")>>, <<"STRUCTURE", Name("structparser")>>,
    <<"WRAP", Name("wrapparser")>>, <<"CHOICE", Name("choiceparser")>>,
    <<"SELECTP", Name("selectparser")>>, <<"ARRAY", Name("arrayparser")>>,
    <<"FIXEDARRAY", Fields(<<t("["), Name("intconstant"), t("]"), Name("parser")>>)>>,
    <<"LENGTH", Fields(<<t("n_of"), Name("dependencyidentifier"), Name("parser")>>)>>>>
peg_parserinner_APPLY ==
  <<<<"APPLY", Fields(<<t("apply"), Name("streamidentifier"), Name("parser")>>)>>,
    <<"OPTIONAL", Only(<<t("optional "), Name("parser")>>)>>>>
peg_parserinner_NUNION ==
  <<<<"NUNION", Many1(Only(<<t("||"), Name("parser")>>))>>,
    <<"REF", Only(<<t("*"), Name("parserinvocation")>>)>>,
    <<"NAME", Name("parserinvocation")>>>>
peg_parserinner ==
  Alts(peg_parserinner_INTEGER \o peg_parserinner_APPLY \o peg_parserinner_NUNION)
peg_parser ==
  Alts(<<<<"PAREN", Only(<<t("("), Name("parserinner"), t(")")>>)>>,
         <<"PR", Name("parserinner")>>>>)
peg_definition_PARSER ==
  <<<<"PARSER",
      Fields(<<Name("varidentifier"), Optional(Name("parameterdefinitionlist")), t("="),
               Name("parser")>>)>>,
    <<"CONSTANTDEF",
      Fields(<<Name("constidentifier"), peg_WHITE, Text("="), peg_WHITE,
               Name("constparser")>>)>>>>
peg_definition_ENDIAN ==
  <<<<"ENDIAN",
      Alts(<<<<"LITTLE", Fields(<<peg_WHITE, Text("!LITTLE-ENDIAN")>>)>>,
             <<"BIG", Fields(<<peg_WHITE, Text("!BIG-ENDIAN")>>)>>>>)>>>>
peg_definition == Alts(peg_definition_PARSER \o peg_definition_ENDIAN)
peg_grammar == Only(<<Many1(Name("definition")), peg_WHITE>>)

-----------------------------------------------------------------------------
(* Second pass: constants are skipped, sizes come from the trace.          *)
bind_number == Many(Num(Char))
bind_varidentifier == Only(<<Skip, Many(Num(Char))>>)
bind_constidentifier == Only(<<Skip, Many(Num(Char))>>)
bind_streamidentifier == Only(<<Skip, Skip, Many(Num(Char))>>)
bind_dependencyidentifier == Only(<<Skip, Skip, Many(Num(Char))>>)
bind_intconstant ==
  Only(<<Skip,
         Alts(<<<<"ASCII",
                  Only(<<Skip,
                         Alts(<<<<"ESCAPE", Only(<<Skip, Num(Char)>>)>>,
                                <<"DIRECT", Num(Char)>>>>), Skip>>)>>,
                <<"HEX", Only(<<Skip, Skip, Many(Union(<<Num(Char), Num(Char)>>))>>)>>,
                <<"NUMBER", Name("number")>>>>)>>)
bind_intp ==
  Alts(<<<<"UNSIGN", Only(<<Skip, Many(Num(Char))>>)>>,
         <<"SIGN", Only(<<Skip, Many(Num(Char))>>)>>>>)
bind_constint == Fields(<<Name("intp"), Skip, Name("intconstant")>>)
bind_arrayvalue ==
  Alts(<<<<"STRING", Only(<<Skip, Skip, Many(Num(Char)), Skip>>)>>,
         <<"VALUES", Only(<<Skip, Many(Name("intconstant")), Skip>>)>>>>)
bind_constarray == Fields(<<Skip, Name("intp"), Skip, Name("arrayvalue")>>)
bind_constfields == SepBy(Skip, Name("constparser"))
bind_constparser ==
  Alts(<<<<"CARRAY", Name("constarray")>>,
         <<"CREPEAT", Only(<<Skip, Ref("constparser")>>)>>, <<"CINT", Name("constint")>>,
         <<"CREF", Name("constidentifier")>>,
         <<"CSTRUCT", Only(<<Skip, Name("constfields"), Skip>>)>>,
         <<"CUNION", Many(Only(<<Skip, Name("constparser")>>))>>>>)
bind_constraintelem ==
  Alts(<<<<"RANGE",
           Fields(<<Optional(Name("intconstant")), Skip,
                    Optional(Name("intconstant"))>>)>>,
         <<"INTVALUE", Name("intconstant")>>>>)
bind_intconstraint ==
  Alts(<<<<"SINGLE", Name("constraintelem")>>,
         <<"SET", Only(<<Skip, SepBy(Skip, Name("constraintelem")), Skip>>)>>,
         <<"NEGATE", Only(<<Skip, Ref("intconstraint")>>)>>>>)
bind_constrainedint ==
  Fields(<<Name("intp"), Optional(Only(<<Skip, Name("intconstraint")>>))>>)
bind_transform ==
  Fields(<<SepBy(Skip, Name("streamidentifier")), Skip, Name("varidentifier"), Skip,
           Many(Name("parameter")), Skip>>)
bind_structparser ==
  Only(<<Skip,
         SepBy(Skip,
               Alts(<<<<"CONSTANT", Name("constparser")>>,
                      <<"DEPENDENCY",
                        Fields(<<Name("dependencyidentifier"), Ref("parser")>>)>>,
                      <<"TRANSFORM", Name("transform")>>,
                      <<"FIELD", Fields(<<Name("varidentifier"), Ref("parser")>>)>>>>)),
         Skip>>)
bind_wrapparser ==
  Fields(<<Skip, Optional(Only(<<SepBy(Skip, Name("constparser")), Skip>>)), Ref("parser"),
           Optional(Only(<<Skip, SepBy(Skip, Name("constparser"))>>)), Skip>>)
bind_choiceparser ==
  Only(<<Skip, Skip, Many(Fields(<<Name("constidentifier"), Skip, Ref("parser")>>)), Skip>>)
bind_selectparser ==
  Fields(<<Skip, Skip, Name("dependencyidentifier"), Skip, Skip,
           Many(Fields(<<Name("constidentifier"), Skip, Name("intconstant"),
                         Ref("parser")>>)), Skip>>)
bind_arrayparser ==
  Alts(<<<<"MANYONE", Only(<<Skip, Ref("parser")>>)>>,
         <<"MANY", Only(<<Skip, Ref("parser")>>)>>,
         <<"SEPBYONE", Fields(<<Skip, Name("constparser"), Ref("parser")>>)>>,
         <<"SEPBY", Fields(<<Skip, Name("constparser"), Ref("parser")>>)>>>>)
bind_parameter ==
  Alts(<<<<"PDEPENDENCY", Name("dependencyidentifier")>>,
         <<"PSTREAM", Name("streamidentifier")>>>>)
bind_parameterlist == Only(<<Skip, SepBy(Skip, Name("parameter")), Skip>>)
bind_parameterdefinition ==
  Alts(<<<<"DSTREAM", Name("streamidentifier")>>,
         <<"DDEPENDENCY", Fields(<<Name("dependencyidentifier"), Ref("parser")>>)>>>>)
bind_parameterdefinitionlist ==
  Only(<<Skip, SepBy(Skip, Name("parameterdefinition")), Skip>>)
bind_parserinvocation == Fields(<<Name("varidentifier"), Optional(Name("parameterlist"))>>)
bind_parserinner ==
  Alts(<<<<"INTEGER", Name("constrainedint")>>, <<"STRUCTURE", Name("structparser")>>,
         <<"WRAP", Name("wrapparser")>>, <<"CHOICE", Name("choiceparser")>>,
         <<"SELECTP", Name("selectparser")>>, <<"ARRAY", Name("arrayparser")>>,
         <<"FIXEDARRAY", Fields(<<Skip, Name("intconstant"), Skip, Ref("parser")>>)>>,
         <<"LENGTH", Fields(<<Skip, Name("dependencyidentifier"), Ref("parser")>>)>>,
         <<"APPLY", Fields(<<Skip, Name("streamidentifier"), Ref("parser")>>)>>,
         <<"OPTIONAL", Only(<<Skip, Ref("parser")>>)>>,
         <<"NUNION", Many(Only(<<Skip, Ref("parser")>>))>>,
         <<"REF", Only(<<Skip, Name("parserinvocation")>>)>>,
         <<"NAME", Name("parserinvocation")>>>>)
bind_parser ==
  Alts(<<<<"PAREN", Only(<<Skip, Name("parserinner"), Skip>>)>>,
         <<"PR", Name("parserinner")>>>>)
bind_definition ==
  Alts(<<<<"PARSER",
           Fields(<<Name("varidentifier"), Optional(Name("parameterdefinitionlist")),
                    Skip, Name("parser")>>)>>,
         <<"CONSTANTDEF",
           Fields(<<Name("constidentifier"), Skip, Skip, Skip, Name("constparser")>>)>>,
         <<"ENDIAN",
           Alts(<<<<"LITTLE", Fields(<<Skip, Skip>>)>>,
                  <<"BIG", Fields(<<Skip, Skip>>)>>>>)>>>>)
bind_grammar == Only(<<Many(Name("definition")), Skip>>)

-----------------------------------------------------------------------------
(* Generator.                                                              *)
gen_WHITE == Lit(<<" ">>)
gen_SEPERATOR == Lit(<<" ", "nl">>)
gen_t(word) == Lit(<<" ">> \o Spelled(word))
gen_number == Many(Num(Digit))
gen_varidentifier == Only(<<gen_WHITE, Many(Num(Lower))>>)
gen_constidentifier == Only(<<gen_WHITE, Many(Num(Upper))>>)
gen_streamidentifier == Only(<<gen_t("$"), Many(Num(Lower))>>)
gen_dependencyidentifier == Only(<<gen_t("@"), Many(Num(Lower))>>)
gen_intconstant ==
  Only(<<gen_WHITE,
         Alts(<<<<"ASCII",
                  Only(<<Text("'"),
                         Alts(<<<<"ESCAPE", Only(<<Text("\\"), Num(AnyChar)>>)>>,
                                <<"DIRECT", Num(AnyChar)>>>>), Text("'")>>)>>,
                <<"HEX", Only(<<Text("0x"), Many(Num(Digit))>>)>>,
                <<"NUMBER", Name("number")>>>>)>>)
gen_intp ==
  Alts(<<<<"UNSIGN", Only(<<gen_t("uint"), Many(Num(Digit))>>)>>,
         <<"SIGN", Only(<<gen_t("int"), Many(Num(Digit))>>)>>>>)
gen_constint == Fields(<<Name("intp"), gen_t("="), Name("intconstant")>>)
gen_arrayvalue ==
  Alts(<<<<"STRING", Only(<<gen_t("\""), Many(Num(NotQuote)), Text("\"")>>)>>,
         <<"VALUES", Only(<<gen_t("["), Many(Name("intconstant")), gen_t("]")>>)>>>>)
gen_constarray == Fields(<<gen_t("many "), Name("intp"), gen_t("="), Name("arrayvalue")>>)
gen_constfields == SepBy(gen_SEPERATOR, Name("constparser"))
gen_constparser ==
  Alts(<<<<"CARRAY", Name("constarray")>>,
         <<"CREPEAT", Only(<<gen_t("many "), Ref("constparser")>>)>>,
         <<"CINT", Name("constint")>>, <<"CREF", Name("constidentifier")>>,
         <<"CSTRUCT", Only(<<gen_t("{"), Name("constfields"), gen_t("}")>>)>>,
         <<"CUNION", Many(Only(<<gen_t("||"), Name("constparser")>>))>>>>)
gen_constraintelem ==
  Alts(<<<<"RANGE",
           Fields(<<Optional(Name("intconstant")), gen_t(".."),
                    Optional(Name("intconstant"))>>)>>,
         <<"INTVALUE", Name("intconstant")>>>>)
gen_intconstraint ==
  Alts(<<<<"SINGLE", Name("constraintelem")>>,
         <<"SET",
           Only(<<gen_t("["), SepBy(Text(","), Name("constraintelem")), gen_t("]")>>)>>,
         <<"NEGATE", Only(<<gen_t("!"), Ref("intconstraint")>>)>>>>)
gen_constrainedint ==
  Fields(<<Name("intp"), Optional(Only(<<gen_t("|"), Name("intconstraint")>>))>>)
gen_transform ==
  Fields(<<SepBy(gen_t(","), Name("streamidentifier")), gen_t("transform"),
           Name("varidentifier"), gen_t("("), Many(Name("parameter")), gen_t(")")>>)
gen_structparser ==
  Only(<<gen_t("{"),
         SepBy(gen_SEPERATOR,
               Alts(<<<<"CONSTANT", Name("constparser")>>,
                      <<"DEPENDENCY",
                        Fields(<<Name("dependencyidentifier"), Ref("parser")>>)>>,
                      <<"TRANSFORM", Name("transform")>>,
                      <<"FIELD", Fields(<<Name("varidentifier"), Ref("parser")>>)>>>>)),
         gen_t("}")>>)
gen_wrapparser ==
  Fields(<<gen_t("<"),
           Optional(Only(<<SepBy(gen_SEPERATOR, Name("constparser")), gen_SEPERATOR>>)),
           Ref("parser"),
           Optional(Only(<<gen_SEPERATOR, SepBy(gen_SEPERATOR, Name("constparser"))>>)),
           gen_t(">")>>)
gen_choiceparser ==
  Only(<<gen_t("choose"), gen_t("{"),
         Many(Fields(<<Name("constidentifier"), gen_t("="), Ref("parser")>>)), gen_t("}")>>)
gen_selectparser ==
  Fields(<<gen_t("select"), gen_t("("), Name("dependencyidentifier"), gen_t(")"),
           gen_t("{"),
           Many(Fields(<<Name("constidentifier"), gen_t("="), Name("intconstant"),
                         Ref("parser")>>)), gen_t("}")>>)
gen_arrayparser ==
  Alts(<<<<"MANYONE", Only(<<gen_t("many1"), Ref("parser")>>)>>,
         <<"MANY", Only(<<gen_t("many"), Ref("parser")>>)>>,
         <<"SEPBYONE", Fields(<<gen_t("sepBy1"), Name("constparser"), Ref("parser")>>)>>,
         <<"SEPBY", Fields(<<gen_t("sepBy"), Name("constparser"), Ref("parser")>>)>>>>)
gen_parameter ==
  Alts(<<<<"PDEPENDENCY", Name("dependencyidentifier")>>,
         <<"PSTREAM", Name("streamidentifier")>>>>)
gen_parameterlist == Only(<<gen_t("("), SepBy(gen_t(","), Name("parameter")), gen_t(")")>>)
gen_parameterdefinition ==
  Alts(<<<<"DSTREAM", Name("streamidentifier")>>,
         <<"DDEPENDENCY", Fields(<<Name("dependencyidentifier"), Ref("parser")>>)>>>>)
gen_parameterdefinitionlist ==
  Only(<<gen_t("("), SepBy(gen_t(","), Name("parameterdefinition")), gen_t(")")>>)
gen_parserinvocation == Fields(<<Name("varidentifier"), Optional(Name("parameterlist"))>>)
gen_parserinner ==
  Alts(<<<<"INTEGER", Name("constrainedint")>>, <<"STRUCTURE", Name("structparser")>>,
         <<"WRAP", Name("wrapparser")>>, <<"CHOICE", Name("choiceparser")>>,
         <<"SELECTP", Name("selectparser")>>, <<"ARRAY", Name("arrayparser")>>,
         <<"FIXEDARRAY",
           Fields(<<gen_t("["), Name("intconstant"), gen_t("]"), Ref("parser")>>)>>,
         <<"LENGTH",
           Fields(<<gen_t("n_of"), Name("dependencyidentifier"), Ref("parser")>>)>>,
         <<"APPLY", Fields(<<gen_t("apply"), Name("streamidentifier"), Ref("parser")>>)>>,
         <<"OPTIONAL", Only(<<gen_t("optional "), Ref("parser")>>)>>,
         <<"NUNION", Many(Only(<<gen_t("||"), Ref("parser")>>))>>,
         <<"REF", Only(<<gen_t("*"), Name("parserinvocation")>>)>>,
         <<"NAME", Name("parserinvocation")>>>>)
gen_parser ==
  Alts(<<<<"PAREN", Only(<<gen_t("("), Name("parserinner"), gen_t(")")>>)>>,
         <<"PR", Name("parserinner")>>>>)
gen_definition ==
  Alts(<<<<"PARSER",
           Fields(<<Name("varidentifier"), Optional(Name("parameterdefinitionlist")),
                    gen_t("="), Name("parser")>>)>>,
         <<"CONSTANTDEF",
           Fields(<<Name("constidentifier"), gen_t("="), gen_WHITE,
                    Name("constparser")>>)>>,
         <<"ENDIAN",
           Alts(<<<<"LITTLE", Fields(<<gen_t("!LITTLE-ENDIAN")>>)>>,
                  <<"BIG", Fields(<<gen_t("!BIG-ENDIAN")>>)>>>>)>>>>)
gen_grammar == Only(<<Many(Name("definition")), gen_WHITE>>)

-----------------------------------------------------------------------------
(* parse_X, the only functions the header declares: the two passes of a     *)
(* rule over one text, a trace between them (TwoPass!PegAll, BindAll).      *)
Passes(peg, bind) == [peg |-> peg, bind |-> bind]

parse_number == Passes(peg_number, bind_number)
parse_varidentifier == Passes(peg_varidentifier, bind_varidentifier)
parse_constidentifier == Passes(peg_constidentifier, bind_constidentifier)
parse_streamidentifier == Passes(peg_streamidentifier, bind_streamidentifier)
parse_dependencyidentifier == Passes(peg_dependencyidentifier, bind_dependencyidentifier)
parse_intconstant == Passes(peg_intconstant, bind_intconstant)
parse_intp == Passes(peg_intp, bind_intp)
parse_constint == Passes(peg_constint, bind_constint)
parse_arrayvalue == Passes(peg_arrayvalue, bind_arrayvalue)
parse_constarray == Passes(peg_constarray, bind_constarray)
parse_constfields == Passes(peg_constfields, bind_constfields)
parse_constparser == Passes(peg_constparser, bind_constparser)
parse_constraintelem == Passes(peg_constraintelem, bind_constraintelem)
parse_intconstraint == Passes(peg_intconstraint, bind_intconstraint)
parse_constrainedint == Passes(peg_constrainedint, bind_constrainedint)
parse_transform == Passes(peg_transform, bind_transform)
parse_structparser == Passes(peg_structparser, bind_structparser)
parse_wrapparser == Passes(peg_wrapparser, bind_wrapparser)
parse_choiceparser == Passes(peg_choiceparser, bind_choiceparser)
parse_selectparser == Passes(peg_selectparser, bind_selectparser)
parse_arrayparser == Passes(peg_arrayparser, bind_arrayparser)
parse_parameter == Passes(peg_parameter, bind_parameter)
parse_parameterlist == Passes(peg_parameterlist, bind_parameterlist)
parse_parameterdefinition == Passes(peg_parameterdefinition, bind_parameterdefinition)
parse_parameterdefinitionlist == Passes(peg_parameterdefinitionlist, bind_parameterdefinitionlist)
parse_parserinvocation == Passes(peg_parserinvocation, bind_parserinvocation)
parse_parserinner == Passes(peg_parserinner, bind_parserinner)
parse_parser == Passes(peg_parser, bind_parser)
parse_definition == Passes(peg_definition, bind_definition)
parse_grammar == Passes(peg_grammar, bind_grammar)

-----------------------------------------------------------------------------
(* The rules by name.                                                      *)
ParseRules ==
  "number" :> parse_number @@ "varidentifier" :> parse_varidentifier @@
  "constidentifier" :> parse_constidentifier @@
  "streamidentifier" :> parse_streamidentifier @@
  "dependencyidentifier" :> parse_dependencyidentifier @@
  "intconstant" :> parse_intconstant @@ "intp" :> parse_intp @@
  "constint" :> parse_constint @@ "arrayvalue" :> parse_arrayvalue @@
  "constarray" :> parse_constarray @@ "constfields" :> parse_constfields @@
  "constparser" :> parse_constparser @@ "constraintelem" :> parse_constraintelem @@
  "intconstraint" :> parse_intconstraint @@ "constrainedint" :> parse_constrainedint @@
  "transform" :> parse_transform @@ "structparser" :> parse_structparser @@
  "wrapparser" :> parse_wrapparser @@ "choiceparser" :> parse_choiceparser @@
  "selectparser" :> parse_selectparser @@ "arrayparser" :> parse_arrayparser @@
  "parameter" :> parse_parameter @@ "parameterlist" :> parse_parameterlist @@
  "parameterdefinition" :> parse_parameterdefinition @@
  "parameterdefinitionlist" :> parse_parameterdefinitionlist @@
  "parserinvocation" :> parse_parserinvocation @@ "parserinner" :> parse_parserinner @@
  "parser" :> parse_parser @@ "definition" :> parse_definition @@
  "grammar" :> parse_grammar
PegRules == [r \in DOMAIN ParseRules |-> ParseRules[r].peg]
BindRules == [r \in DOMAIN ParseRules |-> ParseRules[r].bind]
GenRules ==
  "number" :> gen_number @@ "varidentifier" :> gen_varidentifier @@
  "constidentifier" :> gen_constidentifier @@ "streamidentifier" :> gen_streamidentifier @@
  "dependencyidentifier" :> gen_dependencyidentifier @@ "intconstant" :> gen_intconstant @@
  "intp" :> gen_intp @@ "constint" :> gen_constint @@ "arrayvalue" :> gen_arrayvalue @@
  "constarray" :> gen_constarray @@ "constfields" :> gen_constfields @@
  "constparser" :> gen_constparser @@ "constraintelem" :> gen_constraintelem @@
  "intconstraint" :> gen_intconstraint @@ "constrainedint" :> gen_constrainedint @@
  "transform" :> gen_transform @@ "structparser" :> gen_structparser @@
  "wrapparser" :> gen_wrapparser @@ "choiceparser" :> gen_choiceparser @@
  "selectparser" :> gen_selectparser @@ "arrayparser" :> gen_arrayparser @@
  "parameter" :> gen_parameter @@ "parameterlist" :> gen_parameterlist @@
  "parameterdefinition" :> gen_parameterdefinition @@
  "parameterdefinitionlist" :> gen_parameterdefinitionlist @@
  "parserinvocation" :> gen_parserinvocation @@ "parserinner" :> gen_parserinner @@
  "parser" :> gen_parser @@ "definition" :> gen_definition @@ "grammar" :> gen_grammar
=============================================================================
