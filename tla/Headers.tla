------------------------------ MODULE Headers ------------------------------
(***************************************************************************)
(* The headers in the tree, as they are: of the grammar language            *)
(* (generator/new_grammar.nail.h), of DNS (examples/dns_cpp/dns/dns.nail.h) *)
(* and of captured IPv6 packets (network/ipv6_test/test.nail.hh).           *)
(***************************************************************************)
EXTENDS DataModel

Struct_s(names) == [i \in DOMAIN names |-> StructOf(names[i])]

-----------------------------------------------------------------------------
(* generator/new_grammar.nail.h                                            *)
new_N_types ==
  <<"BIG", "LITTLE", "ENDIAN", "CONSTANTDEF", "PARSER", "PR", "PAREN", "NAME", "REF", "NUNION",
    "OPTIONAL", "APPLY", "LENGTH", "FIXEDARRAY", "ARRAY", "SELECTP", "CHOICE", "WRAP", "STRUCTURE",
    "INTEGER", "DDEPENDENCY", "DSTREAM", "PSTREAM", "PDEPENDENCY", "SEPBY", "SEPBYONE", "MANY",
    "MANYONE", "FIELD", "TRANSFORM", "DEPENDENCY", "CONSTANT", "NEGATE", "SET", "SINGLE", "INTVALUE",
    "RANGE", "CUNION", "CSTRUCT", "CREF", "CINT", "CREPEAT", "CARRAY", "VALUES", "STRING", "SIGN",
    "UNSIGN", "DIRECT", "ESCAPE", "NUMBER", "HEX", "ASCII">>
new_names ==
  <<"number", "varidentifier", "constidentifier", "streamidentifier", "dependencyidentifier",
    "intconstant", "intp", "constint", "arrayvalue", "constarray", "constfields", "constparser",
    "constraintelem", "intconstraint", "constrainedint", "transform", "structparser", "wrapparser",
    "choiceparser", "selectparser", "arrayparser", "parameter", "parameterlist",
    "parameterdefinition", "parameterdefinitionlist", "parserinvocation", "parserinner", "parser",
    "definition", "grammar">>
struct_number == Array(Integer)
struct_varidentifier == Array(Integer)
struct_constidentifier == Array(Integer)
struct_streamidentifier == Array(Integer)
struct_dependencyidentifier == Array(Integer)
struct_intconstant ==
  Tagged(<<"ASCII", "HEX", "NUMBER">>,
         <<Tagged(<<"ESCAPE", "DIRECT">>, <<Integer, Integer>>), Array(Integer), Typedef("number")>>)
struct_intp == Tagged(<<"UNSIGN", "SIGN">>, <<Array(Integer), Array(Integer)>>)
struct_constint == Members(<<Typedef("intp"), Typedef("intconstant")>>)
struct_arrayvalue ==
  Tagged(<<"STRING", "VALUES">>, <<Array(Integer), Array(Typedef("intconstant"))>>)
struct_constarray == Members(<<Typedef("intp"), Typedef("arrayvalue")>>)
struct_constfields == Array(Typedef("constparser"))
struct_constparser ==
  Tagged(<<"CARRAY", "CREPEAT", "CINT", "CREF", "CSTRUCT", "CUNION">>,
         <<Typedef("constarray"), Pointer("constparser"), Typedef("constint"),
           Typedef("constidentifier"), Typedef("constfields"), Array(Typedef("constparser"))>>)
struct_constraintelem ==
  Tagged(<<"RANGE", "INTVALUE">>,
         <<Members(<<Maybe(Typedef("intconstant")), Maybe(Typedef("intconstant"))>>),
           Typedef("intconstant")>>)
struct_intconstraint ==
  Tagged(<<"SINGLE", "SET", "NEGATE">>,
         <<Typedef("constraintelem"), Array(Typedef("constraintelem")), Pointer("intconstraint")>>)
struct_constrainedint == Members(<<Typedef("intp"), Maybe(Typedef("intconstraint"))>>)
struct_transform ==
  Members(<<Array(Typedef("streamidentifier")), Typedef("varidentifier"), Array(Typedef("parameter"))>>)
struct_structparser ==
  Array(Tagged(<<"CONSTANT", "DEPENDENCY", "TRANSFORM", "FIELD">>,
    <<Typedef("constparser"), Members(<<Typedef("dependencyidentifier"), Pointer("parser")>>),
      Typedef("transform"), Members(<<Typedef("varidentifier"), Pointer("parser")>>)>>))
struct_wrapparser ==
  Members(<<Maybe(Array(Typedef("constparser"))), Pointer("parser"), Maybe(Array(Typedef("constparser")))>>)
struct_choiceparser == Array(Members(<<Typedef("constidentifier"), Pointer("parser")>>))
struct_selectparser ==
  Members(<<Typedef("dependencyidentifier"),
            Array(Members(<<Typedef("constidentifier"), Typedef("intconstant"), Pointer("parser")>>))>>)
struct_arrayparser ==
  Tagged(<<"MANYONE", "MANY", "SEPBYONE", "SEPBY">>,
         <<Pointer("parser"), Pointer("parser"), Members(<<Typedef("constparser"), Pointer("parser")>>),
           Members(<<Typedef("constparser"), Pointer("parser")>>)>>)
struct_parameter ==
  Tagged(<<"PDEPENDENCY", "PSTREAM">>, <<Typedef("dependencyidentifier"), Typedef("streamidentifier")>>)
struct_parameterlist == Array(Typedef("parameter"))
struct_parameterdefinition ==
  Tagged(<<"DSTREAM", "DDEPENDENCY">>,
         <<Typedef("streamidentifier"), Members(<<Typedef("dependencyidentifier"), Pointer("parser")>>)>>)
struct_parameterdefinitionlist == Array(Typedef("parameterdefinition"))
struct_parserinvocation == Members(<<Typedef("varidentifier"), Maybe(Typedef("parameterlist"))>>)
struct_parserinner ==
  Tagged(<<"INTEGER", "STRUCTURE", "WRAP", "CHOICE", "SELECTP", "ARRAY", "FIXEDARRAY", "LENGTH",
           "APPLY", "OPTIONAL", "NUNION", "REF", "NAME">>,
         <<Typedef("constrainedint"), Typedef("structparser"), Typedef("wrapparser"),
           Typedef("choiceparser"), Typedef("selectparser"), Typedef("arrayparser"),
           Members(<<Typedef("intconstant"), Pointer("parser")>>),
           Members(<<Typedef("dependencyidentifier"), Pointer("parser")>>),
           Members(<<Typedef("streamidentifier"), Pointer("parser")>>), Pointer("parser"),
           Array(Pointer("parser")), Typedef("parserinvocation"), Typedef("parserinvocation")>>)
struct_parser == Tagged(<<"PAREN", "PR">>, <<Typedef("parserinner"), Typedef("parserinner")>>)
struct_definition ==
  Tagged(<<"PARSER", "CONSTANTDEF", "ENDIAN">>,
         <<Members(<<Typedef("varidentifier"), Maybe(Typedef("parameterdefinitionlist")), Typedef("parser")>>),
           Members(<<Typedef("constidentifier"), Typedef("constparser")>>),
           Tagged(<<"LITTLE", "BIG">>, <<Members(<< >>), Members(<< >>)>>)>>)
struct_grammar == Array(Typedef("definition"))
new_structs ==
  <<struct_number, struct_varidentifier, struct_constidentifier, struct_streamidentifier,
    struct_dependencyidentifier, struct_intconstant, struct_intp, struct_constint, struct_arrayvalue,
    struct_constarray, struct_constfields, struct_constparser, struct_constraintelem,
    struct_intconstraint, struct_constrainedint, struct_transform, struct_structparser,
    struct_wrapparser, struct_choiceparser, struct_selectparser, struct_arrayparser,
    struct_parameter, struct_parameterlist, struct_parameterdefinition,
    struct_parameterdefinitionlist, struct_parserinvocation, struct_parserinner, struct_parser,
    struct_definition, struct_grammar>>
new_header ==
  Header(new_names, Struct_s(new_names), new_N_types,
         [i \in DOMAIN new_names |-> <<new_names[i], new_structs[i]>>])

-----------------------------------------------------------------------------
(* examples/dns_cpp/dns/dns.nail.h                                         *)
dns_N_types == <<"A", "MX", "CNAME", "NS">>
dns_names ==
  <<"labels", "compressed", "question", "answer", "dnspacket", "number", "ipaddr", "alnum",
    "domain", "definition", "zone">>
dns_typedefs == [i \in DOMAIN dns_names |-> IF dns_names[i] = "alnum" THEN Integer ELSE StructOf(dns_names[i])]
struct_dns_labels == Array(Members(<<Array(Integer)>>))
struct_question == Members(<<Typedef("compressed"), Integer, Integer>>)
struct_answer == Members(<<Typedef("compressed"), Integer, Integer, Integer, Array(Integer)>>)
struct_dnspacket ==
  Members([i \in 1..8 |-> Integer] \o <<Array(Typedef("question"))>> \o [i \in 1..3 |-> Array(Typedef("answer"))])
struct_dns_domain == Array(Array(Typedef("alnum")))
struct_dns_definition ==
  Members(<<Typedef("domain"), Tagged(<<"NS", "CNAME", "MX", "A">>, [i \in 1..4 |-> Typedef("domain")])>>)
dns_structs ==
  <<<<"labels", struct_dns_labels>>, <<"compressed", Members(<<Typedef("labels")>>)>>,
    <<"question", struct_question>>, <<"answer", struct_answer>>, <<"dnspacket", struct_dnspacket>>,
    <<"number", Array(Integer)>>, <<"ipaddr", Array(Typedef("number"))>>,
    <<"domain", struct_dns_domain>>, <<"definition", struct_dns_definition>>,
    <<"zone", Array(Typedef("definition"))>>>>
dns_header == Header(dns_names, dns_typedefs, dns_N_types, dns_structs)

-----------------------------------------------------------------------------
(* network/ipv6_test/test.nail.hh                                          *)
ip6_N_types == <<"FRAGMENT", "ROUTING", "UDP", "ICMP", "HOPBYHOP">>
ip6_names == <<"ip6contents", "ip6addr", "ip6packet", "ethernet", "foo">>
struct_ip6contents ==
  Tagged(<<"HOPBYHOP", "ICMP", "UDP", "ROUTING", "FRAGMENT">>,
         <<Members(<< >>), Members(<< >>), Members(<<Integer, Integer, Integer, Array(Integer)>>),
           Members(<< >>), Members(<< >>)>>)
struct_ip6packet ==
  Members(<<Integer, Integer, Integer, Integer, Typedef("ip6addr"), Typedef("ip6addr"),
            Typedef("ip6contents")>>)
struct_ethernet == Members(<<Integer, Integer, Integer, Typedef("ip6packet")>>)
struct_foo ==
  Members([i \in 1..6 |-> Integer] \o <<Array(Members(<<Integer, Integer, Typedef("ethernet")>>))>>)
ip6_header ==
  Header(ip6_names, Struct_s(ip6_names), ip6_N_types,
         <<<<"ip6contents", struct_ip6contents>>, <<"ip6addr", Members(<<Integer, Integer>>)>>,
           <<"ip6packet", struct_ip6packet>>, <<"ethernet", struct_ethernet>>, <<"foo", struct_foo>>>>)
=============================================================================
