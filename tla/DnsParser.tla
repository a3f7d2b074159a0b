----------------------------- MODULE DnsParser -----------------------------
(***************************************************************************)
(* The DNS parser and generator in the tree,                                *)
(* examples/dns_cpp/dns/dns.nail.c: packets and zone files, as an earlier   *)
(* one-pass back end emitted them from dns.nail.  What each peg_X           *)
(* recognises and builds and what each gen_X writes; DirectParser.tla and   *)
(* Generator.tla say how such code runs.                                    *)
(***************************************************************************)
EXTENDS GrammarText

Uint == Num(Nat)                             \* no constraint: any value of its width
AlphaNum == {"a", "x"} \cup {"0", "1", "8"}

-----------------------------------------------------------------------------
(* Parsing a packet.                                                       *)
peg_labels ==
  Wrap(<< >>, Many(Struct(<<Dep("length", Num(1..64)), Field(NOf("length", Uint))>>)),
       <<Lit(<<0>>)>>)
peg_compressed ==
  Struct(<<Trans("dnscompress", "decompressed", ""), Field(Apply("decompressed", Name("labels")))>>)
peg_question == Struct(<<Field(Name("compressed")), Field(Num(1..16)), Field(Num({1, 255}))>>)
peg_answer ==
  Struct(<<Field(Name("compressed")), Field(Num(1..16)), Field(Num({1})), Field(Uint),
           Dep("rlength", Uint), Field(NOf("rlength", Uint))>>)
peg_dnspacket ==
  Struct(<<Field(Uint), Field(Uint), Field(Uint), Field(Uint), Field(Uint), Field(Uint), Field(Uint),
           Const(Lit(<<0>>)), Field(Uint),
           Dep("questioncount", Uint), Dep("answercount", Uint),
           Dep("authoritycount", Uint), Dep("additionalcount", Uint),
           Field(NOf("questioncount", Name("question"))),
           Field(NOf("answercount", Name("answer"))),
           Field(NOf("authoritycount", Name("answer"))),
           Field(NOf("additionalcount", Name("answer")))>>)

(* Parsing a zone file.  The A record has a domain, as the others: dns.nail *)
(* says ipaddr, but its macro rr ignores the parser it is given.            *)
peg_WHITE == CMany(CUnion(<<Lit(<<" ">>), Lit(<<"nl">>)>>))
peg_number == Many(Num(Digit))
peg_ipaddr == SepBy1(Lit(<<".">>), Name("number"))
peg_alnum == Num(AlphaNum)
peg_domain == SepBy1(Lit(<<".">>), Many1(Name("alnum")))
Record(type) == <<type, Only(<<Lit(<<":", type, ":">>), Name("domain")>>)>>
peg_definition ==
  Fields(<<peg_WHITE, Name("domain"),
           Alts(<<Record("NS"), Record("CNAME"), Record("MX"), Record("A")>>)>>)
peg_zone == Only(<<Many1(Name("definition")), peg_WHITE>>)

-----------------------------------------------------------------------------
(* parse_X: the rule into a block of its own, then nothing may be left.     *)
parse_labels == Entry(peg_labels)
parse_compressed == Entry(peg_compressed)
parse_question == Entry(peg_question)
parse_answer == Entry(peg_answer)
parse_dnspacket == Entry(peg_dnspacket)
parse_number == Entry(peg_number)
parse_ipaddr == Entry(peg_ipaddr)
parse_alnum == Entry(peg_alnum)
parse_domain == Entry(peg_domain)
parse_definition == Entry(peg_definition)
parse_zone == Entry(peg_zone)

-----------------------------------------------------------------------------
(* Writing.                                                                *)
gen_labels ==
  Wrap(<< >>, Many(Struct(<<Dep("length", Uint), Field(NOf("length", Uint))>>)), <<Lit(<<0>>)>>)
gen_compressed ==
  Struct(<<Trans("dnscompress", "decompressed", ""), Field(Apply("decompressed", Name("labels")))>>)
gen_question == Struct(<<Field(Name("compressed")), Field(Num(1..16)), Field(Num({1, 255}))>>)
gen_answer ==
  Struct(<<Field(Name("compressed")), Field(Num(1..16)), Field(Num({1})), Field(Uint),
           Dep("rlength", Uint), Field(NOf("rlength", Uint))>>)
gen_dnspacket ==
  Struct(<<Field(Uint), Field(Uint), Field(Uint), Field(Uint), Field(Uint), Field(Uint), Field(Uint),
           Const(Lit(<<0>>)), Field(Uint),
           Dep("questioncount", Uint), Dep("answercount", Uint),
           Dep("authoritycount", Uint), Dep("additionalcount", Uint),
           Field(NOf("questioncount", Name("question"))),
           Field(NOf("answercount", Name("answer"))),
           Field(NOf("authoritycount", Name("answer"))),
           Field(NOf("additionalcount", Name("answer")))>>)
gen_WHITE == Lit(<<" ">>)
gen_number == Many(Num(Digit))
gen_ipaddr == SepBy(Lit(<<".">>), Name("number"))
gen_alnum == Num(AlphaNum)
gen_domain == SepBy(Lit(<<".">>), Many(Name("alnum")))
gen_definition ==
  Fields(<<gen_WHITE, Name("domain"),
           Alts(<<Record("NS"), Record("CNAME"), Record("MX"), Record("A")>>)>>)
gen_zone == Only(<<Many(Name("definition")), gen_WHITE>>)

-----------------------------------------------------------------------------
(* The rules by name.                                                      *)
ParseRules ==
  "labels" :> parse_labels @@ "compressed" :> parse_compressed @@
  "question" :> parse_question @@ "answer" :> parse_answer @@
  "dnspacket" :> parse_dnspacket @@ "number" :> parse_number @@ "ipaddr" :> parse_ipaddr @@
  "alnum" :> parse_alnum @@ "domain" :> parse_domain @@
  "definition" :> parse_definition @@ "zone" :> parse_zone
PegRules == [r \in DOMAIN ParseRules |-> ParseRules[r].p]
GenRules ==
  "labels" :> gen_labels @@ "compressed" :> gen_compressed @@ "question" :> gen_question @@
  "answer" :> gen_answer @@ "dnspacket" :> gen_dnspacket @@ "number" :> gen_number @@
  "ipaddr" :> gen_ipaddr @@ "alnum" :> gen_alnum @@ "domain" :> gen_domain @@
  "definition" :> gen_definition @@ "zone" :> gen_zone
=============================================================================
