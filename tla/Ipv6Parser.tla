----------------------------- MODULE Ipv6Parser ----------------------------
(***************************************************************************)
(* The parser and generator of captured IPv6 packets in the tree,           *)
(* network/ipv6_test/test.nail.cc, as the one-pass C++ back end emitted     *)
(* them from test.nail and proto/ipv6.nail.  DirectParser.tla and           *)
(* Generator.tla say how such code runs.  The rule foo (a pcap file) is     *)
(* read little endian; in its texts a symbol has two bytes.                 *)
(***************************************************************************)
EXTENDS Grammar

Uint == Num(Nat)                             \* no constraint: any value of its width
Magic == 256 * 161 + 178                    \* 0xa1b2c3d4, cut to two bytes
Routing == Const(Lit(<<70, 65, 73, 76>>))   \* "FAIL"
Extension == <<"HOPBYHOP", "ICMP", "UDP", "ROUTING", "FRAGMENT">>
NextHeader == <<0, 1, 17, 43, 44>>

-----------------------------------------------------------------------------
peg_ip6contents_udp ==
  Struct(<<Field(Uint), Field(Uint), Dep("length", Uint), Field(Uint),
           Trans("total_size", "content", "length"), Field(Apply("content", Many(Uint)))>>)
peg_ip6contents ==
  Select("type", Extension, NextHeader,
         <<Struct(<< >>), Struct(<< >>), peg_ip6contents_udp, Struct(<<Routing>>), Struct(<< >>)>>)
peg_ip6addr == Struct(<<Field(Uint), Field(Uint)>>)
peg_ip6packet ==
  Struct(<<Const(Lit(<<6>>)), Field(Uint), Field(Uint), Field(Uint),
           Dep("payload_len", Uint), Dep("next_header", Uint), Field(Uint),
           Field(Name("ip6addr")), Field(Name("ip6addr")),
           Trans("size", "payload", "payload_len"),
           Field(Apply("payload", Invoke("ip6contents", "type", "next_header")))>>)
peg_ethernet == Struct(<<Field(Uint), Field(Uint), Field(Uint), Field(Name("ip6packet"))>>)
peg_foo ==
  Struct(<<Const(CLittle(Magic)), Field(Little), Field(Little), Field(Little), Field(Little),
           Field(Little), Field(Little),
           Field(Many(Struct(<<Field(Little), Field(Little),
                               Dep("length", Little), Dep("orig_len", Little),
                               Trans("size", "pstream", "length"),
                               Field(Apply("pstream", Name("ethernet")))>>)))>>)

(* parse_X: the rule into a block of its own, then nothing may be left.     *)
parse_ip6addr == Entry(peg_ip6addr)
parse_ip6packet == Entry(peg_ip6packet)
parse_ethernet == Entry(peg_ethernet)
parse_foo == Entry(peg_foo)

-----------------------------------------------------------------------------
(* Writing: always big endian; dep_orig_len is written without a value.     *)
gen_ip6contents_udp ==
  Struct(<<Field(Uint), Field(Uint), Dep("length", Uint), Field(Uint),
           Trans("total_size", "content", "length"), Field(Apply("content", Many(Uint)))>>)
gen_ip6contents ==
  Select("type", Extension, NextHeader,
         <<Struct(<< >>), Struct(<< >>), gen_ip6contents_udp, Struct(<<Routing>>), Struct(<< >>)>>)
gen_ip6addr == Struct(<<Field(Uint), Field(Uint)>>)
gen_ip6packet ==
  Struct(<<Const(Lit(<<6>>)), Field(Uint), Field(Uint), Field(Uint),
           Dep("payload_len", Uint), Dep("next_header", Uint), Field(Uint),
           Field(Name("ip6addr")), Field(Name("ip6addr")),
           Trans("size", "payload", "payload_len"),
           Field(Apply("payload", Invoke("ip6contents", "type", "next_header")))>>)
gen_ethernet == Struct(<<Field(Uint), Field(Uint), Field(Uint), Field(Name("ip6packet"))>>)
gen_foo ==
  Struct(<<Const(Lit(<<Magic>>)), Field(Uint), Field(Uint), Field(Uint), Field(Uint), Field(Uint),
           Field(Uint),
           Field(Many(Struct(<<Field(Uint), Field(Uint), Dep("length", Uint), Dep("orig_len", Uint),
                               Trans("size", "pstream", "length"),
                               Field(Apply("pstream", Name("ethernet")))>>)))>>)

-----------------------------------------------------------------------------
(* The rules by name.                                                      *)
ParseRules ==
  "ip6addr" :> parse_ip6addr @@ "ip6packet" :> parse_ip6packet @@
  "ethernet" :> parse_ethernet @@ "foo" :> parse_foo
PegRules ==
  [r \in DOMAIN ParseRules |-> ParseRules[r].p] @@ ("ip6contents" :> peg_ip6contents)
GenRules ==
  "ip6contents" :> gen_ip6contents @@ "ip6addr" :> gen_ip6addr @@
  "ip6packet" :> gen_ip6packet @@ "ethernet" :> gen_ethernet @@ "foo" :> gen_foo
=============================================================================
