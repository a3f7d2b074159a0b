------------------------------ MODULE Samples ------------------------------
(* Small grammars with the shapes of the repository's own.  A symbol is a    *)
(* bit; inputs are all that are MinLen..MaxLen bits long and whole bytes;    *)
(* and there are values an application may hand to a generator.             *)
EXTENDS Grammar

CONSTANTS MinLen, MaxLen

(* Integers of a byte, of two and of less than one, and literals of them.   *)
MaxByte == 2^PerByte - 1
Int8(set) == Wide(PerByte, 2, set)
Byte == Int8(0..MaxByte)
Lit8(vals) == WideLit(PerByte, 2, vals)
MaxShort == 4^PerByte - 1
Short(set) == Wide(2 * PerByte, 2, set)
ShortLit(val) == WideLit(2 * PerByte, 2, <<val>>)
Bit(set) == Num(set)
Digit == Int8(0..1)
White == CMany(CUnion(<<Lit8(<<1>>)>>))
Space == CMany(CUnion(<<Lit8(<<0>>)>>))
SampleInputs == UNION {[1..n -> 0..1] : n \in {m \in MinLen..MaxLen : m % PerByte = 0}}

SampleDefs ==
  \* examples/dns/dns.nail: labels, dnspacket, ipaddr and the zone file
  "labels" :> Wrap(<< >>, Many(Name("label")), <<Lit8(<<0>>)>>) @@
  "label" :> Struct(<<Dep("length", Int8(1..MaxByte)), Field(NOf("length", Byte))>>) @@
  "packet" :> Struct(<<Dep("questioncount", Byte), Dep("answercount", Byte),
                       Field(NOf("questioncount", Int8({1, 2}))),
                       Field(NOf("answercount", Fixed(2, Byte)))>>) @@
  "ipaddr" :> Struct(<<Const(CMany(CUnion(<<Lit8(<<3>>), Lit8(<<0>>)>>))),
                       Field(SepBy1(Lit8(<<2>>), Many(Int8({1}))))>>) @@
  "domain" :> SepBy1(Lit8(<<2>>), Many1(Int8({0}))) @@
  "definition" :> Struct(<<Const(White), Field(Name("domain")),
                           Field(Choice(<<"NS", "A">>,
                             <<Wrap(<<Lit8(<<3, 3>>)>>, Name("domain"), << >>),
                               Wrap(<<Lit8(<<3>>)>>, Many1(Int8({0})), << >>)>>))>>) @@
  "zone" :> Wrap(<< >>, Many1(Name("definition")), <<White>>) @@
  \* network/proto/eth.nail: the payload by its type, the optional vlan header
  "payload" :> Choice(<<"ARP", "IPFOUR">>,
                      <<Wrap(<<Lit8(<<1, 2>>)>>, Fixed(2, Byte), << >>),
                        Wrap(<<Lit8(<<1, 3>>)>>, Many(Byte), << >>)>>) @@
  "flagged" :> Struct(<<Field(Optional(Int8({1}))), Field(Name("payload"))>>) @@
  "ethernet" :> Struct(<<Field(Optional(Struct(<<Const(Lit8(<<1>>)), Field(Byte)>>))),
                         Field(Name("ethertype"))>>) @@
  "ethertype" :> Choice(<<"ARP", "IPFOUR">>,
                        <<Wrap(<<Lit8(<<1>>)>>, Struct(<< >>), << >>),
                          Wrap(<<Lit8(<<2>>)>>, Struct(<< >>), << >>)>>) @@
  "frame" :> Struct(<<Field(Byte),
                      Field(Choice(<<"ARP", "IPFOUR">>,
                        <<Wrap(<<ShortLit(6)>>, Fixed(2, Byte), << >>),
                          Wrap(<<ShortLit(8)>>, Many(Short(1..MaxShort)), << >>)>>)),
                      Field(Many(Byte))>>) @@
  \* paper/thesis/design.tex: recursion; a repeated constant inside a structure of them
  "expr" :> Choice(<<"PAREN", "INTEGER">>,
                   <<Wrap(<<Lit8(<<2>>)>>, Ref("expr"), <<Lit8(<<3>>)>>), Many1(Digit)>>) @@
  "items" :> Wrap(<<CStruct(<<Lit8(<<0>>), CMany(Lit8(<<0>>))>>)>>,
                  SepBy(Lit8(<<3>>), Many(Int8({1, 2}))), << >>) @@
  \* generator/new_grammar.nail: 0 is white space, 1 a quote, 2 a bracket or digit, 3 a bracket
  "arrayvalue" :> Choice(<<"STRING", "VALUES">>,
    <<Wrap(<<Space, Lit8(<<1>>)>>, Many(Int8({0, 2, 3})), <<Lit8(<<1>>)>>),
      Wrap(<<CStruct(<<Space, Lit8(<<2>>)>>)>>, Many(Name("intconstant")),
           <<CStruct(<<Space, Lit8(<<3>>)>>)>>)>>) @@
  "intconstant" :> Wrap(<<Space>>,
    Choice(<<"ASCII", "NUMBER">>, <<Wrap(<<Lit8(<<1>>)>>, Byte, <<Lit8(<<1>>)>>), Many1(Int8({2}))>>), << >>) @@
  \* tests/select/test.nail; include/nail/size.hh, offset.hh
  "selected" :> Struct(<<Dep("choice", Byte),
                         Field(Select("choice", <<"A", "B">>, <<1, 2>>,
                                      <<Int8(0..2), Many(Fixed(2, Byte))>>))>>) @@
  "framed" :> Struct(<<Dep("size", Byte), Trans("size", "data", "size"),
                       Field(Apply("data", SepBy(Lit8(<<3>>), Many1(Digit)))),
                       Trans("tail", "rest", ""),
                       Field(Apply("rest", Many(Name("labels"))))>>) @@
  "pointed" :> Struct(<<Dep("off", Byte), Trans("offset", "content", "off"),
                        Field(Apply("content", Many(Digit))), Field(Many(Byte))>>) @@
  \* network/proto/udp.nail, ipv6.nail: the payload, its length before it
  "udp" :> Struct(<<Field(Byte), Dep("length", Byte), Trans("size", "content", "length"),
                    Field(Apply("content", Many(Byte)))>>) @@
  "datagram" :> Struct(<<Dep("length", Byte), Field(Fixed(1, Byte)),
                         Trans("total_size", "content", "length"),
                         Field(Apply("content", Many(Byte)))>>) @@
  \* examples/zip/zip.nail: a fragment of the current stream, its contents
  "entry" :> Struct(<<Dep("size", Int8(1..MaxByte)), Trans("size_u32", "data", "size"),
                      Field(Apply("data", Many(Byte))), Field(Many1(Byte))>>) @@
  "directory" :> Struct(<<Dep("off", Int8(0..1)), Field(Byte), Trans("offset_u32", "content", "off"),
                          Field(Apply("content", Fixed(1, Byte))), Field(Many(Byte))>>) @@
  "emptyentry" :> Struct(<<Dep("size", Byte), Trans("size_u32", "data", "size"),
                           Field(Apply("data", Many(Byte))), Field(Many(Byte))>>) @@
  "filename" :> Struct(<<Dep("filename_len", Short(0..MaxShort)), Field(NOf("filename_len", Byte))>>) @@
  "fileentry" :> Struct(<<Dep("filename_len", Short(0..MaxShort)), Field(NOf("filename_len", Byte)),
                          Dep("size", Short({1, 2})), Trans("size_u32", "data", "size"),
                          Field(Apply("data", Many(Byte))), Field(Many(Byte))>>) @@
  \* less than a byte.  network/proto/ipv4.nail: version and header length; eth.nail: vlan
  "ipfour" :> Struct(<<Const(Lit(<<1>>)), Dep("ihl", Bit({0, 1})), Field(NOf("ihl", Byte)),
                       Field(Many(Byte))>>) @@
  "tagged" :> Struct(<<Field(Choice(<<"VLAN", "PLAIN">>,
                         <<Struct(<<Const(Lit8(<<2>>)), Field(Bit({1})), Field(Wide(3, 2, 0..7))>>),
                           Struct(<<Field(Bit({1})), Field(Bit({0, 1}))>>)>>)),
                       Field(Many(Byte))>>) @@
  \* a repetition of less than a byte; a fragment that begins inside one
  "bits" :> Many(Bit({1})) @@
  "unaligned" :> Struct(<<Dep("size", Bit({0, 1})), Trans("size_u32", "data", "size"),
                          Field(Apply("data", Byte)), Field(Apply("data", Bit({0, 1}))),
                          Field(Bit({0, 1})), Field(Many(Byte)),
                          Field(Apply("data", Many(Int8({1, 2, 3}))))>>)

(* Of the rules with counts and sizes: as many elements as they can say, and *)
(* more.                                                                   *)
Ones(n) == [i \in 1..n |-> 1]
SampleModels ==
  "labels" :> {<< >>} \cup {<<<<Ones(m)>>, <<Ones(n)>>>> : m, n \in 0..MaxByte + 2} @@
  "packet" :> {<<Ones(m), [i \in 1..n |-> <<0, MaxByte>>]>> : m, n \in 0..MaxByte + 2} @@
  "payload" :> {<<"ARP", <<m, 0>>>> : m \in 0..MaxByte + 1} \cup {<<"IPFOUR", Ones(m)>> : m \in 0..3} @@
  "udp" :> {<<0, Ones(n)>> : n \in 0..MaxByte + 2} @@
  "datagram" :> {<<<<0>>, Ones(n)>> : n \in 0..MaxByte + 2} @@
  "ipfour" :> {<<Ones(m), Ones(n)>> : m \in 0..3, n \in 0..1} @@
  "filename" :> {<<Ones(n)>> : n \in 0..MaxShort + 2}
=============================================================================
