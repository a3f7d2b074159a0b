---------------------------- MODULE MCEmitted ----------------------------
(* The texts of generator/tests, by rule, with more where those leave an    *)
(* alternative out; and every one of them with a symbol removed, doubled    *)
(* or exchanged with the next.                                              *)
EXTENDS Emitted

uint8 == <<"u", "int", "8">>
int8 == <<"int", "8">>
name == <<"a">>
CONST == <<"A">>
sp == <<" ">>
nl == <<"nl">>
dep == <<"@", "n">>
stream == <<"$", "x">>
quoted == <<"'", "a", "'">>
equals(v) == sp \o <<"=">> \o sp \o v
set == <<"[">> \o quoted \o <<",">> \o sp \o quoted \o <<"]">>
string == <<"\"", "a", "\"">>
white == <<"{">> \o <<"A", ";">> \o <<"many", " ">> \o uint8 \o equals(string) \o <<"}">>

GrammarSamples ==
  "number" :> {<<"1", "8">>} @@
  "varidentifier" :> {sp \o sp \o name, <<"a", "_", "1">>} @@
  "constidentifier" :> {CONST \o CONST, nl \o CONST} @@
  "contextidentifier" :> {dep} @@ "dependencyidentifier" :> {dep, sp \o <<"@", "n", "1">>} @@
  "streamidentifier" :> {stream} @@
  "intconstant" :> {quoted, <<"'", "\\", "\\", "'">>, <<"0", "x", "1">>, <<"0", "x", "8", "A">>,
                    sp \o <<"8">>} @@
  "intp" :> {uint8, int8} @@
  "constint" :> {uint8 \o equals(quoted), int8 \o equals(<<"1">>)} @@
  "arrayvalue" :> {string, <<"[">> \o <<"1">> \o sp \o quoted \o <<"]">>} @@
  "constarray" :> {<<"many", " ">> \o uint8 \o equals(string)} @@
  "constfields" :> {CONST \o <<";">> \o CONST} @@
  "constparser" :> {<<"many", " ">> \o uint8 \o equals(string), CONST, white,
                    <<"|", "|">> \o uint8 \o equals(quoted) \o <<"|", "|">> \o CONST,
                    <<"many", " ">> \o CONST, uint8 \o equals(quoted)} @@
  "constraintelem" :> {<<".", ".">>, <<"1", ".", ".">> \o quoted, quoted} @@
  "intconstraint" :> {<<".", ".">>, <<"1", ".", ".">> \o quoted, set, <<"!", "1", ".", ".">>} @@
  "constrainedint" :> {uint8 \o sp \o <<"|">> \o sp \o quoted \o <<".", ".", "8">>, uint8,
                       uint8 \o <<"|">> \o set} @@
  "transform" :> {stream \o sp \o <<"transform">> \o sp \o name \o <<"(">> \o stream \o sp \o dep \o <<")">>} @@
  "structparser" :> {<<"{">> \o sp \o name \o sp \o uint8 \o nl \o uint8 \o equals(quoted) \o <<"}">>,
                     <<"{">> \o dep \o sp \o uint8 \o <<";">> \o name \o sp \o <<"n", "_", "of">> \o sp
                             \o dep \o sp \o uint8 \o <<"}">>} @@
  "wrapparser" :> {<<"<">> \o uint8 \o <<">">>,
                   <<"<">> \o uint8 \o equals(quoted) \o sp \o uint8 \o <<">">>,
                   <<"<">> \o <<"<">> \o uint8 \o <<">", ">">>,
                   <<"<">> \o uint8 \o nl \o CONST \o <<">">>} @@
  "choiceparser" :> {<<"choose">> \o sp \o <<"{">> \o CONST \o equals(uint8) \o nl
                       \o <<"B">> \o equals(name) \o <<"}">>} @@
  "selectparser" :> {<<"select", "(">> \o dep \o <<")", "{">> \o CONST \o equals(<<"1">>) \o sp
                       \o uint8 \o <<"}">>} @@
  "arrayparser" :> {<<"many">> \o sp \o uint8, <<"many", "1">> \o sp \o name,
                    <<"sep", "B", "y">> \o sp \o CONST \o sp \o uint8,
                    <<"sep", "B", "y", "1">> \o sp \o CONST \o sp \o uint8} @@
  "parameter" :> {dep, stream} @@
  "parameterlist" :> {<<"(">> \o dep \o <<",">> \o stream \o <<")">>} @@
  "parameterdefinition" :> {stream, dep \o sp \o uint8} @@
  "parameterdefinitionlist" :> {<<"(">> \o stream \o <<",">> \o dep \o sp \o uint8 \o <<")">>} @@
  "parserinvocation" :> {name, name \o <<"(">> \o dep \o <<")">>} @@
  "parserinner" :> {<<"n", "_", "of">> \o sp \o dep \o sp \o uint8, <<"*">> \o name,
                    <<"[", "8", "]">> \o uint8, <<"apply">> \o sp \o stream \o sp \o name,
                    <<"select", "(">> \o dep \o <<")", "{", "}">>} @@
  "parser" :> {uint8, <<"(">> \o uint8 \o <<")">>, sp \o <<"many", "1">> \o sp \o name,
               <<"{">> \o name \o sp \o <<"n", "_", "of">> \o sp \o dep \o sp \o uint8 \o <<"}">>,
               <<"optional", " ">> \o uint8, <<"|", "|">> \o name \o sp \o <<"|", "|">> \o uint8,
               <<"|", "|">> \o uint8 \o sp \o <<"|", "|">> \o uint8} @@
  "definition" :> {name \o equals(uint8), CONST \o equals(white),
                   name \o <<"(">> \o dep \o sp \o uint8 \o <<")">> \o equals(uint8),
                   <<"!", "LITTLE", "-", "ENDIAN">>, nl \o <<"!", "BIG", "-", "ENDIAN">>} @@
  "grammar" :> {name \o equals(<<"many">> \o sp \o uint8) \o nl \o CONST \o equals(CONST) \o nl}

(* DNS: names of one and two labels, a pointer to the start of the packet,  *)
(* a packet with a question, and one with an answer to it.                  *)
label == <<1, 9>>
header(q, a) == <<7, 1, 0, 0, 0, 1, 0, 0, 0, q, a, 0, 0>>
question == label \o <<0, 15, 1>>
answer == <<192, 13, 16, 1, 5, 2, 4, 4>>
host == <<"a">> \o <<".", "x", "0">>
record(type, w) == <<" ">> \o host \o <<":", type, ":">> \o w
DnsSamples ==
  "labels" :> {label \o label \o <<0>>, <<0>>} @@
  "compressed" :> {label \o <<0>>} @@ "question" :> {question} @@
  "dnspacket" :> {header(1, 1) \o question \o answer} @@
  "number" :> {<<"1", "8">>} @@ "ipaddr" :> {<<"1", ".", "8", "0">>} @@ "alnum" :> {<<"a">>} @@
  "domain" :> {host} @@
  "definition" :> {record(type, <<"x">>) : type \in {"NS", "CNAME", "MX", "A"}} @@
  "zone" :> {record("NS", <<"x">>) \o <<"nl">> \o record("A", <<"1", ".", "8">>) \o <<"nl">>}

(* IPv6: every next header, a payload that is cut off, and a pcap file.     *)
packet(next, payload) == <<6, 1, 2, 3, Len(payload), next, 64, 11, 12, 13, 14>> \o payload
udp == <<53, 54, 6, 0, 5, 5>>
frame(w) == <<21, 22, 23>> \o w
captured(w) == <<1, 2, Len(w), 0>>
file(w) == [i \in 1..11 |-> Ip6!Swapped((<<Ip6!Magic, 2, 4, 0, 0, 9, 1>> \o captured(w))[i])] \o w
Ip6Samples ==
  "ip6addr" :> {<<1, 2>>} @@
  "ip6packet" :> {packet(0, << >>), packet(1, << >>), packet(44, << >>), packet(17, udp),
                  packet(43, <<70, 65, 73, 76>>), packet(6, << >>)} @@
  "ethernet" :> {frame(packet(17, udp))} @@
  "foo" :> {file(frame(packet(1, << >>)))}

Damaged(w) ==
  {w} \cup {RemoveAt(w, i) : i \in DOMAIN w}
      \cup {InsertAt(w, i, w[i]) : i \in DOMAIN w}
      \cup {[w EXCEPT ![i] = w[i + 1], ![i + 1] = w[i]] : i \in 1..(Len(w) - 1)}
Texted(samples) == [r \in DOMAIN samples |-> UNION {Damaged(w) : w \in samples[r]}]
MCTexts ==
  "old" :> Texted(GrammarSamples) @@ "new" :> Texted(GrammarSamples) @@
  "dns" :> Texted(DnsSamples) @@ "ip6" :> Texted(Ip6Samples)
=============================================================================
