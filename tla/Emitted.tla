------------------------------ MODULE Emitted ------------------------------
(***************************************************************************)
(* The generated parsers in the tree.  Of the grammar language, two that    *)
(* parse in two passes: the one cnail reads its input with (NewGrammar.tla) *)
(* and an older one that is kept, with a main of its own, to be run on the  *)
(* texts of generator/tests (ParserTest.tla).  Of DNS (DnsParser.tla) and   *)
(* of captured IPv6 packets (Ipv6Parser.tla), two that parse in one pass.   *)
(* A text is recognised by a rule, a tree is built from it, and the tree is *)
(* generated again, as the kept parser's main does it.                      *)
(***************************************************************************)
EXTENDS Headers, Meaning

CONSTANTS Texts,        \* parser -> rule -> the texts it is run on
          Turns         \* bounds the turns of a pass (TwoPass.tla)

Old == INSTANCE ParserTest
New == INSTANCE NewGrammar
Dns == INSTANCE DnsParser
Ip6 == INSTANCE Ipv6Parser
P == INSTANCE TwoPass
D == INSTANCE DirectParser
G == INSTANCE Generator

VARIABLES emission, rule, text,     \* which parser, its rule, the text
          phase,                    \* "reading", "binding", "bound", "rejected", "lost", "generated"
          peg,                      \* the state the first pass ended in
          bound,                    \* the state the tree was built in
          made                      \* what the generator wrote

vars == <<emission, rule, text, phase, peg, bound, made>>

TwoPasses == {"old", "new"}
OnePass == {"dns", "ip6"}
ParseRules(em) ==
  CASE em = "old" -> Old!PegRules [] em = "new" -> New!ParseRules
    [] em = "dns" -> Dns!ParseRules [] em = "ip6" -> Ip6!ParseRules
PegRules(em) ==
  CASE em = "old" -> Old!PegRules [] em = "new" -> New!PegRules
    [] em = "dns" -> Dns!PegRules [] em = "ip6" -> Ip6!PegRules
BindRules(em) == IF em = "old" THEN Old!BindRules ELSE New!BindRules
GenRules(em) ==
  CASE em = "old" -> Old!GenRules [] em = "new" -> New!GenRules
    [] em = "dns" -> Dns!GenRules [] em = "ip6" -> Ip6!GenRules

-----------------------------------------------------------------------------
Radix == 2^16           \* of a dependency; no text here counts further
Read(em, r, w) == P!PegAll(PegRules(em), PegRules(em)[r], w)
Build(em, r, w, tr) == P!BindAll(BindRules(em), BindRules(em)[r], w, tr)
Once(em, r, w, left) == D!parse_earlier(PegRules(em), left, PegRules(em)[r], w)
Written(em, r, tree) == G!gen_(GenRules(em), Radix, GenRules(em)[r], tree)

(* What an emission's unsaved positions may hold.                          *)
Leftovers(em, w) == IF em = "dns" THEN {D!Wild, 0, Len(w) + 1} ELSE {D!Saved}

Init ==
  /\ emission \in TwoPasses \cup OnePass
  /\ rule \in DOMAIN Texts[emission] \cap DOMAIN ParseRules(emission)
  /\ text \in Texts[emission][rule]
  /\ phase = "reading" /\ peg = << >> /\ bound = << >> /\ made = << >>

Tree == IF emission \in TwoPasses THEN P!Built(bound) ELSE bound.val

(* CAT(packrat_,XYZZY) must reach the end of the text; parse_X's test.      *)
Recognise ==
  /\ phase = "reading" /\ emission \in TwoPasses
  /\ peg' = Read(emission, rule, text)
  /\ phase' = IF P!Recognised(peg') THEN "binding" ELSE "rejected"
  /\ UNCHANGED <<emission, rule, text, bound, made>>

BindTree ==
  /\ phase = "binding"
  /\ bound' = Build(emission, rule, text, peg.tr)
  /\ phase' = "bound"
  /\ UNCHANGED <<emission, rule, text, peg, made>>

(* parse_X of a one-pass parser.                                           *)
ParseOnce ==
  /\ phase = "reading" /\ emission \in OnePass
  /\ \E left \in Leftovers(emission, text) : bound' = Once(emission, rule, text, left)
  /\ phase' = IF bound'.crash THEN "lost" ELSE IF bound'.ok THEN "bound" ELSE "rejected"
  /\ UNCHANGED <<emission, rule, text, peg, made>>

Generate ==
  /\ phase = "bound"
  /\ made' = Written(emission, rule, Tree)
  /\ phase' = "generated"
  /\ UNCHANGED <<emission, rule, text, peg, bound>>

Next == Recognise \/ BindTree \/ ParseOnce \/ Generate
Spec == Init /\ [][Next]_vars

-----------------------------------------------------------------------------
IsBound == phase \in {"bound", "generated"}
Derived == Meaning(PegRules(emission), PegRules(emission)[rule], text)

(* The tree says what the text says: the one the grammar derives from it,   *)
(* whatever a one-pass parser's unsaved positions held; and such a parser,  *)
(* where it survives, builds one from every text of the language, and only  *)
(* from those.  Both passes of a two-pass parser end; emitted from one      *)
(* grammar they agree: the second one ends behind the last cell of the      *)
(* trace.                                                                  *)
TreeIsDerived ==
  /\ emission \in TwoPasses /\ peg # << >> => P!Ended(peg)
  /\ IsBound /\ emission \in TwoPasses =>
       P!Ended(bound) /\ ~bound.lost /\ bound.ti = Len(peg.tr)
  /\ IsBound /\ Derived.ok => Tree = Derived.val
  /\ emission \in OnePass /\ phase \in {"bound", "rejected"} => (phase = "bound") = Derived.ok

(* The tree of a text of the language that the generator writes out without *)
(* complaint is read again, by the same rule, as the same tree; the older   *)
(* generator never complains, nor do those of the one-pass parsers.  (What  *)
(* is read little endian is written big endian: foo is not in the promise.) *)
ReadsBack(w) ==
  IF emission \in OnePass
    THEN LET r == Once(emission, rule, w, 0) IN r.ok /\ r.val = Tree
    ELSE LET r == Read(emission, rule, w)
         IN P!Recognised(r) /\ P!Built(Build(emission, rule, w, r.tr)) = Tree
WrittenReadsBack ==
  phase = "generated" /\ Derived.ok /\ rule # "foo" =>
    /\ emission # "new" => made.ok
    /\ made.ok => ReadsBack(made.data)

(* Every tree is of the type that the header declares for its rule, and the *)
(* header is the one its emitter gives for the grammar, and one that        *)
(* compiles.                                                               *)
HeaderRules == [em \in {"new"} \cup OnePass |-> IF em = "new" THEN BindRules(em) ELSE PegRules(em)]
HeaderOf == "new" :> new_header @@ "dns" :> dns_header @@ "ip6" :> ip6_header
HeaderIsEmitted ==
  [em \in DOMAIN HeaderOf |->
     LET h == HeaderOf[em]
         e == emit_parser(h.order, HeaderRules[em])
     IN h = Header(h.order, e.typedefs, e.N_types, e.structs) /\ Compiles(h)]
TreeFitsHeader ==
  IsBound /\ emission # "old" =>
    HeaderIsEmitted[emission] /\ Fits(HeaderOf[emission], Typedef(rule), Tree)

(* The parser in use still reads what the kept one reads.                   *)
StillReads ==
  emission = "old" /\ phase = "binding" /\ rule \in DOMAIN PegRules("new")
    => P!Recognised(Read("new", rule, text))

(* A text is rejected only if the grammar does not derive it: an optional   *)
(* that finds nothing has consumed nothing.                                 *)
RejectsOnlyForeign == phase = "rejected" => ~Derived.ok
=============================================================================
