------------------------------ MODULE CParser ------------------------------
(***************************************************************************)
(* parse_X of the C parser (generator/mk_parser.cc), called for a rule of a *)
(* grammar on an input: the first pass, and, if it has read the whole of    *)
(* it, the second one, led by the trace (TwoPass.tla).                      *)
(***************************************************************************)
EXTENDS TwoPass

CONSTANTS Defs,             \* name -> parser: the named rules of the grammar
          Inputs,           \* the inputs
          StartsC,          \* the rules the C parser is called for
          Parsers,          \* every parser of the grammar
          Constants         \* every constant of the grammar

(* What the grammar language and the C compiler ask of a grammar; that a    *)
(* dependency is an integer and a transform never moves the stream back is  *)
(* asked here.                                                             *)
Width(p) == p.w \in Nat \ {0}
WellFormedConst(k) ==
  \/ k.op = "carray" /\ Width(k)
  \/ k.op = "crepeat" /\ k.k \in Constants
  \/ k.op = "cstruct" /\ k.ks \in Seq(Constants)
  \/ k.op = "cunion" /\ k.ks \in Seq(Constants) /\ k.ks # << >>
WellFormedField(f) ==
  \/ f[1] = "constant" /\ f[2] \in Constants
  \/ f[1] = "field" /\ f[2] \in Parsers
  \/ f[1] = "dependency" /\ f[3].op = "integer" /\ Width(f[3]) /\ f[3].set \subseteq Nat
  \/ f[1] = "transform" /\ f[2] \in {"size_u32", "size", "offset", "offset_u32", "tail"}
WellFormed(p) ==
  \/ p.op = "integer" /\ Width(p)
  \/ p.op = "structure" /\ p.fields \in Seq({p.fields[i] : i \in DOMAIN p.fields})
       /\ \A i \in DOMAIN p.fields : WellFormedField(p.fields[i])
  \/ p.op \in {"fixedarray", "length", "optional", "apply"} /\ p.p \in Parsers
  \/ p.op = "wrap" /\ p.p \in Parsers /\ p.before \in Seq(Constants) /\ p.after \in Seq(Constants)
  \/ p.op = "array" /\ p.p \in Parsers /\ p.min \in Nat /\ p.sep \in Seq(Constants)
  \/ p.op \in {"name", "ref", "call"} /\ Defs[p.def] \in Parsers
  \/ /\ p.op \in {"choice", "nunion"}
     /\ p.ps \in Seq(Parsers) /\ p.ps # << >>
     /\ DOMAIN p.tags = DOMAIN p.ps
     /\ \A i, j \in DOMAIN p.tags : p.tags[i] = p.tags[j] => i = j

ASSUME CParserAssumption ==
  /\ StartsC \subseteq DOMAIN Defs
  /\ \A r \in StartsC : Defs[r] \in Parsers
  /\ \A p \in Parsers : WellFormed(p)
  /\ \A k \in Constants : WellFormedConst(k)
  /\ \A w \in Inputs : Len(w) \in Nat /\ Len(w) % PerByte = 0

VARIABLES start, input,     \* the call
          phase,            \* "parsing", "binding", "accepted", "rejected", "overread",
                            \* "endless": a pass did not end within its turns
          peg,              \* the state the first pass ended in
          result            \* the state the second pass ended in

cVars == <<start, input, phase, peg, result>>
Rule == Defs[start]

CInit ==
  /\ start \in StartsC /\ input \in Inputs
  /\ phase = "parsing" /\ peg = << >> /\ result = << >>

PegPass ==
  /\ phase = "parsing"
  /\ peg' = PegAll(Defs, Rule, input)
  /\ phase' = IF ~Ended(peg') THEN "endless"
              ELSE IF peg'.over # 0 THEN "overread"
              ELSE IF Recognised(peg') THEN "binding" ELSE "rejected"
  /\ UNCHANGED <<start, input, result>>

BindPass ==
  /\ phase = "binding"
  /\ result' = BindAll(Defs, Rule, input, peg.tr)
  /\ phase' = IF Ended(result') THEN "accepted" ELSE "endless"
  /\ UNCHANGED <<start, input, peg>>

CNext == PegPass \/ BindPass
CSpec == CInit /\ [][CNext]_cVars

-----------------------------------------------------------------------------
(* The second pass does what the first one did, led by the trace alone:     *)
(* whatever failed alternatives, elements and optionals left there, it      *)
(* finds a cell wherever it looks for one and an alternative for every tag, *)
(* and ends behind the last cell.                                           *)
TraceIsFollowed ==
  phase = "accepted" => ~result.lost /\ result.ti = Len(peg.tr)

(* No integer past the end of a stream is read: by the first pass not       *)
(* unless it has more whole bytes than the stream, or is not all of them    *)
(* whole bytes (what its check does not see); by the second one, which      *)
(* checks nothing, never; and where that ends, the first one had been.      *)
Unseen(s, w) == BytesOf(w) > BytesOf(s.size) \/ w % PerByte # 0 \/ ~Aligned(s)
NeverOverreads ==
  /\ phase = "overread" => Unseen(peg.s, peg.over)
  /\ phase = "accepted" => ~result.over /\ result.s.pos <= peg.s.pos
=============================================================================
