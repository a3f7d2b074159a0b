------------------------------ MODULE Backends -----------------------------
(***************************************************************************)
(* A grammar compiled by both back ends: the C parser and its two passes    *)
(* (TwoPass.tla), the C++ parser (DirectParser.tla) and the generator       *)
(* (Generator.tla), run on an input and compared with what the grammar      *)
(* means.  parse_X is one action per pass; gen_X is called on the value     *)
(* that came out of it, or on one that an application made.                 *)
(***************************************************************************)
EXTENDS CParser, Meaning

CONSTANTS Radix,            \* the number of symbols
          StartsCpp,        \* the rules the C++ parser is called for
          Generated,        \* those of the rules whose value is handed to the generator
          Models(_)         \* the values of a rule that an application makes

ASSUME BackendsAssumption ==
  /\ Radix \in Nat \ {0}
  /\ StartsCpp \cup Generated \subseteq DOMAIN Defs

Cpp == INSTANCE DirectParser
G == INSTANCE Generator

VARIABLES backend,          \* which parser is called: "C", "C++"; "none", an application's value
          built,            \* the state the C++ parser ended in; without a parser, the value
          made              \* what the generator returned

vars == <<cVars, backend, built, made>>

Init ==
  /\ \/ backend = "C" /\ CInit /\ built = << >>
     \/ /\ backend = "C++"
        /\ start \in StartsCpp /\ input \in Inputs
        /\ phase = "called" /\ peg = << >> /\ result = << >>
        /\ built = << >>
     \/ /\ backend = "none"
        /\ start \in Generated /\ built \in Models(start)
        /\ phase = "modelled" /\ input = << >> /\ peg = << >> /\ result = << >>
  /\ made = << >>

ParseC == CNext /\ UNCHANGED <<backend, built, made>>

ParseCpp ==
  /\ phase = "called"
  /\ built' = Cpp!parse_(Defs, Rule, input)
  /\ phase' = IF built'.crash THEN "crashed" ELSE IF built'.ok THEN "parsed" ELSE "rejected"
  /\ UNCHANGED <<backend, start, input, peg, result, made>>

Accepted == phase \in {"accepted", "parsed"}
Value ==
  CASE backend = "C" -> Built(result)
    [] backend = "C++" -> built.val
    [] backend = "none" -> built

Generate ==
  /\ Accepted \/ phase = "modelled"
  /\ start \in Generated /\ made = << >>
  /\ made' = G!gen_(Defs, Radix, Rule, Value)
  /\ UNCHANGED <<cVars, backend, built>>

Next == ParseC \/ ParseCpp \/ Generate
Spec == Init /\ [][Next]_vars

-----------------------------------------------------------------------------
Expected == Meaning(Defs, Rule, input)

(* What a parser accepts is what its grammar means: what a failed           *)
(* alternative, a failed element or an absent optional consumed is given    *)
(* back, so the whole of an input is recognised exactly if the grammar      *)
(* derives it.                                                              *)
AcceptsLanguage ==
  /\ Accepted \/ phase = "binding" => Expected.ok
  /\ phase = "rejected" => ~Expected.ok
  /\ phase # "endless"

(* The value is the one the grammar derives: C++, whatever failed around it *)
(* while it was built; C, whose second pass reads it off the input led by   *)
(* the trace alone.                                                        *)
BuildsReference == Accepted /\ Expected.ok => Value = Expected.val

(* C++: every block the result points to is still the result's: none was    *)
(* given back to the arena, none is used twice.                             *)
ResultOwnsItsBlocks ==
  phase = "parsed" =>
    \A i \in DOMAIN built.ptrs :
      /\ built.ptrs[i] <= built.mem
      /\ \A j \in DOMAIN built.ptrs : i # j => built.ptrs[i] # built.ptrs[j]

(* C++: nothing is stored through a pointer nobody set.                     *)
NeverWritesWild == phase # "crashed"

(* What was generated means the value it was generated from.                *)
MeansTheSame ==
  /\ made.ok
  /\ LET again == Meaning(Defs, Rule, made.data) IN again.ok /\ again.val = Value


(* "When generating output, Nail inserts the correct value" of a count, a   *)
(* size or another dependent field (paper/login/design.tex:80): what is not *)
(* refused means what it was generated from.  It fails, and no run checks   *)
(* it: five answers are written behind a count of one.                      *)
InsertsCorrectValue == made # << >> /\ made.ok => MeansTheSame
=============================================================================
