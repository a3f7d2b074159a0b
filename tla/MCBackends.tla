----------------------------- MODULE MCBackends ----------------------------
(* Both back ends on the sample grammars.                                  *)
EXTENDS Backends, Samples
(* The parsers of the rules that cnail takes, and their constants.          *)
Several(p) == p.op \in {"choice", "nunion", "selectp"}
Around(p) == p.op \in {"wrap", "array", "fixedarray", "length", "optional", "apply"}
FieldsOf(p, kind) == {f \in ToSet(p.fields) : f[1] = kind}
RECURSIVE Within(_)
Within(p) ==
  {p} \cup
  CASE p.op = "structure" -> UNION {Within(f[2]) : f \in FieldsOf(p, "field")}
    [] Several(p) -> UNION {Within(p.ps[i]) : i \in DOMAIN p.ps}
    [] Around(p) -> Within(p.p)
    [] OTHER -> {}
RECURSIVE WithinConst(_)
WithinConst(k) ==
  {k} \cup
  CASE k.op \in {"cstruct", "cunion"} -> UNION {WithinConst(k.ks[i]) : i \in DOMAIN k.ks}
    [] k.op = "crepeat" -> WithinConst(k.k)
    [] OTHER -> {}
ConstantsOf(p) ==
  CASE p.op = "structure" -> {f[2] : f \in FieldsOf(p, "constant")}
    [] p.op = "wrap" -> ToSet(p.before) \cup ToSet(p.after)
    [] p.op = "array" -> ToSet(p.sep)
    [] OTHER -> {}
MCParsers ==
  UNION {Within(SampleDefs[r]) : r \in DOMAIN SampleDefs \ {"selected", "datagram"}}
MCConstants == UNION {WithinConst(k) : k \in UNION {ConstantsOf(p) : p \in MCParsers}}
MCDefs == SampleDefs
MCRadix == 2
MCInputs == SampleInputs
MCModels(r) == IF r \in DOMAIN SampleModels THEN SampleModels[r] ELSE {}
=============================================================================
