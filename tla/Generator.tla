----------------------------- MODULE Generator -----------------------------
(***************************************************************************)
(* The generator both back ends emit (generator/mk_gen.cc): it walks a      *)
(* value, the one a parser of the same grammar builds, and writes it out.   *)
(* Each operator is the code one case of GenGenerator::generator emits, run. *)
(*                                                                         *)
(* Generator state: ok; wild, a value was read through a pointer to a       *)
(* pointer; unfit, a dependency was written whose value its field does not  *)
(* have; outs, the output streams [data, pos], of which cur is str_current; *)
(* str, the other streams by name; dep, the dep_ variables; place, the      *)
(* rewind_ positions.  A context c has the definitions defs and radix, the  *)
(* number of symbols there are.                                             *)
(***************************************************************************)
EXTENDS Grammar

Garbage == -1                       \* an uninitialised dep_ variable
EmptyStream == [data |-> << >>, pos |-> 0]

GenFails(g) == [g EXCEPT !.ok = FALSE]
GenStep(g, F(_)) == IF g.ok THEN F(g) ELSE g

OutPos(g) == g.outs[g.cur].pos
Rewind(g, pos) == [g EXCEPT !.outs[g.cur].pos = pos]

(* NailOutStream_write: behind a reposition it writes over what is there.    *)
WriteSymbol(g, x) ==
  LET o == g.outs[g.cur]
  IN [g EXCEPT !.outs[g.cur] =
        [data |-> IF o.pos < Len(o.data) THEN [o.data EXCEPT ![o.pos + 1] = x]
                  ELSE Append(o.data, x),
         pos |-> o.pos + 1]]
(* An integer n of the width of p: its w lowest symbols, the highest first. *)
SymbolsOf(c, p, n) ==
  [i \in 1..p.w |-> IF n = Garbage THEN Garbage ELSE (n \div c.radix^(p.w - i)) % c.radix]
Write(c, g, p, n) ==
  IF p.w = 1 THEN WriteSymbol(g, n) ELSE FoldLeft(WriteSymbol, g, SymbolsOf(c, p, n))

-----------------------------------------------------------------------------
(* Constants.  A repeated one is written once, of a union the first.        *)
RECURSIVE GenConst(_, _, _)
GenConst(c, g, k) ==
  CASE k.op = "carray" -> FoldLeft(LAMBDA a, x : Write(c, a, k, x), g, k.syms)
    [] k.op = "clittle" -> Write(c, g, Symbol, k.sym)
    [] k.op = "cstruct" -> FoldLeft(LAMBDA a, x : GenConst(c, a, x), g, k.ks)
    [] k.op = "crepeat" -> GenConst(c, g, k.k)
    [] k.op = "cunion" -> GenConst(c, g, k.ks[1])
GenConsts(c, g, ks) == FoldLeft(LAMBDA a, k : GenConst(c, a, k), g, ks)

-----------------------------------------------------------------------------
(* The generate half of the transforms: the fragment, its whole bytes, goes *)
(* to the end of the current stream, where a byte must begin; the           *)
(* dependency gets its length, its place or the total, in bytes.            *)
AppendFragment(g, name) ==
  LET frag == g.outs[g.str[name]]
      o == g.outs[g.cur]
      n == PerByte * BytesOf(frag.pos)
  IN [g EXCEPT !.outs[g.cur] =
                 [data |-> SubSeq(o.data, 1, o.pos) \o SubSeq(frag.data, 1, n), pos |-> o.pos + n],
               !.ok = Aligned(o)]
transform_generate(g, f) ==
  LET r == AppendFragment(g, f[3])
  IN CASE f[2] \in {"size", "size_u32"} ->
            [r EXCEPT !.dep[f[4]] = BytesOf(g.outs[g.str[f[3]]].pos)]
       [] f[2] \in {"offset", "offset_u32"} -> [r EXCEPT !.dep[f[4]] = BytesOf(OutPos(g))]
       [] f[2] = "total_size" -> [r EXCEPT !.dep[f[4]] = BytesOf(OutPos(r))]
       [] f[2] \in {"tail", "dnscompress"} -> r

(* Of a dependency, which a transform or a count computed, the field keeps  *)
(* the bits it has; nothing compares it with the field's constraint.        *)
Truncated(c, p, n) ==
  IF n = Garbage \/ p.w # 1 THEN n ELSE n % c.radix
WriteDependency(c, g, f) ==
  LET n == g.dep[f[2]]
  IN [Write(c, Rewind(g, g.place[f[2]]), f[3], Truncated(c, f[3], n))
      EXCEPT !.unfit = @ \/ n \notin f[3].set]

(* The end of a structure: every dependency's place is written over.        *)
Fixup(c, g, fields) ==
  LET deps == SelectSeq(fields, LAMBDA f : f[1] = "dependency")
  IN Rewind(FoldLeft(LAMBDA a, f : WriteDependency(c, a, f), g, deps), OutPos(g))

Dependencies(fields) == {f \in ToSet(fields) : f[1] = "dependency"}
LocalDependencies(fields) == {f[2] : f \in Dependencies(fields)}
GenTransform(c, fields, g, f) ==
  GenStep(transform_generate(g, f), LAMBDA r :
    IF f[4] \in LocalDependencies(fields)
    THEN Rewind(WriteDependency(c, r, CHOOSE d \in Dependencies(fields) : d[2] = f[4]), OutPos(r))
    ELSE r)

(* The transforms run when all fields are written, the last one first.      *)
GenTransforms(c, g, fields) ==
  FoldLeft(LAMBDA a, f : GenStep(a, LAMBDA r : GenTransform(c, fields, r, f)), g,
           Reverse(SelectSeq(fields, LAMBDA f : f[1] = "transform")))

NewStream(g, name) ==
  [g EXCEPT !.outs = Append(@, EmptyStream), !.str = (name :> Len(g.outs) + 1) @@ @]
Placeholder(c, g, f) ==
  Write(c, [g EXCEPT !.dep = (f[2] :> Garbage) @@ @, !.place = (f[2] :> OutPos(g)) @@ @], f[3], 0)

RECURSIVE Gen(_, _, _, _)

(* Structure: v has the values of the fields, in order.                     *)
GenField(c, v, a, f) ==
  CASE f[1] = "constant" -> [a EXCEPT !.g = GenConst(c, @, f[2])]
    [] f[1] = "field" -> [g |-> Gen(c, f[2], v[a.next], a.g), next |-> a.next + 1]
    [] f[1] = "dependency" -> [a EXCEPT !.g = Placeholder(c, @, f)]
    [] f[1] = "transform" -> [a EXCEPT !.g = NewStream(@, f[3])]
LeaveScope(g, fields, outer) ==
  [g EXCEPT !.str = outer.str, !.place = outer.place,
            !.dep = [d \in DOMAIN outer.dep |->
                       IF d \in LocalDependencies(fields) THEN outer.dep[d] ELSE @[d]]]
GenStructure(c, p, v, g) ==
  LET body == FoldLeft(LAMBDA a, f : IF a.g.ok THEN GenField(c, v, a, f) ELSE a,
                       [g |-> g, next |-> 1], p.fields).g
  IN GenStep(GenTransforms(c, body, p.fields), LAMBDA r :
       LeaveScope(Fixup(c, r, p.fields), p.fields, g))

GenElements_NoSeparator(c, p, sep, v, g) ==     \* mutant
  FoldLeftDomain(LAMBDA a, i : IF ~a.ok THEN a ELSE Gen(c, p, v[i], a), g, v)
GenElements(c, p, sep, v, g) ==
  FoldLeftDomain(LAMBDA a, i :
    IF ~a.ok THEN a
    ELSE Gen(c, p, v[i], IF i > 1 THEN GenConsts(c, a, sep) ELSE a), g, v)

GenChoice(c, p, v, g) ==
  Gen(c, p.ps[CHOOSE i \in DOMAIN p.tags : p.tags[i] = v[1]], v[2], g)
(* select also fixes the dependency it depends on.                          *)
GenSelect(c, p, v, g) ==
  LET i == CHOOSE j \in DOMAIN p.tags : p.tags[j] = v[1]
  IN Gen(c, p.ps[i], v[2], [g EXCEPT !.dep[p.dep] = p.syms[i]])

(* n_of counts its elements; the count is assigned when they are written.   *)
GenLength(c, p, v, g) ==
  GenStep(GenElements(c, p.p, << >>, v, g), LAMBDA r : [r EXCEPT !.dep[p.dep] = Len(v)])

GenApply(c, p, v, g) == [Gen(c, p.p, v, [g EXCEPT !.cur = g.str[p.str]]) EXCEPT !.cur = g.cur]

(* A rule has no dependencies of its caller's.  A REF falls through to the  *)
(* same call, "kludgy": &val of a field that is a pointer already.          *)
GenName(c, def, v, g) ==
  LET r == Gen(c, c.defs[def], v, [g EXCEPT !.str = << >>, !.dep = << >>, !.place = << >>])
  IN [r EXCEPT !.str = g.str, !.dep = g.dep, !.place = g.place]
GenRef(c, p, v, g) == [GenFails(g) EXCEPT !.wild = TRUE]

(* With parameters: the rule assigns the caller's dependency.               *)
GenInvoke(c, p, v, g) ==
  LET r == Gen(c, c.defs[p.def], v,
               [g EXCEPT !.str = << >>, !.dep = (p.formal :> @[p.actual]), !.place = << >>])
  IN [r EXCEPT !.str = g.str, !.place = g.place, !.dep = [g.dep EXCEPT ![p.actual] = r.dep[p.formal]]]

Gen(c, p, v, g) ==
  CASE p.op = "integer" -> IF v \in p.set THEN Write(c, g, p, v) ELSE GenFails(g)
    [] p.op = "little" -> Write(c, g, Symbol, v)
    [] p.op = "structure" -> GenStructure(c, p, v, g)
    [] p.op = "wrap" ->
         GenStep(Gen(c, p.p, v, GenConsts(c, g, p.before)), LAMBDA r : GenConsts(c, r, p.after))
    [] p.op = "choice" -> GenChoice(c, p, v, g)
    [] p.op = "selectp" -> GenSelect(c, p, v, g)
    [] p.op = "nunion" -> Gen(c, p.ps[1], v, g)
    [] p.op = "array" -> GenElements(c, p.p, p.sep, v, g)
    [] p.op = "fixedarray" -> GenElements(c, p.p, << >>, v, g)
    [] p.op = "length" -> GenLength(c, p, v, g)
    [] p.op = "apply" -> GenApply(c, p, v, g)
    [] p.op = "optional" -> IF v = << >> THEN g ELSE Gen(c, p.p, v[1], g)
    [] p.op = "ref" -> GenRef(c, p, v, g)
    [] p.op \in {"name", "call"} -> GenName(c, p.def, v, g)
    [] p.op = "invoke" -> GenInvoke(c, p, v, g)

-----------------------------------------------------------------------------
(* gen_X on a fresh output stream; what a caller gets from it is data.      *)
gen_(defs, radix, p, v) ==
  LET r == Gen([defs |-> defs, radix |-> radix], p, v,
               [ok |-> TRUE, wild |-> FALSE, unfit |-> FALSE, outs |-> <<EmptyStream>>, cur |-> 1,
                str |-> << >>, dep |-> << >>, place |-> << >>])
  IN [ok |-> r.ok, wild |-> r.wild, unfit |-> r.unfit,
      data |-> SubSeq(r.outs[1].data, 1, r.outs[1].pos)]
=============================================================================
