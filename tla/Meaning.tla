------------------------------ MODULE Meaning ------------------------------
(***************************************************************************)
(* The meaning of a grammar: an ordered-choice recogniser that gives back   *)
(* everything a failed parser consumed.  The parser back ends are compared  *)
(* with it; it is written from the combinators' own contract, not from any  *)
(* of them.                                                                 *)
(***************************************************************************)
EXTENDS Grammar

(* A context c has the named definitions defs; a state e has the current    *)
(* stream s, the other streams str, the dependencies dep, the value val of  *)
(* the last parser, and ok.  A failure carries nothing: the state before it *)
(* is what goes on.                                                        *)
Fails == [ok |-> FALSE]

RECURSIVE MeansConst(_, _, _), MeansCMany(_, _, _), MeansFirstConst(_, _, _)
MeansSym(p, sym, e) ==
  IF Past(e.s, p.w) THEN Fails
  ELSE IF IntegerAt(e.s, p) # sym THEN Fails
  ELSE [e EXCEPT !.s = Forward(@, p.w)]
MeansConst(c, k, e) ==
  CASE k.op = "carray" -> Chained(LAMBDA a, x : MeansSym(k, x, a), k.syms, e)
    [] k.op = "clittle" -> MeansSym(Symbol, Swapped(k.sym), e)
    [] k.op = "cstruct" -> Chained(LAMBDA a, x : MeansConst(c, x, a), k.ks, e)
    [] k.op = "crepeat" -> MeansCMany(c, k.k, e)
    [] k.op = "cunion" -> MeansFirstConst(c, k.ks, e)
MeansCMany(c, k, e) ==
  LET r == MeansConst(c, k, e) IN IF r.ok THEN MeansCMany(c, k, r) ELSE e
MeansFirstConst(c, ks, e) ==
  IF ks = << >> THEN Fails
  ELSE LET r == MeansConst(c, Head(ks), e)
       IN IF r.ok THEN r ELSE MeansFirstConst(c, Tail(ks), e)
MeansConsts(c, ks, e) == Chained(LAMBDA a, k : MeansConst(c, k, a), ks, e)

MeansLittle(e) ==
  IF AtEnd(e.s) THEN Fails
  ELSE [e EXCEPT !.val = Swapped(SymbolAt(e.s)), !.s = Forward(@, 1)]

RECURSIVE Means(_, _, _), MeansMany(_, _, _, _), MeansFirst(_, _, _, _), MeansTimes(_, _, _, _)

MeansInt(c, p, e) ==
  IF Past(e.s, p.w) THEN Fails
  ELSE LET n == IntegerAt(e.s, p)
       IN IF n \in p.set THEN [e EXCEPT !.val = n, !.s = Forward(@, p.w)] ELSE Fails

MeansTransform(e, f) ==
  LET t == Transform(f[2], e.s, IF f[4] = "" THEN 0 ELSE e.dep[f[4]])
  IN IF ~t.ok THEN Fails
     ELSE IF t.out.base + t.out.size > Len(t.out.data) THEN Fails    \* not a part of it
     ELSE [e EXCEPT !.s = t.cur, !.str = (f[3] :> t.out) @@ @]

(* The value of a structure is the sequence of its named fields' values.   *)
MeansField(c, e, f) ==
  CASE f[1] = "constant" -> MeansConst(c, f[2], e)
    [] f[1] = "transform" -> MeansTransform(e, f)
    [] f[1] = "field" ->
         LET r == Means(c, f[2], e)
         IN IF r.ok THEN WithVal(r, Append(e.val, r.val)) ELSE Fails
    [] f[1] = "dependency" ->
         LET r == Means(c, f[3], e)
         IN IF r.ok THEN [r EXCEPT !.val = e.val, !.dep = (f[2] :> r.val) @@ @] ELSE Fails

(* Zero or more; an element whose separator or body fails is given back.   *)
MeansMany(c, p, e, vals) ==
  LET sep == IF vals = << >> THEN e ELSE MeansConsts(c, p.sep, e)
      r == IF sep.ok THEN Means(c, p.p, sep) ELSE Fails
  IN IF r.ok THEN MeansMany(c, p, r, Append(vals, r.val))
     ELSE IF Len(vals) < p.min THEN Fails ELSE WithVal(e, vals)

MeansFirst(c, tags, ps, e) ==
  IF ps = << >> THEN Fails
  ELSE LET r == Means(c, Head(ps), e)
       IN IF r.ok THEN WithVal(r, <<Head(tags), r.val>>)
          ELSE MeansFirst(c, Tail(tags), Tail(ps), e)

MeansTimes(c, n, p, e) ==
  IF n = 0 THEN WithVal(e, << >>)
  ELSE LET r == MeansTimes(c, n - 1, p, e)
           q == IF r.ok THEN Means(c, p, r) ELSE Fails
       IN IF q.ok THEN WithVal(q, Append(r.val, q.val)) ELSE Fails

MeansApply(c, p, e) ==
  LET r == Means(c, p.p, [e EXCEPT !.s = e.str[p.str]])
  IN IF r.ok THEN [r EXCEPT !.s = e.s, !.str = (p.str :> r.s) @@ @] ELSE Fails

MeansSelect(c, p, e) ==
  LET hits == SelectSeq([i \in DOMAIN p.syms |-> i], LAMBDA i : p.syms[i] = e.dep[p.dep])
      r == IF hits = << >> THEN Fails ELSE Means(c, p.ps[hits[1]], e)
  IN IF r.ok THEN WithVal(r, <<p.tags[hits[1]], r.val>>) ELSE Fails

MeansInvoke(c, p, e) ==
  LET r == Means(c, c.defs[p.def], [e EXCEPT !.dep = (p.formal :> e.dep[p.actual]) @@ @])
  IN IF r.ok THEN [r EXCEPT !.dep = e.dep] ELSE Fails

Means(c, p, e) ==
  CASE p.op = "integer" -> MeansInt(c, p, e)
    [] p.op = "little" -> MeansLittle(e)
    [] p.op = "structure" ->
         Chained(LAMBDA a, f : MeansField(c, a, f), p.fields, WithVal(e, << >>))
    [] p.op = "wrap" ->
         LET b == MeansConsts(c, p.before, e)
             r == IF b.ok THEN Means(c, p.p, b) ELSE Fails
         IN IF r.ok THEN MeansConsts(c, p.after, r) ELSE Fails
    [] p.op = "choice" -> MeansFirst(c, p.tags, p.ps, e)
    [] p.op = "nunion" ->
         LET r == MeansFirst(c, p.tags, p.ps, e) IN IF r.ok THEN WithVal(r, r.val[2]) ELSE r
    [] p.op = "selectp" -> MeansSelect(c, p, e)
    [] p.op = "array" -> MeansMany(c, p, e, << >>)
    [] p.op = "fixedarray" -> MeansTimes(c, p.n, p.p, e)
    [] p.op = "length" -> MeansTimes(c, e.dep[p.dep], p.p, e)
    [] p.op = "apply" -> MeansApply(c, p, e)
    [] p.op = "optional" ->
         LET r == Means(c, p.p, e) IN IF r.ok THEN WithVal(r, <<r.val>>) ELSE WithVal(e, << >>)
    [] p.op \in {"name", "ref", "call"} -> Means(c, c.defs[p.def], e)
    [] p.op = "invoke" -> MeansInvoke(c, p, e)

Start(input) ==
  [ok |-> TRUE, s |-> WholeInput(input), str |-> << >>, dep |-> << >>, val |-> << >>]

(* What parsing all of input ought to give.                                *)
Meaning(defs, p, input) ==
  LET r == Means([defs |-> defs], p, Start(input))
  IN IF r.ok /\ AtEnd(r.s) THEN r ELSE Fails
=============================================================================
