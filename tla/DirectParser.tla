--------------------------- MODULE DirectParser ----------------------------
(***************************************************************************)
(* The parser that nail generates (generator/mk_directparser.cc, C++ with   *)
(* templates): one pass that reads, checks and builds the result in the    *)
(* caller's arena, and takes both the stream and the arena back when an    *)
(* attempt fails.                                                          *)
(*                                                                         *)
(* Parse state: ok, the current stream s, the other streams str, the       *)
(* dependencies dep, the value val; ptrs, the arena blocks the value being *)
(* built points to, in order; mem, the number of blocks the arena has      *)
(* handed out and not taken back (block n is the n-th); wild, the value is *)
(* written through a pointer nobody set; crash, such a write, or a read     *)
(* outside of the input, happened.  A failure keeps what the emitted code  *)
(* did up to its goto.  Temporary lists and the streams of transforms live *)
(* in the other arena, tmparena.                                           *)
(***************************************************************************)
EXTENDS Grammar

(* Where a repetition goes back to before its first element, in the earlier *)
(* emission of examples/dns_cpp: the current one saves the state first.     *)
Saved == -1
Wild == -2                                  \* to addresses the process does not have

Fail(st) == [st EXCEPT !.ok = FALSE]
Step(st, F(_)) == IF st.ok THEN F(st) ELSE st
GoesOn(st) == ~st.ok /\ ~st.crash       \* control is at the fail label

Assign(st, v) == IF st.wild THEN [st EXCEPT !.ok = FALSE, !.crash = TRUE] ELSE WithVal(st, v)

n_malloc(st) == [st EXCEPT !.mem = @ + 1, !.ptrs = Append(@, st.mem + 1)]
n_arena_restore(st, saved) == [st EXCEPT !.mem = saved.mem]
rewind(st, saved) == [st EXCEPT !.s = saved.s]
(* What follows a fail label: the value the attempt was building is gone.  *)
Retry(st, saved) ==
  [rewind(n_arena_restore(st, saved), saved) EXCEPT !.ok = TRUE, !.ptrs = saved.ptrs]

-----------------------------------------------------------------------------
(* check, read, compare; the stream stays behind an integer that differs.  *)
ReadInt(st, w) ==
  IF Past(st.s, w) THEN Fail(st)
  ELSE IF Outside(st.s, w) THEN [st EXCEPT !.ok = FALSE, !.crash = TRUE]
  ELSE [st EXCEPT !.s = Forward(@, w)]
Accept(p, set, before, st) ==
  Step(st, LAMBDA r : IF IntegerAt(before.s, p) \in set THEN r ELSE Fail(r))

(* !LITTLE-ENDIAN; every value is in the range of an integer without one.   *)
p_little(c, st) == Step(ReadInt(st, 1), LAMBDA r : Assign(r, Swapped(SymbolAt(st.s))))

p_constint(p, sym, st) == Accept(p, {sym}, st, ReadInt(st, p.w))

RECURSIVE p_const(_, _, _), CRepeat(_, _, _), CUnionFrom(_, _, _)
p_const(c, k, st) ==
  CASE k.op = "carray" -> Chained(LAMBDA a, x : p_constint(k, x, a), k.syms, st)
    [] k.op = "clittle" -> p_constint(Symbol, Swapped(k.sym), st)
    [] k.op = "cstruct" -> Chained(LAMBDA a, x : p_const(c, x, a), k.ks, st)
    [] k.op = "crepeat" -> CRepeat(c, k.k, st)
    [] k.op = "cunion" -> CUnionFrom(c, k.ks, st)
(* Where the failed constant left the stream is where things go on.        *)
CRepeat(c, k, st) ==
  LET r == p_const(c, k, st) IN IF r.ok THEN CRepeat(c, k, r) ELSE [r EXCEPT !.ok = TRUE]
(* st.s is back, where every failed alternative rewinds to.                *)
CUnionFrom(c, ks, st) ==
  IF ks = << >> THEN Fail(st)
  ELSE LET r == p_const(c, Head(ks), st)
       IN IF r.ok THEN r ELSE CUnionFrom(c, Tail(ks), st)
p_consts(c, ks, st) == Chained(LAMBDA a, k : p_const(c, k, a), ks, st)

(* The integer is stored before its constraint is looked at.               *)
p_int(c, p, st) ==
  Accept(p, p.set, st, Step(ReadInt(st, p.w), LAMBDA r : Assign(r, IntegerAt(st.s, p))))

-----------------------------------------------------------------------------
RECURSIVE parser(_, _, _), ChoiceFrom(_, _, _, _), ArrayFrom(_, _, _, _, _), TimesInto(_, _, _, _)

(* Run p on a value of its own; into what the value around it is.          *)
Inner(c, p, st, wild) == parser(c, p, [st EXCEPT !.wild = wild])
Within(st, outer) == [st EXCEPT !.wild = outer.wild]

p_transform(st, f) ==
  LET t == Transform(f[2], st.s, IF f[4] = "" THEN 0 ELSE st.dep[f[4]])
  IN IF ~t.ok THEN Fail(st) ELSE [st EXCEPT !.s = t.cur, !.str = (f[3] :> t.out) @@ @]

p_field(c, st, f) ==
  CASE f[1] = "constant" -> p_const(c, f[2], st)
    [] f[1] = "transform" -> p_transform(st, f)
    [] f[1] = "field" -> Step(parser(c, f[2], st), LAMBDA r : WithVal(r, Append(st.val, r.val)))
    [] f[1] = "dependency" ->
         Step(Within(Inner(c, f[3], st, FALSE), st),
              LAMBDA r : [r EXCEPT !.dep = (f[2] :> r.val) @@ @, !.val = st.val])

(* mutant: the stream goes back only if no alternative succeeds *)
ChoiceFrom_NoRewind(c, tags, ps, st) ==
  IF ps = << >> THEN Fail(st)
  ELSE LET r == parser(c, Head(ps), st)
       IN IF r.ok THEN Assign(r, <<Head(tags), r.val>>)
          ELSE IF GoesOn(r) THEN ChoiceFrom(c, Tail(tags), Tail(ps), [Retry(r, st) EXCEPT !.s = r.s])
          ELSE r

(* CHOICE: the arena and the stream go back after every failed alternative; *)
(* the tag is stored after one succeeded.                                  *)
ChoiceFrom(c, tags, ps, st) ==
  IF ps = << >> THEN Fail(st)
  ELSE LET r == parser(c, Head(ps), st)
       IN IF r.ok THEN Assign(r, <<Head(tags), r.val>>)
          ELSE IF GoesOn(r) THEN ChoiceFrom(c, Tail(tags), Tail(ps), Retry(r, st)) ELSE r

(* mutant: the position is saved before the first element only *)
ArrayFrom_SavesOnce(c, p, st, vals, outer) ==
  LET sep == IF vals = << >> THEN st ELSE p_consts(c, p.sep, st)
      r == Step(sep, LAMBDA a : Inner(c, p.p, a, FALSE))
  IN IF r.ok THEN ArrayFrom(c, p, r, Append(vals, r.val), outer)
     ELSE IF ~GoesOn(r) THEN r
     ELSE LET back == Within([Retry(r, st) EXCEPT !.mem = outer.mem], outer)
          IN IF Len(vals) < p.min THEN Fail(back) ELSE Assign(n_malloc(back), vals)

(* The earlier emission of sepBy jumps over the initialisers of the two     *)
(* saves to its first element: when that one fails, the stream and the      *)
(* arena go back to whatever the variables hold, c.left.                    *)
JumpedOver(c, p, vals) == c.left # Saved /\ vals = << >> /\ p.sep # << >>
GoBack(c, p, vals, r, st) ==
  IF ~JumpedOver(c, p, vals) THEN Retry(r, st)
  ELSE IF c.left = Wild THEN [r EXCEPT !.crash = TRUE]
  ELSE Retry(r, [st EXCEPT !.s.pos = c.left, !.mem = c.left])

(* ARRAY: elements go to a temporary list, what they point to to the arena. *)
(* st is the state behind the last element: where an attempt that fails,    *)
(* in its separator or in its body, goes back to.                           *)
ArrayFrom(c, p, st, vals, outer) ==
  LET sep == IF vals = << >> THEN st ELSE p_consts(c, p.sep, st)
      r == Step(sep, LAMBDA a : Inner(c, p.p, a, FALSE))
  IN IF r.ok THEN ArrayFrom(c, p, r, Append(vals, r.val), outer)
     ELSE IF ~GoesOn(r) THEN r
     ELSE LET back == Within(GoBack(c, p, vals, r, st), outer)
          IN IF Len(vals) < p.min THEN Fail(back) ELSE Assign(n_malloc(back), vals)

TimesInto_OverwritesFirst(c, n, p, st) ==       \* mutant: every element goes to elem[0]
  IF n = 0 THEN WithVal(st, << >>)
  ELSE Step(TimesInto(c, n - 1, p, st), LAMBDA r :
         Step(parser(c, p, r), LAMBDA q : WithVal(q, <<q.val>> \o Tail(Append(r.val, q.val)))))
TimesInto(c, n, p, st) ==
  IF n = 0 THEN WithVal(st, << >>)
  ELSE Step(TimesInto(c, n - 1, p, st), LAMBDA r :
         Step(parser(c, p, r), LAMBDA q : WithVal(q, Append(r.val, q.val))))

(* LENGTH: count and elem are stored, elem is allocated, then filled.      *)
p_length(c, p, st) ==
  Step(Assign(n_malloc(st), << >>), LAMBDA r :
    Within(TimesInto(c, st.dep[p.dep], p.p, [r EXCEPT !.wild = FALSE]), st))

p_select(c, p, st) ==
  LET hits == SelectSeq([i \in DOMAIN p.syms |-> i], LAMBDA i : p.syms[i] = st.dep[p.dep])
  IN IF hits = << >> THEN Fail(st)
     ELSE Step(Assign(st, st.val), LAMBDA a : Step(parser(c, p.ps[hits[1]], a), LAMBDA r :
            WithVal(r, <<p.tags[hits[1]], r.val>>)))

(* APPLY: the body moves the named stream; a failure leaves it there.      *)
p_apply(c, p, st) ==
  LET r == parser(c, p.p, [st EXCEPT !.s = st.str[p.str]])
  IN [r EXCEPT !.s = st.s, !.str = (p.str :> r.s) @@ @]

(* OPTIONAL: nothing is allocated for the body before it is parsed into.   *)
p_optional(c, p, st) ==
  LET r == Within(Inner(c, p.p, st, TRUE), st)
  IN IF r.ok THEN WithVal(r, <<r.val>>)
     ELSE IF GoesOn(r) THEN Assign(Retry(r, st), << >>) ELSE r

(* REF: the block first, then the rule into it.                            *)
p_ref(c, p, st) ==
  Step(Assign(n_malloc(st), << >>), LAMBDA r :
    Within(Inner(c, c.defs[p.def], r, FALSE), st))

(* NAME with parameters: the rule has a pointer to its caller's dependency. *)
p_invoke(c, p, st) ==
  LET r == parser(c, c.defs[p.def], [st EXCEPT !.dep = (p.formal :> st.dep[p.actual]) @@ @])
  IN [r EXCEPT !.dep = st.dep]

(* parse_X: the result is a block of the arena; no whole byte may be left.  *)
p_entry(c, p, st) == Step(parser(c, p.p, n_malloc(st)), LAMBDA r :
  IF Past(r.s, PerByte) THEN r ELSE Fail(r))

parser(c, p, st) ==
  CASE p.op = "integer" -> p_int(c, p, st)
    [] p.op = "little" -> p_little(c, st)
    [] p.op = "structure" ->
         Chained(LAMBDA a, f : p_field(c, a, f), p.fields, WithVal(st, << >>))
    [] p.op = "wrap" ->
         Step(Step(p_consts(c, p.before, st), LAMBDA r : parser(c, p.p, r)),
              LAMBDA r : p_consts(c, p.after, r))
    [] p.op = "choice" -> ChoiceFrom(c, p.tags, p.ps, st)
    [] p.op = "selectp" -> p_select(c, p, st)
    [] p.op = "array" -> ArrayFrom(c, p, st, << >>, st)
    [] p.op = "fixedarray" -> TimesInto(c, p.n, p.p, st)
    [] p.op = "length" -> p_length(c, p, st)
    [] p.op = "apply" -> p_apply(c, p, st)
    [] p.op = "optional" -> p_optional(c, p, st)
    [] p.op = "ref" -> p_ref(c, p, st)
    [] p.op = "name" -> parser(c, c.defs[p.def], st)
    [] p.op = "invoke" -> p_invoke(c, p, st)
    [] p.op = "entry" -> p_entry(c, p, st)

-----------------------------------------------------------------------------
(* parse_X on an input; left says what a jump over the saves finds.         *)
Unparsed(input) ==
  [ok |-> TRUE, crash |-> FALSE, wild |-> FALSE, s |-> WholeInput(input), str |-> << >>,
   dep |-> << >>, val |-> << >>, ptrs |-> << >>, mem |-> 0]
parse_earlier(defs, left, p, input) ==
  parser([defs |-> defs, left |-> left], Entry(p), Unparsed(input))
parse_(defs, p, input) == parse_earlier(defs, Saved, p, input)
=============================================================================
