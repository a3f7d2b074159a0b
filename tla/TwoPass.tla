------------------------------ MODULE TwoPass ------------------------------
(***************************************************************************)
(* The parser that cnail generates (generator/mk_parser.cc).  A first pass  *)
(* recognises the input and appends what the second one cannot know to an   *)
(* integer array, the trace; a second pass reads the values off the input   *)
(* again, led by the trace.  Peg... are CPrimitiveParser's emitters, Bind...*)
(* are CAction's: each operator is the code one of them emits, run.         *)
(*                                                                         *)
(* A pass is a machine: todo is what the emitted code still has to do, the  *)
(* innermost last, and a turn does the last item of it, or puts others in   *)
(* its place.  A frame is an item left there for when what is above it has  *)
(* succeeded, or failed: the labels an emitter emits behind its body.       *)
(*                                                                         *)
(* Peg state: ok, the current stream s, the other streams str, the          *)
(* dependency variables dep, the trace tr, over (the width of an integer    *)
(* that was read past the end of its stream, 0 if none was), and what of a  *)
(* constant is still to be matched, in match, before todo goes on.  A       *)
(* failure keeps everything the emitted code did up to its goto.  A trace   *)
(* position is the number of cells before it.                              *)
(* A recorded stream takes one cell here.                                   *)
(***************************************************************************)
EXTENDS Grammar

CONSTANT Turns          \* a pass is followed for Turns^3 turns
ASSUME TurnsAssumption == Turns \in Nat

-----------------------------------------------------------------------------
(* Items: a parser, a constant whose end is recorded, the i-th and later    *)
(* elements of a sequence, or of n parsers.                                *)
Parse(p) == [do |-> "parse", p |-> p]
Constant(k) == [do |-> "constant", k |-> k]
EachConstant(ks, i) == [do |-> "constants", ks |-> ks, i |-> i]
EachField(fs, i) == [do |-> "fields", fs |-> fs, i |-> i]
EachTime(n, p, i) == [do |-> "times", n |-> n, p |-> p, i |-> i]
FieldItem(f) ==
  CASE f[1] = "constant" -> Constant(f[2])
    [] f[1] = "field" -> Parse(f[2])
    [] f[1] \in {"dependency", "transform"} -> [do |-> f[1], f |-> f]

(* What both emitters walk alike.                                          *)
Walked == {"structure", "wrap", "fixedarray", "name", "ref"}
Walks(f) == f.do \in {"constants", "fields", "times"} \/ (f.do = "parse" /\ f.p.op \in Walked)
WalkParser(c, p) ==
  CASE p.op = "structure" -> <<EachField(p.fields, 1)>>
    [] p.op = "wrap" -> <<EachConstant(p.after, 1), Parse(p.p), EachConstant(p.before, 1)>>
    [] p.op = "fixedarray" -> <<EachTime(p.n, p.p, 1)>>
    [] p.op \in {"name", "ref"} -> <<Parse(c.defs[p.def])>>
Walk(c, f) ==
  CASE f.do = "parse" -> WalkParser(c, f.p)
    [] f.do = "constants" ->
         IF f.i > Len(f.ks) THEN << >> ELSE <<EachConstant(f.ks, f.i + 1), Constant(f.ks[f.i])>>
    [] f.do = "fields" ->
         IF f.i > Len(f.fs) THEN << >> ELSE <<EachField(f.fs, f.i + 1), FieldItem(f.fs[f.i])>>
    [] f.do = "times" ->
         IF f.i > f.n THEN << >> ELSE <<EachTime(f.n, f.p, f.i + 1), Parse(f.p)>>
(* The i-th element of a repetition, behind a separator but for the first.  *)
Element(p, i) ==
  <<Parse(p.p), EachConstant(IF p.op = "array" /\ i > 1 THEN p.sep ELSE << >>, 1)>>

(* The last item of todo, and others in its place.                         *)
Top(m) == m.todo[Len(m.todo)]
Then(m, items) == [m EXCEPT !.todo = SubSeq(@, 1, Len(@) - 1) \o items]
Done(m) == Then(m, << >>)

-----------------------------------------------------------------------------
(* First pass.                                                             *)
Fail(m) == [m EXCEPT !.ok = FALSE]
Push(m, cells) == [m EXCEPT !.tr = @ \o cells]
TracePos(m) == Len(m.tr)
(* What a name stands for; Scope lets none be used that nothing has set.    *)
Dependency(m, x) == IF x \in DOMAIN m.dep THEN m.dep[x] ELSE 0
Stream(m, x) == IF x \in DOMAIN m.str THEN m.str[x] ELSE m.s
(* A name stands for something else from now on.                           *)
Named(g, x, v) == [y \in DOMAIN g \cup {x} |-> IF y = x THEN v ELSE g[y]]
SetCell(m, at, v) == [m EXCEPT !.tr[at + 1] = v]
SetCells(m, at, v, w) == SetCell(SetCell(m, at, v), at + 1, w)

(* Frames: a constant being matched; the i-th alternative, whose trace      *)
(* starts at from; a repetition in its i-th element, of which there will be *)
(* n; an optional's body; a body on another stream than s; a call.  Their   *)
(* cells are behind at.                                                     *)
Recorded(k) == [do |-> "recorded", k |-> k]
Alternative(p, i, back, at, from) ==
  [do |-> "alternative", p |-> p, i |-> i, back |-> back, at |-> at, from |-> from]
More(p, i, at) == [do |-> "more", p |-> p, i |-> i, at |-> at]
Counted(p, i, at, n) == [do |-> "counted", p |-> p, i |-> i, at |-> at, n |-> n]
Maybe(p, at) == [do |-> "maybe", p |-> p, at |-> at]
Leave(s, str) == [do |-> "leave", s |-> s, str |-> str]
Return(s) == [do |-> "return", s |-> s]

(* stream_check counts whole bytes, of the field and of the stream, and     *)
(* subtracts in size_t: on a stream of fewer bytes than the field has the   *)
(* difference wraps and the check passes.                                   *)
ChecksOut_OffByOne(s, w) ==     \* mutant
  BytesOf(w) > BytesOf(s.size) \/ BytesOf(s.pos) <= BytesOf(s.size) - BytesOf(w) + 1
ChecksOut(s, w) ==
  BytesOf(w) > BytesOf(s.size) \/ BytesOf(s.pos) <= BytesOf(s.size) - BytesOf(w)

(* Check, read, compare; a mismatch backs up over this one integer.  A read *)
(* past the end is the end of this.                                        *)
PegOver(m, w) == [m EXCEPT !.ok = FALSE, !.over = w, !.match = << >>, !.todo = << >>]
PegInt(m, p, set) ==
  IF ~ChecksOut(m.s, p.w) THEN Fail(m)
  ELSE IF Past(m.s, p.w) THEN PegOver(m, p.w)
  ELSE IF IntegerAt(m.s, p) \notin set THEN Fail(m)
  ELSE [m EXCEPT !.s = Forward(@, p.w)]

(* Constants inside constants: the next integer, the next constant, once    *)
(* more, the i-th alternative from back.                                   *)
Match(k) == [do |-> "match", k |-> k]
EachSymbol(k, i) == [do |-> "symbols", k |-> k, i |-> i]
EachMatch(ks, i) == [do |-> "matches", ks |-> ks, i |-> i]
Again(k) == [do |-> "again", k |-> k]
Either(ks, i, back) == [do |-> "either", ks |-> ks, i |-> i, back |-> back]
Matching(m, items) == [m EXCEPT !.match = SubSeq(@, 1, Len(@) - 1) \o items]

PegConst(m, k) ==
  CASE k.op = "carray" -> Matching(m, <<EachSymbol(k, 1)>>)
    [] k.op = "cstruct" -> Matching(m, <<EachMatch(k.ks, 1)>>)
    [] k.op = "crepeat" -> Matching(m, <<Again(k.k), Match(k.k)>>)
    [] OTHER -> Matching(m, <<Either(k.ks, 1, m.s.pos), Match(k.ks[1])>>)       \* cunion
ConstGoesOn(m, f) ==
  CASE f.do = "match" -> PegConst(m, f.k)
    [] f.do = "symbols" ->
         IF f.i > Len(f.k.syms) THEN Matching(m, << >>)
         ELSE PegInt(Matching(m, <<EachSymbol(f.k, f.i + 1)>>), f.k, {f.k.syms[f.i]})
    [] f.do = "matches" ->
         Matching(m, IF f.i > Len(f.ks) THEN << >> ELSE <<EachMatch(f.ks, f.i + 1), Match(f.ks[f.i])>>)
    [] f.do = "again" -> Matching(m, <<f, Match(f.k)>>)
    [] OTHER -> Matching(m, << >>)                                              \* either
NextEither(m, f) ==
  LET r == [m EXCEPT !.s = Reposition(@, f.back)]
  IN IF f.i = Len(f.ks) THEN Matching(r, << >>)
     ELSE Matching([r EXCEPT !.ok = TRUE], <<Either(f.ks, f.i + 1, f.back), Match(f.ks[f.i + 1])>>)
ConstBacksOut(m, f) ==
  CASE f.do = "either" -> NextEither(m, f)
    [] f.do = "again" -> Matching([m EXCEPT !.ok = TRUE], << >>)
    [] f.do \notin {"either", "again"} -> Matching(m, << >>)
ConstTurn(m) ==
  LET f == m.match[Len(m.match)] IN IF m.ok THEN ConstGoesOn(m, f) ELSE ConstBacksOut(m, f)

(* A dependency is parsed and bound at once, on a copy of the stream, and   *)
(* the trace cut back to one cell, the position after it.  It is an integer *)
(* here.                                                                   *)
PegDependency(m, f) ==
  LET r == PegInt(m, f[3], f[3].set)
  IN IF r.ok THEN Push(Done([r EXCEPT !.dep = Named(@, f[2], IntegerAt(m.s, f[3]))]), <<r.s.pos>>)
     ELSE r

(* The transform's fragment becomes a local stream; the trace gets the     *)
(* current stream as the transform left it.                                *)
PegTransform(m, f) ==
  LET t == Transform(f[2], m.s, Dependency(m, f[4]))
  IN IF ~t.ok THEN Fail(m)
     ELSE Push(Done([m EXCEPT !.s = t.cur, !.str = Named(@, f[3], t.out)]), <<t.cur>>)

(* peg_choice reserves two cells and tries the alternatives in turn.        *)
PegChoice(m, p) ==
  Then(Push(m, <<"tag", "begin">>),
       <<Alternative(p, 1, m.s.pos, TracePos(m), TracePos(m) + 2), Parse(p.ps[1])>>)

(* The body runs on the named stream itself, so its position moves; the    *)
(* trace gets that stream as it was.                                       *)
PegApply_RecordsCurrent(m, p) ==        \* mutant: recorded before str_current is switched
  Then(Push([m EXCEPT !.s = Stream(m, p.str)], <<m.s>>), <<Leave(m.s, p.str), Parse(p.p)>>)
PegApply(m, p) ==
  Then(Push([m EXCEPT !.s = Stream(m, p.str)], <<Stream(m, p.str)>>), <<Leave(m.s, p.str), Parse(p.p)>>)
Leaves(m, f) == Done([m EXCEPT !.s = f.s, !.str = Named(@, f.str, m.s)])

PegInteger(m, p) == LET r == PegInt(m, p, p.set) IN IF r.ok THEN Done(r) ELSE r
PegParser(c, m, p) ==
  CASE p.op = "integer" -> PegInteger(m, p)
    [] p.op \in {"choice", "nunion"} -> PegChoice(m, p)
    [] p.op = "array" ->
         Then(Push(m, <<"many", "end">>), <<More(p, 1, TracePos(m))>> \o Element(p, 1))
    [] p.op = "length" ->
         Then(Push(m, <<"many", "end">>), <<Counted(p, 0, TracePos(m), Dependency(m, p.dep))>>)
    [] p.op = "optional" -> Then(Push(m, <<"optional">>), <<Maybe(p, TracePos(m)), Parse(p.p)>>)
    [] p.op = "apply" -> PegApply(m, p)
    [] p.op = "call" -> Then(m, <<Return(m.s), Parse(c.defs[p.def])>>)

(* What comes next: after a success of everything above f, that is.         *)
PegGoesOn(c, m, f) ==
  CASE Walks(f) -> Then(m, Walk(c, f))
    [] f.do = "parse" /\ ~Walks(f) -> PegParser(c, m, f.p)
    [] f.do = "dependency" -> PegDependency(m, f.f)
    [] f.do = "transform" -> PegTransform(m, f.f)
    [] f.do = "constant" -> [Then(m, <<Recorded(f.k)>>) EXCEPT !.match = <<Match(f.k)>>]
    [] f.do = "recorded" -> Push(Done(m), <<m.s.pos>>)
    [] f.do = "alternative" -> Done(SetCells(m, f.at, f.p.tags[f.i], f.from))
    [] f.do = "more" -> Then(m, <<More(f.p, f.i + 1, f.at)>> \o Element(f.p, f.i + 1))
    [] f.do = "counted" ->
         IF f.i < f.n THEN Then(m, <<Counted(f.p, f.i + 1, f.at, f.n)>> \o Element(f.p, f.i + 1))
         ELSE Done(SetCells(m, f.at, f.n, TracePos(m)))
    [] f.do = "maybe" -> Done(SetCell(m, f.at, -1))
    [] f.do = "leave" -> Leaves(m, f)
    [] f.do = "return" -> Done(m)

(* A failed alternative puts the current stream back and leaves its trace   *)
(* behind; the next one is tried.                                          *)
NextAlternative_KeepsPosition(m, f) ==      \* mutant: no reposition
  IF f.i = Len(f.p.ps) THEN Done(m)
  ELSE Then([m EXCEPT !.ok = TRUE],
            <<Alternative(f.p, f.i + 1, f.back, f.at, TracePos(m)), Parse(f.p.ps[f.i + 1])>>)
NextAlternative(m, f) ==
  LET r == [m EXCEPT !.s = Reposition(@, f.back)]
  IN IF f.i = Len(f.p.ps) THEN Done(r)
     ELSE Then([r EXCEPT !.ok = TRUE],
               <<Alternative(f.p, f.i + 1, f.back, f.at, TracePos(m)), Parse(f.p.ps[f.i + 1])>>)
(* After a failure.  A failed attempt at an element, a constant or an       *)
(* optional leaves the stream where it is; a function the offset was passed *)
(* to by value leaves its caller's where it was.                           *)
PegBacksOut(m, f) ==
  CASE f.do = "alternative" -> NextAlternative(m, f)
    [] f.do = "more" ->
         Done([SetCells(m, f.at, f.i - 1, TracePos(m)) EXCEPT !.ok = f.i - 1 >= f.p.min])
    [] f.do = "maybe" -> Done([SetCell(m, f.at, TracePos(m)) EXCEPT !.ok = TRUE])
    [] f.do = "leave" -> Leaves(m, f)
    [] f.do = "return" -> Done([m EXCEPT !.s = f.s])
    [] f.do \notin {"alternative", "more", "maybe", "leave", "return"} -> Done(m)

PegTurn(c, m) ==
  IF m.match # << >> THEN ConstTurn(m)
  ELSE IF m.ok THEN PegGoesOn(c, m, Top(m)) ELSE PegBacksOut(m, Top(m))

-----------------------------------------------------------------------------
(* Second pass.  Bind state: the stream s, the next trace cell ti, the      *)
(* values under construction, the innermost last, lost: the trace had not   *)
(* what was looked for, over: an integer was read past the end of a stream. *)
(* Integers are read unchecked; Junk is what lies past the end of the input.*)
Junk == -1
Cell(c, b) == c.tr[b.ti + 1]

Picked(p, i) == [do |-> "picked", p |-> p, i |-> i]
Elements(p, i, at) == [do |-> "elements", p |-> p, i |-> i, at |-> at]
Present(p) == [do |-> "present", p |-> p]
Back(s) == [do |-> "back", s |-> s]
Returned == [do |-> "returned"]

(* action_constparser: go to the recorded position.                        *)
BindConst_StaysPut(c, b) == [Done(b) EXCEPT !.ti = @ + 1]     \* mutant: no reposition
BindConst(c, b) == [Done(b) EXCEPT !.s = Reposition(@, Cell(c, b)), !.ti = @ + 1]

(* The switch: the alternative the first pass picked, from where it began.  *)
Chosen(c, b, p) == CHOOSE i \in DOMAIN p.tags : p.tags[i] = Cell(c, b)
BindChoice(c, b, p) ==
  [Then(b, <<Picked(p, Chosen(c, b, p)), Parse(p.ps[Chosen(c, b, p)])>>) EXCEPT !.ti = c.tr[b.ti + 2]]

(* count elements, then on at the cell recorded behind them.               *)
BindElements_NoSave(c, b, f) ==      \* mutant: tr is not moved past the failed attempt
  IF f.i < c.tr[f.at + 1] THEN Then(b, <<Elements(f.p, f.i + 1, f.at)>> \o Element(f.p, f.i + 1))
  ELSE Done(b)
BindElements(c, b, f) ==
  IF f.i < c.tr[f.at + 1] THEN Then(b, <<Elements(f.p, f.i + 1, f.at)>> \o Element(f.p, f.i + 1))
  ELSE [Done(b) EXCEPT !.ti = c.tr[f.at + 2]]

BindParser(c, b, p) ==
  CASE p.op = "integer" -> [Done(b) EXCEPT !.s = Forward(@, p.w)]
    [] p.op \in {"choice", "nunion"} -> BindChoice(c, b, p)
    [] p.op \in {"array", "length"} -> [Then(b, <<Elements(p, 0, b.ti)>>) EXCEPT !.ti = @ + 2]
    [] p.op = "optional" ->
         IF Cell(c, b) < 0 THEN [Then(b, <<Present(p), Parse(p.p)>>) EXCEPT !.ti = @ + 1]
         ELSE [Done(b) EXCEPT !.ti = Cell(c, b)]
    [] p.op = "apply" ->
         [Then(b, <<Back(b.s), Parse(p.p)>>) EXCEPT !.s = Cell(c, b), !.ti = @ + 1]
    [] p.op = "call" -> Then(b, <<Returned, Parse(c.defs[p.def])>>)

BindItem(c, b, f) ==
  CASE Walks(f) -> Then(b, Walk(c, f))
    [] f.do = "parse" /\ ~Walks(f) -> BindParser(c, b, f.p)
    [] f.do \in {"constant", "dependency"} -> BindConst(c, b)
    [] f.do = "transform" -> [Done(b) EXCEPT !.s = Cell(c, b), !.ti = @ + 1]
    [] f.do = "elements" -> BindElements(c, b, f)
    [] f.do = "back" -> [Done(b) EXCEPT !.s = f.s]
    [] f.do \in {"picked", "present", "returned"} -> Done(b)

(* The cells an item reads, and what must not happen when it does.          *)
Cells(f) ==
  CASE f.do \in {"constant", "dependency", "transform"} -> 1
    [] f.do = "parse" -> IF f.p.op \in {"choice", "nunion", "array", "length"} THEN 2
                         ELSE IF f.p.op \in {"optional", "apply"} THEN 1 ELSE 0
    [] f.do \notin {"constant", "dependency", "transform", "parse"} -> 0
Loses(c, b, f) ==
  \/ Cells(f) # 0 /\ b.ti + Cells(f) > Len(c.tr)
  \/ f.do = "elements" /\ f.at + 2 > Len(c.tr)
  \/ f.do = "parse" /\ f.p.op \in {"choice", "nunion"} /\ \A i \in DOMAIN f.p.tags : f.p.tags[i] # Cell(c, b)
ReadsOver(b, f) == f.do = "parse" /\ f.p.op = "integer" /\ Past(b.s, f.p.w)

(* The values.  A structure or a repetition gathers its elements' values;   *)
(* an element's is the last one when its turn is over.                      *)
Open(vals) == Append(vals, << >>)
LastOf(vals) == vals[Len(vals)]
Gather(vals) ==
  LET n == Len(vals) IN Append(SubSeq(vals, 1, n - 2), Append(vals[n - 1], vals[n]))
Wrapped(vals, v) == [vals EXCEPT ![Len(vals)] = v]
ParserValue(c, b, p) ==
  CASE p.op = "integer" -> Append(b.vals, IF Outside(b.s, p.w) THEN Junk ELSE IntegerAt(b.s, p))
    [] p.op \in {"structure", "array", "length", "fixedarray"} -> Open(b.vals)
    [] p.op = "optional" -> IF Cell(c, b) < 0 THEN b.vals ELSE Open(b.vals)
    [] p.op \in {"choice", "nunion", "wrap", "apply", "name", "ref", "call"} -> b.vals
BindValue(c, b, f) ==
  CASE f.do = "parse" -> ParserValue(c, b, f.p)
    [] f.do = "fields" /\ f.i > 1 ->
         IF f.fs[f.i - 1][1] = "field" THEN Gather(b.vals) ELSE b.vals
    [] f.do = "times" /\ f.i > 1 -> Gather(b.vals)
    [] f.do = "elements" /\ f.i > 0 -> Gather(b.vals)
    [] f.do = "picked" /\ f.p.op = "choice" -> Wrapped(b.vals, <<f.p.tags[f.i], LastOf(b.vals)>>)
    [] f.do = "present" -> Wrapped(b.vals, <<LastOf(b.vals)>>)
    [] OTHER -> b.vals

BindTurn(c, b) ==
  LET f == Top(b)
  IN [BindItem(c, b, f) EXCEPT !.vals = BindValue(c, b, f), !.lost = @ \/ Loses(c, b, f),
                               !.over = @ \/ ReadsOver(b, f)]

-----------------------------------------------------------------------------
(* A pass, in rounds of bursts of turns.                                   *)
Turn(c, m) == IF c.pass = "peg" THEN PegTurn(c, m) ELSE BindTurn(c, m)
Repeat(F(_), m) ==
  LET after[n \in 0..Turns] ==
        IF n = 0 THEN m ELSE LET r == after[n - 1] IN IF r.todo = << >> THEN r ELSE F(r)
  IN after[Turns]
Burst(c, m) == Repeat(LAMBDA r : Turn(c, r), m)
Round(c, m) == Repeat(LAMBDA r : Burst(c, r), m)
Run(c, m) == Repeat(LAMBDA r : Round(c, r), m)
Ended(m) == m.todo = << >>

(* parse_X: the first pass on a fresh stream; all its bytes must be read,  *)
(* then the second pass goes over it again.                                *)
PegStart(p, input) ==
  [ok |-> TRUE, over |-> 0, s |-> WholeInput(input), str |-> << >>, dep |-> << >>,
   tr |-> << >>, match |-> << >>, todo |-> <<Parse(p)>>]
PegAll(defs, p, input) == Run([pass |-> "peg", defs |-> defs, tr |-> << >>], PegStart(p, input))
Recognised(r) == Ended(r) /\ r.ok /\ BytesOf(r.s.pos) = BytesOf(r.s.size)
BindStart(p, input) ==
  [s |-> WholeInput(input), ti |-> 0, vals |-> << >>, lost |-> FALSE, over |-> FALSE,
   todo |-> <<Parse(p)>>]
BindAll(defs, p, input, tr) ==
  Run([pass |-> "bind", defs |-> defs, tr |-> tr], BindStart(p, input))
Built(b) == b.vals[1]
=============================================================================
