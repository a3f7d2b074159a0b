------------------------------ MODULE Grammar ------------------------------
(***************************************************************************)
(* Nail grammars as data (generator/new_grammar.nail), the streams parsers  *)
(* read and the transforms that cut streams.  What a grammar means is in    *)
(* Meaning.tla.                                                             *)
(*                                                                         *)
(* An input is symbols, PerByte of them a byte: the bits of a byte are not  *)
(* told apart further than that (InStream.tla does).  An integer is w       *)
(* symbols, the highest first.  What the C parser checks is whole bytes;    *)
(* in the grammars of the one-pass parsers only, which check every bit, one *)
(* symbol also stands for an integer wider than a byte.  A node's op is the *)
(* name of its alternative of parserinner in lower case.                    *)
(***************************************************************************)
EXTENDS Integers, Sequences, SequencesExt, TLC

CONSTANT PerByte
ASSUME PerByteAssumption == PerByte \in Nat \ {0}

-----------------------------------------------------------------------------
(* Constant parsers: they match and leave nothing in the result.  Of an     *)
(* integer w symbols wide, radix is the number of symbols there are.        *)
WideLit(w, radix, syms) == [op |-> "carray", w |-> w, radix |-> radix, syms |-> syms]
Lit(syms) == WideLit(1, 1, syms)                        \* CARRAY, or CINT when one long
CLittle(sym) == [op |-> "clittle", sym |-> sym]         \* behind !LITTLE-ENDIAN
CMany(k) == [op |-> "crepeat", k |-> k]
CUnion(ks) == [op |-> "cunion", ks |-> ks]
CStruct(ks) == [op |-> "cstruct", ks |-> ks]

(* Parsers.  The fields of a structure are <<kind, ...>> tuples.           *)
Wide(w, radix, set) == [op |-> "integer", w |-> w, radix |-> radix, set |-> set]
Num(set) == Wide(1, 1, set)
Symbol == Num({})                               \* where only the width matters
Little == [op |-> "little"]                     \* an integer behind !LITTLE-ENDIAN
Struct(fields) == [op |-> "structure", fields |-> fields]
Wrap(before, p, after) == [op |-> "wrap", before |-> before, p |-> p, after |-> after]
Choice(tags, ps) == [op |-> "choice", tags |-> tags, ps |-> ps]
Many(p) == [op |-> "array", p |-> p, min |-> 0, sep |-> << >>]
Many1(p) == [op |-> "array", p |-> p, min |-> 1, sep |-> << >>]
SepBy(k, p) == [op |-> "array", p |-> p, min |-> 0, sep |-> <<k>>]
SepBy1(k, p) == [op |-> "array", p |-> p, min |-> 1, sep |-> <<k>>]
Fixed(n, p) == [op |-> "fixedarray", n |-> n, p |-> p]
NOf(dep, p) == [op |-> "length", dep |-> dep, p |-> p]
Apply(str, p) == [op |-> "apply", str |-> str, p |-> p]
Optional(p) == [op |-> "optional", p |-> p]
Select(dep, tags, syms, ps) ==
  [op |-> "selectp", dep |-> dep, tags |-> tags, syms |-> syms, ps |-> ps]
Union(ps) == [op |-> "nunion", tags |-> [i \in DOMAIN ps |-> i], ps |-> ps]
Name(def) == [op |-> "name", def |-> def]
Ref(def) == [op |-> "ref", def |-> def]
Call(def) == [op |-> "call", def |-> def]       \* a name, the offset passed by value
Invoke(def, formal, actual) ==                  \* a name with a dependency for parameter
  [op |-> "invoke", def |-> def, formal |-> formal, actual |-> actual]
Entry(p) == [op |-> "entry", p |-> p]           \* parse_X, of a one-pass parser

Const(k) == <<"constant", k>>
Field(p) == <<"field", p>>
Dep(name, p) == <<"dependency", name, p>>
Trans(fn, left, dep) == <<"transform", fn, left, dep>>  \* always of $current

-----------------------------------------------------------------------------
(* A stream is a window on some data: size symbols from base on, read up   *)
(* to pos.                                                                 *)
WholeInput(input) == [data |-> input, base |-> 0, size |-> Len(input), pos |-> 0]
Past(s, w) == s.pos + w > s.size                    \* w symbols reach over the end
Outside(s, w) == s.base + s.pos + w > Len(s.data)   \* of the memory the input is in
SymbolAt(s) == s.data[s.base + s.pos + 1]
(* The integer that p, an integer or a constant of them, reads next.        *)
IntegerAt(s, p) ==
  IF p.w = 1 THEN SymbolAt(s)
  ELSE FoldLeft(LAMBDA a, x : a * p.radix + x, 0,
                SubSeq(s.data, s.base + s.pos + 1, s.base + s.pos + p.w))
Swapped(n) == (n % 256) * 256 + n \div 256       \* of two bytes, the other way round
Forward(s, n) == [s EXCEPT !.pos = @ + n]
Reposition(s, p) == [s EXCEPT !.pos = p]
AtEnd(s) == s.pos >= s.size
BytesOf(n) == n \div PerByte                     \* the whole bytes in n symbols
Aligned(s) == s.pos % PerByte = 0                \* bit_offset = 0

WithVal(e, v) == [e EXCEPT !.val = v]           \* the value of what was just parsed
(* Run F over the elements of seq for as long as it succeeds.              *)
Chained(F(_, _), seq, e) == FoldLeft(LAMBDA a, x : IF a.ok THEN F(a, x) ELSE a, e, seq)

NoCut == [ok |-> FALSE]
Cut(out, cur) == [ok |-> TRUE, out |-> out, cur |-> cur]

(* The parse half of the transforms that cut a stream in two; n is the     *)
(* dependency, in bytes.  The library's cut where a byte begins only; size *)
(* moves the current stream past the fragment, zip's size_u32 leaves it     *)
(* where it was and the fragment at the same bit of its first byte.  zip's  *)
(* offset_u32 and the library's offset cut alike.                           *)
size_u32_parse(s, n) ==
  IF BytesOf(s.pos) + n > BytesOf(s.size) THEN NoCut
  ELSE Cut([s EXCEPT !.base = @ + BytesOf(s.pos) * PerByte, !.size = n * PerByte,
                     !.pos = @ % PerByte], s)
size_parse(s, n) ==
  IF ~Aligned(s) \/ n * PerByte > s.size - s.pos THEN NoCut
  ELSE Cut([s EXCEPT !.base = @ + s.pos, !.size = n * PerByte, !.pos = 0], Forward(s, n * PerByte))
offset_parse(s, n) ==
  IF n * PerByte > s.size THEN NoCut
  ELSE Cut([s EXCEPT !.base = @ + n * PerByte, !.size = @ - n * PerByte, !.pos = 0], s)
tail_parse(s) ==
  IF ~Aligned(s) THEN NoCut
  ELSE Cut([s EXCEPT !.base = @ + s.pos, !.size = @ - s.pos, !.pos = 0], Reposition(s, s.size))
(* n counts from the start of the stream; what is left of it is computed   *)
(* in size_t, and 2^16 stands for one more than a size_t holds.            *)
total_size_parse(s, n) ==
  IF ~Aligned(s) \/ n * PerByte > s.size THEN NoCut
  ELSE Cut([s EXCEPT !.base = @ + s.pos, !.size = (n * PerByte - s.pos) % 2^16, !.pos = 0],
           Reposition(s, n * PerByte))

(* dns: from p on, the labels behind one another and the positions of the   *)
(* pointers on the way; a position and a length count symbols, PerByte      *)
(* being 1 where there is a name.  The size counts a byte for each pointer, *)
(* which the copy leaves as it is.                                          *)
NoName == [ok |-> FALSE]
NameFrom(s) ==
  LET from[p \in Nat, labels \in Seq(Int), jumps \in Seq(Nat)] ==
        LET b == s.data[s.base + p + 1]
        IN IF p >= s.size THEN NoName
           ELSE IF b = 0
             THEN [ok |-> TRUE, labels |-> Append(labels, 0), jumps |-> jumps, last |-> p]
           ELSE IF p + 1 + (IF b < 192 THEN b ELSE 0) >= s.size THEN NoName
           ELSE IF b < 192
             THEN from[p + 1 + b, labels \o SubSeq(s.data, s.base + p + 1, s.base + p + 1 + b), jumps]
           ELSE from[s.data[s.base + p + 2], labels, Append(jumps, p)]
  IN from[s.pos, << >>, << >>]
Unset == -1                                     \* a byte nobody wrote
dnscompress_parse(s) ==
  LET n == NameFrom(s)
      out == n.labels \o [i \in DOMAIN n.jumps |-> Unset]
  IN IF ~n.ok THEN NoCut
     ELSE Cut(WholeInput(out),
              Reposition(s, IF n.jumps = << >> THEN n.last + 1 ELSE n.jumps[1] + 2))

Transform(fn, s, n) ==
  CASE fn = "size_u32" -> size_u32_parse(s, n)
    [] fn = "size" -> size_parse(s, n)
    [] fn \in {"offset", "offset_u32"} -> offset_parse(s, n)
    [] fn = "total_size" -> total_size_parse(s, n)
    [] fn = "tail" -> tail_parse(s)
    [] fn = "dnscompress" -> dnscompress_parse(s)
=============================================================================
