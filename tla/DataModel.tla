----------------------------- MODULE DataModel -----------------------------
(***************************************************************************)
(* The header emitter (generator/datatype.cc, typedef_type of util.cc): the *)
(* C types of a grammar's trees, and when a tree is of such a type.  What   *)
(* tells one integer type from another, and the names of fields, are left   *)
(* out; a field is known by its place.                                      *)
(***************************************************************************)
EXTENDS Grammar

(* C types.  Both pointers are a T*; only an optional's may be NULL.        *)
Integer == [kind |-> "integer"]
Array(t) == [kind |-> "array", of |-> t]                \* struct {T *elem; size_t count;}
Times(n, t) == [kind |-> "times", n |-> n, of |-> t]    \* T [n]
Members(ts) == [kind |-> "struct", of |-> ts]
Tagged(tags, ts) == [kind |-> "union", tags |-> tags, of |-> ts]
Maybe(t) == [kind |-> "maybe", of |-> t]
Pointer(def) == [kind |-> "pointer", to |-> def]
Typedef(def) == [kind |-> "typedef", of |-> def]        \* a name, defined by a typedef
StructOf(def) == [kind |-> "struct tag", of |-> def]    \* struct name, wherever it is defined
NoType == [kind |-> "none"]

-----------------------------------------------------------------------------
FieldsOf(p, kinds) ==
  LET kept == SelectSeq(p.fields, LAMBDA f : f[1] \in kinds)
  IN [i \in DOMAIN kept |-> Last(kept[i])]
NamedFields_Dependencies(p) == FieldsOf(p, {"field", "dependency"})     \* mutant
NamedFields(p) == FieldsOf(p, {"field"})

(* emit_type: what is written where a field or an element has parser p.     *)
(* A nunion has the type of its first member; the others are not looked at. *)
RECURSIVE emit_type(_)
emit_type(p) ==
  CASE p.op \in {"integer", "little"} -> Integer
    [] p.op = "structure" ->
         LET named == NamedFields(p) IN Members([i \in DOMAIN named |-> emit_type(named[i])])
    [] p.op \in {"wrap", "apply"} -> emit_type(p.p)
    [] p.op \in {"choice", "selectp"} -> Tagged(p.tags, [i \in DOMAIN p.ps |-> emit_type(p.ps[i])])
    [] p.op \in {"array", "length"} -> Array(emit_type(p.p))
    [] p.op = "fixedarray" -> Times(p.n, emit_type(p.p))
    [] p.op = "optional" -> Maybe(emit_type(p.p))
    [] p.op = "nunion" -> emit_type(p.ps[1])
    [] p.op = "ref" -> Pointer(p.def)
    [] p.op \in {"name", "call", "invoke"} -> Typedef(p.def)

(* typedef_type: what the rule's name stands for.                          *)
RECURSIVE typedef_type(_, _)
typedef_type(p, name) ==
  CASE p.op \in {"integer", "little"} -> Integer
    [] p.op \in {"wrap", "apply"} -> typedef_type(p.p, name)
    [] p.op = "optional" -> Maybe(typedef_type(p.p, name))
    [] p.op \in {"name", "call", "invoke"} -> Typedef(p.def)
    [] p.op = "ref" -> Pointer(p.def)
    [] p.op = "fixedarray" -> Times(p.n, typedef_type(p.p, name))
    [] p.op = "nunion" -> typedef_type(p.ps[1], name)
    [] p.op \in {"structure", "array", "choice", "selectp"} -> StructOf(name)

(* The rules whose struct is defined: one behind an optional, a union, an   *)
(* apply or an array of fixed size is not.                                  *)
RECURSIVE emit_type_definition(_)
emit_type_definition(p) ==
  CASE p.op \in {"structure", "array", "choice", "selectp"} -> emit_type(p)
    [] p.op = "wrap" -> emit_type_definition(p.p)
    [] OTHER -> NoType

(* The tags met while a type is emitted: those of a choice, then those of   *)
(* its alternatives.                                                       *)
RECURSIVE tags_of(_)
tags_of(p) ==
  LET below(ps) == FlattenSeq([i \in DOMAIN ps |-> tags_of(ps[i])])
  IN CASE p.op \in {"choice", "selectp"} -> p.tags \o below(p.ps)
       [] p.op = "structure" -> below(NamedFields(p))
       [] p.op \in {"wrap", "apply", "array", "length", "fixedarray", "optional"} -> tags_of(p.p)
       [] p.op = "nunion" -> tags_of(p.ps[1])
       [] OTHER -> << >>

(* emit_parser: the rules in order.  A tag goes to the front of the list.   *)
emit_parser(order, rules) ==
  LET body(r) == emit_type_definition(rules[r])
      bodied == SelectSeq(order, LAMBDA r : body(r) # NoType)
      tags == FlattenSeq([i \in DOMAIN bodied |-> tags_of(rules[bodied[i]])])
  IN [typedefs |-> [i \in DOMAIN order |-> typedef_type(rules[order[i]], order[i])],
      N_types |-> Reverse(tags),
      structs |-> [i \in DOMAIN bodied |-> <<bodied[i], body(bodied[i])>>]]

-----------------------------------------------------------------------------
(* A header read: its names in order, what they stand for, the tags of its  *)
(* enum, its structs in order.                                             *)
Header(order, typedefs, tags, structs) ==
  [order |-> order, typedefs |-> typedefs, N_types |-> tags, structs |-> structs]
BodyOf(h, def) == h.structs[CHOOSE i \in DOMAIN h.structs : h.structs[i][1] = def][2]
TypeOf(h, def) == h.typedefs[CHOOSE i \in DOMAIN h.order : h.order[i] = def]

(* A tree is of type t of header h.                                         *)
RECURSIVE Fits(_, _, _)
Fits(h, t, v) ==
  CASE t.kind = "integer" -> TRUE
    [] t.kind = "array" -> \A i \in DOMAIN v : Fits(h, t.of, v[i])
    [] t.kind = "times" -> Len(v) = t.n /\ \A i \in DOMAIN v : Fits(h, t.of, v[i])
    [] t.kind = "struct" ->
         Len(v) = Len(t.of) /\ \A i \in DOMAIN v : Fits(h, t.of[i], v[i])
    [] t.kind = "union" ->
         /\ v[1] \in Range(h.N_types)
         /\ \E i \in DOMAIN t.tags : t.tags[i] = v[1] /\ Fits(h, t.of[i], v[2])
    [] t.kind = "maybe" -> Len(v) <= 1 /\ \A i \in DOMAIN v : Fits(h, t.of, v[i])
    [] t.kind = "pointer" -> Fits(h, TypeOf(h, t.to), v)
    [] t.kind = "typedef" -> Fits(h, TypeOf(h, t.of), v)
    [] t.kind = "struct tag" -> Fits(h, BodyOf(h, t.of), v)

(* What a C compiler asks of a header: a type is complete where it is held  *)
(* by value, a struct is defined once, a tag is one constant.               *)
RECURSIVE Complete(_, _, _)
Complete(h, known, t) ==
  CASE t.kind \in {"integer", "pointer"} -> TRUE
    [] t.kind \in {"array", "maybe"} -> t.of.kind = "typedef" \/ Complete(h, known, t.of)
    [] t.kind = "times" -> Complete(h, known, t.of)
    [] t.kind \in {"struct", "union"} -> \A i \in DOMAIN t.of : Complete(h, known, t.of[i])
    [] t.kind = "typedef" -> Complete(h, known, TypeOf(h, t.of))
    [] t.kind = "struct tag" -> t.of \in known
Compiles(h) ==
  LET tags == <<"_NAIL_NULL">> \o h.N_types
      before(i) == {h.structs[j][1] : j \in 1..(i - 1)}
  IN /\ \A i, j \in DOMAIN tags : tags[i] = tags[j] => i = j
     /\ \A i \in DOMAIN h.structs : Complete(h, before(i), h.structs[i][2])
     /\ \A i \in DOMAIN h.typedefs :
          h.typedefs[i].kind = "struct tag" => \E j \in DOMAIN h.structs : h.structs[j][1] = h.typedefs[i].of
=============================================================================
