----------------------------- MODULE OutStream -----------------------------
(***************************************************************************)
(* NailOutStream (generator/parser_template.cc) as generated code drives it *)
(* (generator/mk_gen.cc): fields are written one after the other, a         *)
(* dependency gets a placeholder that is written over when its value is     *)
(* known, a transform appends a fragment, and the buffer grows as needed.   *)
(* Any realloc may fail.  A turn of the writing loop is a step.             *)
(***************************************************************************)
EXTENDS Bits, Sequences

CONSTANTS GROW,             \* bytes a stream grows by, 4096
          InitSize,         \* bytes it starts with
          Widths, Values,   \* of the integers written: bits, and sets of bits
          Fragments,        \* bytes a transform appends
          GrowsByBytes,     \* the transform hands grow a number of bytes (size.hh, offset.hh)
          MaxBits           \* bound: nothing is begun behind so many bits

ASSUME OutStreamAssumption ==
  /\ {BYTE, GROW, InitSize, MaxBits} \subseteq Nat \ {0}
  /\ Widths \subseteq Nat \ {0} /\ Fragments \subseteq Nat \ {0}
  /\ \A w \in Widths : w \div BYTE < GROW
  /\ GrowsByBytes \in BOOLEAN

VARIABLES data,         \* the buffer: 0..size-1 -> a byte, or Null
          size, pos, bit,
          task,         \* what runs: "none", "write", "fixup", "append",
          left, value,  \* the bits it has still to write, of this value,
          home,         \* and where a fix-up comes back to
          deps,         \* the dependencies that have a place: [at, w]
          fields,       \* ghost: what the output is to hold, [at, w, val]
          end,          \* ghost: bits of output so far
          lost,         \* ghost: a realloc has failed
          status        \* "ok", "failed" (gen returned -1), "overrun" (a byte behind the
                        \* block was written), "null" (written to without a block)

ghosts == <<deps, fields, end>>
vars == <<data, size, pos, bit, task, left, value, home, ghosts, lost, status>>

Null == << >>
Here == pos * BYTE + bit

-----------------------------------------------------------------------------
(* NailOutStream_grow(count) of a stream at byte p, count in bits.         *)
Fits_NoSpare(p, count) == p + (count \div BYTE) <= size       \* mutant
Fits(p, count) == p + (count \div BYTE) + 1 < size
Needed(p, count) ==
  LET least == p + (count \div BYTE) + 1
  IN IF GROW + size > least THEN GROW + size ELSE least

(* The block realloc gives: what was there, then junk, all 0 or all 1 bits. *)
grow_ok(p, count) ==
  /\ IF Fits(p, count) THEN UNCHANGED <<data, size>>
     ELSE /\ size' = Needed(p, count)
          /\ \E junk \in {{}, 0..(BYTE - 1)} :
               data' = [i \in 0..(size' - 1) |-> IF i \in DOMAIN data THEN data[i] ELSE junk]
  /\ UNCHANGED <<lost, status>>

(* No block: data is overwritten with the null pointer, the old block lost. *)
(* A caller that does not look at the result goes on.                      *)
grow_fails(p, count, checked) ==
  /\ ~Fits(p, count)
  /\ size' = Needed(p, count) /\ data' = Null /\ lost' = TRUE
  /\ status' = IF checked THEN "failed" ELSE status

NailOutStream_write(p, val, w, checked) ==
  /\ \/ grow_ok(p, w) /\ left' = w
     \/ grow_fails(p, w, checked) /\ left' = 0
  /\ value' = val

NailOutStream_reposition(p) == pos' = p \div BYTE /\ bit' = p % BYTE

-----------------------------------------------------------------------------
Init ==     \* NailOutStream_init
  /\ size = InitSize /\ pos = 0 /\ bit = 0
  /\ \E junk \in {{}, 0..(BYTE - 1)} : data = [i \in 0..(InitSize - 1) |-> junk]
  /\ task = "none" /\ left = 0 /\ value = {} /\ home = 0
  /\ deps = {} /\ fields = {} /\ end = 0 /\ lost = FALSE /\ status = "ok"

Going == status = "ok" /\ task = "none" /\ end <= MaxBits

(* An integer, a constant.                                                 *)
GenInteger(w, val) ==
  /\ Going
  /\ NailOutStream_write(pos, val, w, TRUE)
  /\ task' = "write"
  /\ fields' = fields \cup {[at |-> Here, w |-> w, val |-> val]}
  /\ end' = end + w
  /\ UNCHANGED <<pos, bit, home, deps>>

(* A dependency: its place is kept and filled with 0.                      *)
GenDependency(w) ==
  /\ Going
  /\ NailOutStream_write(pos, {}, w, FALSE)
  /\ task' = "write"
  /\ deps' = deps \cup {[at |-> Here, w |-> w]}
  /\ end' = end + w
  /\ UNCHANGED <<pos, bit, home, fields>>

(* Behind a transform and at the end of the structure: go to the place and  *)
(* write the value, then come back.                                        *)
FixUp(d, val) ==
  /\ Going
  /\ home' = Here /\ NailOutStream_reposition(d.at)
  /\ NailOutStream_write(d.at \div BYTE, val, d.w, FALSE)
  /\ task' = "fixup"
  /\ fields' = {f \in fields : f.at # d.at} \cup {[at |-> d.at, w |-> d.w, val |-> val]}
  /\ UNCHANGED <<deps, end>>

(* size_generate and its kin: grow, refuse a stream inside a byte, copy.   *)
Append_generate(n) ==
  /\ Going
  /\ LET count == IF GrowsByBytes THEN n ELSE BYTE * n
     IN \/ grow_ok(pos, count) /\ left' = BYTE * n
        \/ grow_fails(pos, count, TRUE) /\ left' = 0
  /\ task' = "append"
  /\ fields' = fields \cup {[at |-> Here + BYTE * i, w |-> BYTE, val |-> {0}] : i \in 0..(n - 1)}
  /\ end' = end + BYTE * n
  /\ UNCHANGED <<pos, bit, value, home, deps>>

-----------------------------------------------------------------------------
(* The loop of NailOutStream_write over the bits still to write, the most  *)
(* significant first: a byte when aligned, else set or clear one bit.      *)
Writing == status = "ok" /\ task \in {"write", "fixup"} /\ left > 0
Aligned == bit = 0 /\ left % BYTE = 0

PutByte ==
  /\ Writing /\ Aligned /\ pos \in DOMAIN data
  /\ data' = [data EXCEPT ![pos] = {k \in 0..(BYTE - 1) : k + left - BYTE \in value}]
  /\ pos' = pos + 1 /\ left' = left - BYTE
  /\ UNCHANGED <<size, bit, task, value, home, ghosts, lost, status>>

Put_NeverClears(byte, n, one) == IF one THEN byte \cup {n} ELSE byte        \* mutant
Put(byte, n, one) == IF one THEN byte \cup {n} ELSE byte \ {n}
PutBit ==
  /\ Writing /\ ~Aligned /\ pos \in DOMAIN data
  /\ data' = [data EXCEPT ![pos] = Put(@, BYTE - 1 - bit, left - 1 \in value)]
  /\ IF bit + 1 > BYTE - 1 THEN pos' = pos + 1 /\ bit' = 0 ELSE pos' = pos /\ bit' = bit + 1
  /\ left' = left - 1
  /\ UNCHANGED <<size, task, value, home, ghosts, lost, status>>

Copying == status = "ok" /\ task = "append"
Bytes == pos..(pos + left \div BYTE - 1)
Copy ==
  /\ Copying /\ bit = 0 /\ Bytes \subseteq DOMAIN data
  /\ data' = [i \in DOMAIN data |-> IF i \in Bytes THEN {0} ELSE data[i]]
  /\ pos' = pos + left \div BYTE /\ left' = 0 /\ task' = "none"
  /\ UNCHANGED <<size, bit, value, home, ghosts, lost, status>>
CopyRefused ==
  /\ Copying /\ bit # 0
  /\ status' = "failed"
  /\ UNCHANGED <<data, size, pos, bit, task, left, value, home, ghosts, lost>>

(* A byte that is not in the block is written.                             *)
WriteOutside ==
  /\ \/ Writing /\ pos \notin DOMAIN data
     \/ Copying /\ bit = 0 /\ ~(Bytes \subseteq DOMAIN data)
  /\ status' = IF data = Null THEN "null" ELSE "overrun"
  /\ UNCHANGED <<data, size, pos, bit, task, left, value, home, ghosts, lost>>

Ended(what) == status = "ok" /\ task = what /\ left = 0
Written ==
  /\ Ended("write")
  /\ task' = "none"
  /\ UNCHANGED <<data, size, pos, bit, left, value, home, ghosts, lost, status>>
ComesBack_NoReposition ==       \* mutant
  /\ Ended("fixup")
  /\ task' = "none"
  /\ UNCHANGED <<data, size, pos, bit, left, value, home, ghosts, lost, status>>
ComesBack ==
  /\ Ended("fixup")
  /\ NailOutStream_reposition(home)
  /\ task' = "none"
  /\ UNCHANGED <<data, size, left, value, home, ghosts, lost, status>>

Next ==
  \/ \E w \in Widths : GenDependency(w)
  \/ \E w \in Widths, val \in Values : GenInteger(w, val \cap 0..(w - 1))
  \/ \E d \in deps, val \in Values : FixUp(d, val \cap 0..(d.w - 1))
  \/ \E n \in Fragments : Append_generate(n)
  \/ PutByte \/ PutBit \/ Copy \/ CopyRefused \/ WriteOutside
  \/ Written \/ ComesBack
Spec == Init /\ [][Next]_vars

-----------------------------------------------------------------------------
Intact == status = "ok" /\ task = "none" /\ ~lost

(* grow made room for everything that is written after it, the last bits   *)
(* of a field that straddles one more byte included.                       *)
StaysInBlock == status # "overrun"

(* Parsing the output finds every field the generator was asked for:       *)
(* growing, filling in a dependency and the fields around it leave it      *)
(* alone.  (The generator writes big endian whatever the grammar says.)    *)
RoundTrip ==
  Intact => \A f \in fields : FieldOf(LAMBDA i : data[i], FALSE, f.at, f.w) = f.val

(* Filling in a dependency never moves the end of the output.              *)
EndIsKept == Intact => Here = end
=============================================================================
