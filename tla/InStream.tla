------------------------------ MODULE InStream -----------------------------
(***************************************************************************)
(* The streams parsers read integers of any width from: NailStream and its *)
(* functions (generator/parser_template.c) in the C back end, NailMemStream *)
(* (include/nail/memstream.hh) in the C++ one.                              *)
(*                                                                         *)
(* A turn of a reading loop is a step; the loops keep a position of their   *)
(* own and store it when they end.                                         *)
(*                                                                         *)
(* The widths of the machine are constants: a byte of 8, an int of 32, a   *)
(* uint64_t of 64 and a size_t of 64 bits scale down together.             *)
(***************************************************************************)
EXTENDS Bits, Sequences

CONSTANTS INT, LONG, SIZE,          \* bits of an int, a uint64_t, a size_t
          Readers,                  \* [class, little, widths]: the stream a back end uses, the
                                    \* byte order of its grammar, the widths of its integers
          Inputs,                   \* the byte strings to read
          Beyond                    \* bound: reads start at most so many bytes past the end

ASSUME MachineAssumption ==
  /\ {BYTE, INT, LONG, SIZE, 2^SIZE} \subseteq Nat \ {0}
  /\ BYTE < INT /\ INT < LONG
  /\ Inputs \subseteq Seq(SUBSET (0..(BYTE - 1)))
  /\ Readers \subseteq [class : {"NailStream", "NailMemStream"}, little : BOOLEAN,
                        widths : SUBSET (1..LONG)]
  /\ Beyond \in Nat

VARIABLES reader,       \* who reads
          data,         \* the bytes, byte p of the stream is data[p + 1]
          pos, bit,     \* pos and bit_offset
          back,         \* what getpos returned, kept for backtracking
          want, done,   \* the function that reads an integer: its width (0: nobody reads),
          retval,       \* the bits placed, the value,
          rpos, rbit,   \* the position it keeps, and
          over,         \* whether it has used a byte past the end
          last          \* the operation done last

stream == <<reader, data, pos, bit>>
locals == <<want, done, retval, rpos, rbit, over>>
vars == <<stream, locals, back, last>>

InC == reader.class = "NailStream"
LittleEndian == reader.little

size == Len(data)
Here == pos * BYTE + bit                    \* the position, counted in bits

-----------------------------------------------------------------------------
(* C: size, less the whole bytes of the field, in size_t.  What it adds for *)
(* the bits left over is masked before it is shifted, and so always 0.     *)
stream_check(w) ==
  (size - w \div BYTE - ((bit + w) % BYTE) \div BYTE) % 2^SIZE >= pos
(* C++: in bits.                                                           *)
check_OffByOne(w) == pos * BYTE + bit + w <= size * BYTE + 1           \* mutant
check(w) == pos * BYTE + bit + w <= size * BYTE
WithinBound == pos <= size + Beyond
Checks(w) == IF InC THEN stream_check(w) ELSE check(w)

(* data[pos] << k.  C++ widens the byte to uint64_t first; C shifts an int, *)
(* by k modulo its width (the language leaves k >= INT undefined, the      *)
(* shift instruction masks it), and extends its sign to uint64_t.          *)
Shifted(byte, k) ==
  IF ~InC THEN {i + k : i \in byte} \cap 0..(LONG - 1)
  ELSE LET int == {i + (k % INT) : i \in byte} \cap 0..(INT - 1)
       IN IF INT - 1 \in int THEN int \cup INT..(LONG - 1) ELSE int
Over(p) == p >= size
ByteAt(p) == IF Over(p) THEN {} ELSE data[p + 1]

Idle == want = 0
Left == want - done
Aligned_AnyBit == Left % BYTE = 0       \* mutant: bit_offset is not looked at
Aligned == rbit = 0 /\ Left % BYTE = 0

stream_advance(w) ==
  LET b == bit + (w % BYTE)
  IN IF b > BYTE - 1 THEN [pos |-> pos + w \div BYTE + 1, bit |-> b - BYTE]
     ELSE [pos |-> pos + w \div BYTE, bit |-> b]

stream_backup_NoBorrow(p, b, w) == [pos |-> p - w \div BYTE, bit |-> b - (w % BYTE)]   \* mutant
stream_backup(p, b, w) ==
  LET less == b - (w % BYTE)
  IN IF less < 0 THEN [pos |-> p - w \div BYTE - 1, bit |-> less + BYTE]
     ELSE [pos |-> p - w \div BYTE, bit |-> less]

(* C keeps a position in one size_t, C++ in a structure.                   *)
stream_getpos == IF InC THEN (pos * BYTE + bit) % 2^SIZE ELSE <<pos, bit>>
stream_reposition_BytesOnly(p) ==       \* mutant
  [pos |-> IF InC THEN p \div BYTE ELSE p[1], bit |-> 0]
stream_reposition(p) ==
  IF InC THEN [pos |-> p \div BYTE, bit |-> p % BYTE]
  ELSE [pos |-> p[1], bit |-> p[2]]

-----------------------------------------------------------------------------
Nothing == [op |-> "none"]
Init ==
  /\ reader \in Readers /\ data \in Inputs
  /\ pos = 0 /\ bit = 0
  /\ back = [p |-> stream_getpos, at |-> 0]
  /\ want = 0 /\ done = 0 /\ retval = {} /\ rpos = 0 /\ rbit = 0 /\ over = FALSE
  /\ last = Nothing

(* An integer whose check fails.                                           *)
CheckFails(w) ==
  /\ Idle /\ ~Checks(w)
  /\ last' = Nothing
  /\ UNCHANGED <<stream, locals, back>>

read_unsigned_bits(w) ==
  /\ Idle /\ WithinBound /\ Checks(w)
  /\ want' = w /\ done' = 0 /\ retval' = {} /\ rpos' = pos /\ rbit' = bit /\ over' = FALSE
  /\ last' = Nothing
  /\ UNCHANGED <<stream, back>>

(* A turn of the loop takes a whole byte when aligned with a multiple of a  *)
(* byte to go, else one bit.                                               *)
Place(bits, n) ==
  /\ retval' = retval \cup Shifted(bits, IF LittleEndian THEN done ELSE Left - n)
  /\ done' = done + n
  /\ over' = (over \/ Over(rpos))

ReadByte ==
  /\ done < want /\ Aligned
  /\ Place(ByteAt(rpos), BYTE)
  /\ rpos' = rpos + 1
  /\ UNCHANGED <<stream, want, rbit, back, last>>

OneBit == LET which == IF LittleEndian THEN rbit ELSE BYTE - 1 - rbit
          IN IF which \in ByteAt(rpos) THEN {0} ELSE {}
ReadBit ==
  /\ done < want /\ ~Aligned
  /\ Place(OneBit, 1)
  /\ IF rbit + 1 > BYTE - 1 THEN rbit' = 0 /\ rpos' = rpos + 1
     ELSE rbit' = rbit + 1 /\ rpos' = rpos
  /\ UNCHANGED <<stream, want, back, last>>

Ends(op, p, b) ==
  /\ ~Idle /\ done = want
  /\ pos' = p /\ bit' = b
  /\ last' = [op |-> op, w |-> want, from |-> Here, val |-> retval, over |-> over]
  /\ want' = 0 /\ done' = 0 /\ retval' = {} /\ rpos' = 0 /\ rbit' = 0 /\ over' = FALSE
  /\ UNCHANGED <<reader, data, back>>

(* An integer that is read and kept.                                       *)
ReadDone == Ends("read", rpos, rbit)

(* An integer whose value is not the one the grammar asks for: C backs up, *)
(* C++ leaves that to whoever rewinds.                                     *)
ReadMismatch ==
  /\ InC
  /\ LET b == stream_backup(rpos, rbit, want) IN Ends("mismatch", b.pos, b.bit)

(* An integer the first pass does not need the value of.                   *)
Skip(w) ==
  /\ InC
  /\ Idle /\ WithinBound /\ Checks(w)
  /\ LET a == stream_advance(w)
     IN /\ pos' = a.pos /\ bit' = a.bit
        /\ last' = [op |-> "skip", w |-> w, from |-> Here]
  /\ UNCHANGED <<reader, data, locals, back>>

(* A combinator that may fail starts, and fails.                           *)
Remember ==
  /\ Idle
  /\ back' = [p |-> stream_getpos, at |-> Here]
  /\ last' = Nothing
  /\ UNCHANGED <<stream, locals>>
Backtrack ==
  /\ Idle
  /\ LET r == stream_reposition(back.p) IN pos' = r.pos /\ bit' = r.bit
  /\ last' = [op |-> "backtrack"]
  /\ UNCHANGED <<reader, data, locals, back>>

Next ==
  \/ \E w \in reader.widths : CheckFails(w) \/ read_unsigned_bits(w) \/ Skip(w)
  \/ ReadByte \/ ReadBit \/ ReadDone \/ ReadMismatch
  \/ Remember \/ Backtrack
Spec == Init /\ [][Next]_vars

-----------------------------------------------------------------------------
(* The field that starts at bit f.                                         *)
Field(f, w) == FieldOf(ByteAt, LittleEndian, f, w)

(* The number a constraint or a constant is compared with is the field's,  *)
(* whatever its width and wherever in a byte it starts; a field that runs  *)
(* past the end of the stream has none.                                    *)
ReadsField ==
  last.op \in {"read", "mismatch"} /\ ~last.over => last.val = Field(last.from, last.w)

(* Checking is enough: no field is read that is not in the stream.  In C++ *)
(* it is; NailStream is asked for the same.                                *)
StaysInStream == last.op \in {"read", "mismatch"} => ~last.over
StaysInMemStream == ~InC => StaysInStream

(* Both passes and every combinator agree on where a field ends: reading   *)
(* and skipping it move the stream by its width, a mismatch not at all;     *)
(* what is carried or borrowed leaves an offset inside of a byte.          *)
MovesByWidth ==
  /\ bit \in 0..(BYTE - 1) /\ pos \in Nat
  /\ last.op \in {"read", "skip"} => Here = last.from + last.w
  /\ last.op = "mismatch" => Here = last.from

(* Backtracking returns to the bit it was meant for.                       *)
BacktracksToMark == last.op = "backtrack" => Here = back.at
=============================================================================
