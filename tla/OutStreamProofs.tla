-------------------------- MODULE OutStreamProofs --------------------------
(***************************************************************************)
(* For bytes of any width, integers of any width, blocks of any size and    *)
(* fragments of any length: NailOutStream of OutStream.tla stays inside its *)
(* block, and holds every field it was given, wherever the block moves and  *)
(* however often placeholders are written over.                            *)
(***************************************************************************)
EXTENDS OutStream, Arithmetic

TypeOK ==
  /\ size \in Nat /\ pos \in Nat /\ bit \in 0..(BYTE - 1)
  /\ data = Null \/ data \in [0..(size - 1) -> SUBSET (0..(BYTE - 1))]
  /\ task \in {"none", "write", "fixup", "append"} /\ left \in Nat /\ home \in Nat
  /\ task = "none" => left = 0
  /\ \A d \in deps : d.at \in Nat /\ d.w \in Widths
  /\ \A f \in fields : f.at \in Nat /\ f.w \in Nat \ {0} /\ f.val \in SUBSET (0..(f.w - 1))
  /\ end \in Nat /\ lost \in BOOLEAN
  /\ status \in {"ok", "failed", "overrun", "null"}

(* The block has a bit to spare behind whatever is still to be written.     *)
Room ==
  /\ Here + left < size * BYTE
  /\ task = "fixup" => home < size * BYTE
  /\ \A d \in deps : d.at < size * BYTE

(* No transform is used that asks grow for bytes, as those of size.hh do.   *)
AsksForBits == GrowsByBytes => Fragments = {}

-----------------------------------------------------------------------------
(* Nothing has gone wrong yet.                                              *)
Sound == status = "ok" /\ ~lost

InBlock ==
  /\ data # Null /\ Here <= size * BYTE
  /\ task = "fixup" => home <= size * BYTE

(* The stream is as far from the end of the output as it has bits to write. *)
EndInv ==
  /\ IF task = "fixup" THEN home = end ELSE Here + left = end
  /\ task = "append" => left % BYTE = 0

(* No two fields share a bit, but a dependency and what is written there.   *)
Apart(x, y) == x.at + x.w <= y.at \/ y.at + y.w <= x.at
SamePlaceAs(x, y) == x.at = y.at /\ x.w = y.w
Layout ==
  /\ \A x \in fields \cup deps : x.at + x.w <= end
  /\ \A x, y \in fields \cup deps : SamePlaceAs(x, y) \/ Apart(x, y)

(* The bits still to write are the low bits of a field, or whole bytes.     *)
Ahead(f) == f.at + f.w <= Here \/ Here + left <= f.at
Pending ==
  left > 0 =>
    \A f \in fields :
      \/ Ahead(f)
      \/ /\ task # "append"
         /\ f.at + f.w = Here + left /\ f.val = value
      \/ /\ task = "append"
         /\ f.w = BYTE /\ f.val = {0}
         /\ \E i \in 0..left : f.at = Here + i * BYTE

(* All other bits are what they should be.                                  *)
BitSet(p) == (BYTE - 1 - (p % BYTE)) \in data[p \div BYTE]
Memory ==
  \A f \in fields : \A k \in 0..(f.w - 1) :
    LET p == f.at + f.w - 1 - k
    IN \/ Here <= p /\ p < Here + left
       \/ BitSet(p) <=> k \in f.val

Good == InBlock /\ EndInv /\ Layout /\ Pending /\ Memory
OutInv == TypeOK /\ (Sound => Good)

-----------------------------------------------------------------------------
LEMMA Machine ==
  ASSUME TypeOK
  PROVE  /\ BYTE \in Nat \ {0} /\ GROW \in Nat \ {0} /\ Widths \subseteq Nat \ {0}
         /\ Fragments \subseteq Nat \ {0} /\ \A w \in Widths : w \div BYTE < GROW
         /\ Here \in Nat /\ size * BYTE \in Nat
  BY OutStreamAssumption DEF TypeOK, Here

LEMMA MultiplesGrow ==
  ASSUME NEW n \in Nat \ {0}, NEW a \in Nat, NEW b \in Nat, a <= b
  PROVE  a * n <= b * n /\ a * n \in Nat /\ b * n \in Nat
<1>1. CASE a = b
  BY <1>1
<1>2. CASE a < b
  <2>1. b * n >= a * n + n
    BY <1>2, LessByOne
  <2> QED BY <2>1
<1> QED BY <1>1, <1>2

(* The null pointer has no bytes.                                           *)
LEMMA NoBytes == DOMAIN Null = {}
  BY DEF Null

LEMMA Wider ==
  ASSUME NEW m \in Nat, NEW n \in Nat, m <= n, n > 0
  PROVE  0 \in 0..(n - 1) /\ \A i \in 0..(m - 1) : i \in 0..(n - 1)
  OBVIOUS

(* A block only ever gets bigger.                                           *)
LEMMA Bigger ==
  ASSUME TypeOK, NEW p \in Nat, NEW count \in Nat, NEW checked,
         grow_ok(p, count) \/ grow_fails(p, count, checked)
  PROVE  /\ size' \in Nat /\ size <= size' /\ size * BYTE <= size' * BYTE
         /\ \/ size' = size /\ p + (count \div BYTE) + 1 < size'
            \/ GROW + size <= size' /\ p + (count \div BYTE) + 1 <= size'
<1>1. count \div BYTE \in Nat /\ size \in Nat /\ GROW \in Nat \ {0} /\ BYTE \in Nat \ {0}
  BY Machine, WholeAndRest, Zenon DEF TypeOK
<1>2. Needed(p, count) \in Nat /\ GROW + size <= Needed(p, count)
      /\ p + (count \div BYTE) + 1 <= Needed(p, count)
  BY <1>1 DEF Needed
<1>3. (Fits(p, count) /\ size' = size) \/ size' = Needed(p, count)
  BY DEF grow_ok, grow_fails
<1>4. /\ size' \in Nat /\ size <= size'
      /\ \/ size' = size /\ p + (count \div BYTE) + 1 < size'
         \/ GROW + size <= size' /\ p + (count \div BYTE) + 1 <= size'
  BY <1>1, <1>2, <1>3 DEF Fits
<1> QED BY <1>1, <1>4, MultiplesGrow

(* What a block that grew holds.                                            *)
LEMMA Holds ==
  ASSUME TypeOK, NEW p \in Nat, NEW count \in Nat, grow_ok(p, count)
  PROVE  /\ data' = Null \/ data' \in [0..(size' - 1) -> SUBSET (0..(BYTE - 1))]
         /\ data # Null => /\ data' # Null
                           /\ \A i \in 0..(size - 1) : data'[i] = data[i]
<1>1. data = Null \/ data \in [0..(size - 1) -> SUBSET (0..(BYTE - 1))]
  BY DEF TypeOK
<1>2. CASE Fits(p, count)
  <2>1. data' = data /\ size' = size
    BY <1>2 DEF grow_ok
  <2> QED BY <1>1, <2>1
<1>3. CASE ~Fits(p, count)
  <2>1. size' \in Nat /\ size <= size' /\ size \in Nat /\ size' > 0
    <3>1. count \div BYTE \in Nat /\ BYTE \in Nat \ {0} /\ GROW \in Nat \ {0} /\ size \in Nat
      BY Machine, WholeAndRest, Zenon DEF TypeOK
    <3>2. /\ size' \in Nat /\ size <= size'
          /\ \/ size' = size /\ p + (count \div BYTE) + 1 < size'
             \/ GROW + size <= size' /\ p + (count \div BYTE) + 1 <= size'
      BY Bigger, Zenon
    <3> QED BY <3>1, <3>2
  <2>2. 0 \in 0..(size' - 1) /\ \A i \in 0..(size - 1) : i \in 0..(size' - 1)
    BY <2>1, Wider
  <2>3. PICK junk \in {{}, 0..(BYTE - 1)} :
          data' = [i \in 0..(size' - 1) |-> IF i \in DOMAIN data THEN data[i] ELSE junk]
    BY <1>3 DEF grow_ok
  <2>4. \A i \in DOMAIN data : data[i] \in SUBSET (0..(BYTE - 1))
    BY <1>1, NoBytes
  <2>5. data' \in [0..(size' - 1) -> SUBSET (0..(BYTE - 1))]
    BY <2>3, <2>4
  <2>6. data' # Null
    <3>1. DOMAIN data' = 0..(size' - 1)
      BY <2>3
    <3> QED BY <2>2, <3>1, NoBytes
  <2>7. ASSUME data # Null, NEW i \in 0..(size - 1) PROVE data'[i] = data[i]
    <3>1. i \in DOMAIN data
      BY <1>1, <2>7
    <3> QED BY <2>2, <2>3, <3>1
  <2> QED BY <2>5, <2>6, <2>7
<1> QED BY <1>2, <1>3

-----------------------------------------------------------------------------
LEMMA InitTypes == Init => TypeOK
<1> SUFFICES ASSUME Init PROVE TypeOK
  OBVIOUS
<1>1. BYTE \in Nat \ {0} /\ InitSize \in Nat \ {0}
  BY OutStreamAssumption
<1>2. data = Null \/ data \in [0..(size - 1) -> SUBSET (0..(BYTE - 1))]
  <2>1. PICK junk \in {{}, 0..(BYTE - 1)} : data = [i \in 0..(InitSize - 1) |-> junk]
    BY DEF Init
  <2> QED BY <2>1 DEF Init
<1>3. 0 \in 0..(BYTE - 1)
  BY <1>1
<1>4. /\ size = InitSize /\ pos = 0 /\ bit = 0 /\ task = "none" /\ left = 0 /\ home = 0
      /\ deps = {} /\ fields = {} /\ end = 0 /\ lost = FALSE /\ status = "ok"
  BY DEF Init
<1> QED BY <1>1, <1>2, <1>3, <1>4 DEF TypeOK

(* The block and the status a write or a transform leaves.                  *)
LEMMA GrowTypes ==
  ASSUME TypeOK, NEW p \in Nat, NEW count \in Nat, NEW checked \in BOOLEAN,
         grow_ok(p, count) \/ grow_fails(p, count, checked)
  PROVE  /\ size' \in Nat /\ lost' \in BOOLEAN
         /\ data' = Null \/ data' \in [0..(size' - 1) -> SUBSET (0..(BYTE - 1))]
         /\ status' \in {status, "failed"}
  BY Bigger, Holds DEF TypeOK, grow_ok, grow_fails

LEMMA WriteTypes ==
  ASSUME TypeOK, NEW p \in Nat, NEW val, NEW w \in Widths, NEW checked \in BOOLEAN,
         NailOutStream_write(p, val, w, checked)
  PROVE  /\ size' \in Nat /\ lost' \in BOOLEAN /\ left' \in Nat
         /\ data' = Null \/ data' \in [0..(size' - 1) -> SUBSET (0..(BYTE - 1))]
         /\ status' \in {status, "failed"}
<1>1. w \in Nat
  BY Machine
<1>2. (grow_ok(p, w) \/ grow_fails(p, w, checked)) /\ left' \in {w, 0}
  BY DEF NailOutStream_write
<1> QED BY <1>1, <1>2, GrowTypes

LEMMA RepositionTypes ==
  ASSUME TypeOK, NEW p \in Nat, NailOutStream_reposition(p)
  PROVE  /\ pos' \in Nat /\ bit' \in 0..(BYTE - 1) /\ pos' * BYTE + bit' = p
<1>1. BYTE \in Nat \ {0}
  BY Machine
<1>2. p \div BYTE \in Nat /\ p % BYTE \in 0..(BYTE - 1) /\ p = (p \div BYTE) * BYTE + (p % BYTE)
  BY <1>1, WholeAndRest, Zenon
<1> QED BY <1>2 DEF NailOutStream_reposition

LEMMA GenIntegerTypes ==
  ASSUME NEW w \in Widths, NEW val \in SUBSET (0..(w - 1))
  PROVE  TypeOK /\ GenInteger(w, val) => TypeOK'
<1> SUFFICES ASSUME TypeOK, GenInteger(w, val) PROVE TypeOK'
  OBVIOUS
<1>1. w \in Nat \ {0} /\ Here \in Nat /\ pos \in Nat
  BY Machine DEF TypeOK
<1>2. /\ size' \in Nat /\ lost' \in BOOLEAN /\ left' \in Nat
      /\ data' = Null \/ data' \in [0..(size' - 1) -> SUBSET (0..(BYTE - 1))]
      /\ status' \in {status, "failed"}
  BY <1>1, WriteTypes DEF GenInteger
<1>3. ASSUME NEW f \in fields'
      PROVE  f.at \in Nat /\ f.w \in Nat \ {0} /\ f.val \in SUBSET (0..(f.w - 1))
  <2>1. f \in fields \/ f = [at |-> Here, w |-> w, val |-> val]
    BY DEF GenInteger
  <2>2. CASE f \in fields
    BY <2>2 DEF TypeOK
  <2>3. CASE f = [at |-> Here, w |-> w, val |-> val]
    BY <1>1, <2>3
  <2> QED BY <2>1, <2>2, <2>3
<1>4. end' \in Nat
  BY <1>1 DEF TypeOK, GenInteger
<1> QED BY <1>2, <1>3, <1>4 DEF TypeOK, GenInteger

LEMMA GenDependencyTypes ==
  ASSUME NEW w \in Widths
  PROVE  TypeOK /\ GenDependency(w) => TypeOK'
<1> SUFFICES ASSUME TypeOK, GenDependency(w) PROVE TypeOK'
  OBVIOUS
<1>1. w \in Nat \ {0} /\ Here \in Nat /\ pos \in Nat
  BY Machine DEF TypeOK
<1>2. /\ size' \in Nat /\ lost' \in BOOLEAN /\ left' \in Nat
      /\ data' = Null \/ data' \in [0..(size' - 1) -> SUBSET (0..(BYTE - 1))]
      /\ status' \in {status, "failed"}
  BY <1>1, WriteTypes DEF GenDependency
<1>3. \A d \in deps' : d.at \in Nat /\ d.w \in Widths
  BY <1>1 DEF TypeOK, GenDependency
<1>4. end' \in Nat
  BY <1>1 DEF TypeOK, GenDependency
<1> QED BY <1>2, <1>3, <1>4 DEF TypeOK, GenDependency

LEMMA FixUpTypes ==
  ASSUME NEW d \in deps, NEW val \in SUBSET (0..(d.w - 1))
  PROVE  TypeOK /\ FixUp(d, val) => TypeOK'
<1> SUFFICES ASSUME TypeOK, FixUp(d, val) PROVE TypeOK'
  OBVIOUS
<1>1. d.w \in Widths /\ d.w \in Nat \ {0} /\ d.at \in Nat /\ Here \in Nat /\ BYTE \in Nat \ {0}
  BY Machine DEF TypeOK
<1>2. d.at \div BYTE \in Nat
  BY <1>1, WholeAndRest, Zenon
<1>3. /\ size' \in Nat /\ lost' \in BOOLEAN /\ left' \in Nat
      /\ data' = Null \/ data' \in [0..(size' - 1) -> SUBSET (0..(BYTE - 1))]
      /\ status' \in {status, "failed"}
  BY <1>1, <1>2, WriteTypes DEF FixUp
<1>4. ASSUME NEW f \in fields'
      PROVE  f.at \in Nat /\ f.w \in Nat \ {0} /\ f.val \in SUBSET (0..(f.w - 1))
  <2>1. f \in fields \/ f = [at |-> d.at, w |-> d.w, val |-> val]
    BY DEF FixUp
  <2>2. CASE f \in fields
    BY <2>2 DEF TypeOK
  <2>3. CASE f = [at |-> d.at, w |-> d.w, val |-> val]
    BY <1>1, <2>3
  <2> QED BY <2>1, <2>2, <2>3
<1>5. pos' \in Nat /\ bit' \in 0..(BYTE - 1)
  BY <1>1, RepositionTypes DEF FixUp
<1> QED BY <1>1, <1>3, <1>4, <1>5 DEF TypeOK, FixUp

LEMMA AppendTypes ==
  ASSUME NEW n \in Fragments
  PROVE  TypeOK /\ Append_generate(n) => TypeOK'
<1> SUFFICES ASSUME TypeOK, Append_generate(n) PROVE TypeOK'
  OBVIOUS
<1>1. n \in Nat \ {0} /\ Here \in Nat /\ BYTE \in Nat \ {0} /\ pos \in Nat /\ BYTE * n \in Nat
  BY Machine DEF TypeOK
<1>2. PICK count \in {n, BYTE * n} :
        /\ grow_ok(pos, count) \/ grow_fails(pos, count, TRUE)
        /\ left' \in {BYTE * n, 0}
  BY DEF Append_generate
<1>3. /\ size' \in Nat /\ lost' \in BOOLEAN
      /\ data' = Null \/ data' \in [0..(size' - 1) -> SUBSET (0..(BYTE - 1))]
      /\ status' \in {status, "failed"}
  BY <1>1, <1>2, GrowTypes
<1>4. \A f \in fields' : f.at \in Nat /\ f.w \in Nat \ {0} /\ f.val \in SUBSET (0..(f.w - 1))
  <2>1. \A i \in 0..(n - 1) : Here + BYTE * i \in Nat
    BY <1>1
  <2> QED BY <1>1, <2>1 DEF TypeOK, Append_generate
<1>5. end' \in Nat
  BY <1>1 DEF TypeOK, Append_generate
<1>6. left' \in Nat
  BY <1>1, <1>2
<1> QED BY <1>3, <1>4, <1>5, <1>6 DEF TypeOK, Append_generate

LEMMA PutByteTypes == TypeOK /\ PutByte => TypeOK'
<1> SUFFICES ASSUME TypeOK, PutByte PROVE TypeOK'
  OBVIOUS
<1>1. left >= BYTE /\ BYTE \in Nat \ {0} /\ left \in Nat
  BY Machine, WholeBytes DEF TypeOK, PutByte, Writing, Aligned
<1>2. pos' \in Nat /\ left' \in Nat
  BY <1>1 DEF TypeOK, PutByte
<1>3. data \in [0..(size - 1) -> SUBSET (0..(BYTE - 1))]
  BY DEF TypeOK, PutByte, Null
<1>4. data' \in [0..(size - 1) -> SUBSET (0..(BYTE - 1))]
  BY <1>3 DEF PutByte
<1> QED BY <1>2, <1>4 DEF TypeOK, PutByte, ghosts, Writing

LEMMA PutBitTypes == TypeOK /\ PutBit => TypeOK'
<1> SUFFICES ASSUME TypeOK, PutBit PROVE TypeOK'
  OBVIOUS
<1>1. BYTE \in Nat \ {0} /\ pos \in Nat /\ bit \in 0..(BYTE - 1) /\ left \in Nat /\ left > 0
  BY Machine DEF TypeOK, PutBit, Writing
<1>2. pos' \in Nat /\ bit' \in 0..(BYTE - 1) /\ left' \in Nat
  BY <1>1 DEF PutBit
<1>3. data \in [0..(size - 1) -> SUBSET (0..(BYTE - 1))]
  BY DEF TypeOK, PutBit, Null
<1>4. BYTE - 1 - bit \in 0..(BYTE - 1)
  BY <1>1
<1>5. \A byte \in SUBSET (0..(BYTE - 1)), one \in BOOLEAN :
       Put(byte, BYTE - 1 - bit, one) \in SUBSET (0..(BYTE - 1))
  BY <1>4 DEF Put
<1>6. data' \in [0..(size - 1) -> SUBSET (0..(BYTE - 1))]
  <2>1. pos \in 0..(size - 1)
    BY <1>3 DEF PutBit
  <2>2. (left - 1 \in value) \in BOOLEAN
    OBVIOUS
  <2>3. Put(data[pos], BYTE - 1 - bit, left - 1 \in value) \in SUBSET (0..(BYTE - 1))
    BY <1>3, <1>5, <2>1, <2>2
  <2> QED BY <1>3, <2>1, <2>3 DEF PutBit
<1> QED BY <1>2, <1>6 DEF TypeOK, PutBit, ghosts, Writing

LEMMA CopyTypes == TypeOK /\ Copy => TypeOK'
<1> SUFFICES ASSUME TypeOK, Copy PROVE TypeOK'
  OBVIOUS
<1>1. left \div BYTE \in Nat /\ BYTE \in Nat \ {0}
  BY Machine, WholeAndRest, Zenon DEF TypeOK
<1>2. pos' \in Nat
  BY <1>1 DEF TypeOK, Copy
<1>3. data' = Null \/ data' \in [0..(size - 1) -> SUBSET (0..(BYTE - 1))]
  <2>1. CASE data = Null
    BY <2>1 DEF Copy, Null
  <2>2. CASE data \in [0..(size - 1) -> SUBSET (0..(BYTE - 1))]
    BY <1>1, <2>2 DEF Copy
  <2> QED BY <2>1, <2>2 DEF TypeOK
<1> QED BY <1>2, <1>3 DEF TypeOK, Copy, ghosts

LEMMA ComesBackTypes == TypeOK /\ ComesBack => TypeOK'
<1> SUFFICES ASSUME TypeOK, ComesBack PROVE TypeOK'
  OBVIOUS
<1>1. pos' \in Nat /\ bit' \in 0..(BYTE - 1)
  BY RepositionTypes DEF TypeOK, ComesBack
<1> QED BY <1>1 DEF TypeOK, ComesBack, Ended, ghosts

LEMMA NextTypes == TypeOK /\ [Next]_vars => TypeOK'
<1> SUFFICES ASSUME TypeOK, [Next]_vars PROVE TypeOK'
  OBVIOUS
<1>1. CASE UNCHANGED vars
  BY <1>1 DEF TypeOK, vars, ghosts
<1>2. CASE CopyRefused \/ WriteOutside
  BY <1>2 DEF TypeOK, CopyRefused, WriteOutside, ghosts
<1>3. CASE Written
  BY <1>3 DEF TypeOK, Written, Ended, ghosts
<1>4. ASSUME NEW w \in Widths, NEW val \in Values, GenInteger(w, val \cap 0..(w - 1)) PROVE TypeOK'
  <2>1. val \cap 0..(w - 1) \in SUBSET (0..(w - 1))
    OBVIOUS
  <2> QED BY <1>4, <2>1, GenIntegerTypes
<1>5. ASSUME NEW d \in deps, NEW val \in Values, FixUp(d, val \cap 0..(d.w - 1)) PROVE TypeOK'
  <2>1. val \cap 0..(d.w - 1) \in SUBSET (0..(d.w - 1))
    OBVIOUS
  <2> QED BY <1>5, <2>1, FixUpTypes
<1> QED BY <1>1, <1>2, <1>3, <1>4, <1>5, GenDependencyTypes, AppendTypes, PutByteTypes, PutBitTypes,
           CopyTypes, ComesBackTypes DEF Next

-----------------------------------------------------------------------------
(* Where a turn of the loop takes the stream.                               *)
LEMMA PutByteTurn ==
  ASSUME TypeOK, PutByte
  PROVE  /\ Here' = Here + BYTE /\ left' = left - BYTE /\ left >= BYTE
         /\ Here = pos * BYTE /\ BYTE \in Nat \ {0} /\ left \in Nat /\ pos \in Nat
<1>1. left >= BYTE /\ BYTE \in Nat \ {0} /\ left \in Nat /\ pos \in Nat
  BY Machine, WholeBytes DEF TypeOK, PutByte, Writing, Aligned
<1>2. pos' = pos + 1 /\ bit = 0 /\ bit' = 0 /\ left' = left - BYTE
  BY DEF PutByte, Aligned
<1> QED BY <1>1, <1>2 DEF Here

LEMMA PutBitTurn ==
  ASSUME TypeOK, PutBit
  PROVE  /\ Here' = Here + 1 /\ left' = left - 1 /\ left >= 1 /\ left \in Nat
<1>1. BYTE \in Nat \ {0} /\ pos \in Nat /\ bit \in 0..(BYTE - 1) /\ left \in Nat /\ left > 0
  BY Machine DEF TypeOK, PutBit, Writing
<1>2. left' = left - 1
  BY DEF PutBit
<1>3. CASE bit + 1 > BYTE - 1
  <2>1. pos' = pos + 1 /\ bit' = 0
    BY <1>3 DEF PutBit
  <2> QED BY <1>1, <1>2, <1>3, <2>1 DEF Here
<1>4. CASE ~(bit + 1 > BYTE - 1)
  <2>1. pos' = pos /\ bit' = bit + 1
    BY <1>4 DEF PutBit
  <2> QED BY <1>1, <1>2, <1>4, <2>1 DEF Here
<1> QED BY <1>3, <1>4

LEMMA CopyTurn ==
  ASSUME TypeOK, Copy
  PROVE  /\ Here' = Here + (left \div BYTE) * BYTE /\ left' = 0 /\ Here = pos * BYTE
         /\ left = (left \div BYTE) * BYTE + (left % BYTE)
         /\ left \div BYTE \in Nat /\ left % BYTE \in Nat /\ (left \div BYTE) * BYTE \in Nat
<1>1. BYTE \in Nat \ {0} /\ left \in Nat /\ pos \in Nat
  BY Machine DEF TypeOK
<1>2. left \div BYTE \in Nat /\ left % BYTE \in 0..(BYTE - 1)
      /\ left = (left \div BYTE) * BYTE + (left % BYTE)
  BY <1>1, WholeAndRest, Zenon
<1>3. pos' = pos + left \div BYTE /\ bit = 0 /\ bit' = 0 /\ left' = 0
  BY DEF Copy
<1>4. PICK n \in Nat : n = left \div BYTE
  BY <1>2
<1>5. (pos + n) * BYTE = pos * BYTE + n * BYTE /\ n * BYTE \in Nat
  BY <1>1, <1>4
<1> QED BY <1>1, <1>2, <1>3, <1>4, <1>5 DEF Here

(* A position in a block of n bytes is in one of them.                      *)
LEMMA InBytes ==
  ASSUME NEW n \in Nat \ {0}, NEW p \in Nat, NEW s \in Nat, p < s * n
  PROVE  p \div n \in 0..(s - 1)
<1>1. p \div n \in Nat /\ p % n \in 0..(n - 1) /\ p = (p \div n) * n + (p % n)
  BY WholeAndRest, Zenon
<1>2. p \div n < s
  <2>1. SUFFICES ASSUME s <= p \div n PROVE FALSE
    BY <1>1
  <2>2. s * n <= (p \div n) * n /\ s * n \in Nat /\ (p \div n) * n \in Nat
    BY <1>1, <2>1, MultiplesGrow
  <2> QED BY <1>1, <2>2
<1> QED BY <1>1, <1>2

-----------------------------------------------------------------------------
LEMMA NewSize ==
  ASSUME TypeOK, TypeOK'
  PROVE  size * BYTE \in Nat /\ size' * BYTE \in Nat
<1>1. PICK n \in Nat : n = size'
  BY DEF TypeOK
<1>2. BYTE \in Nat \ {0} /\ n * BYTE \in Nat /\ size * BYTE \in Nat
  BY Machine
<1> QED BY <1>1, <1>2

(* Growing by the bits of a field makes room for all of them, the bits that *)
(* straddle one more byte included.                                        *)
LEMMA WriteRoom ==
  ASSUME TypeOK, NEW p \in Nat, p < size, NEW b \in 0..(BYTE - 1), NEW w \in Widths,
         NEW val, NEW checked, NailOutStream_write(p, val, w, checked)
  PROVE  /\ size * BYTE <= size' * BYTE /\ p * BYTE + b + left' < size' * BYTE
<1>1. /\ BYTE \in Nat \ {0} /\ GROW \in Nat \ {0} /\ size \in Nat /\ w \in Nat /\ w \div BYTE < GROW
  BY Machine DEF TypeOK
<1>2. /\ w \div BYTE \in Nat /\ w % BYTE \in 0..(BYTE - 1) /\ w = (w \div BYTE) * BYTE + (w % BYTE)
  BY <1>1, WholeAndRest, Zenon
<1>3. PICK q \in Nat, r \in 0..(BYTE - 1) : q = w \div BYTE /\ r = w % BYTE /\ w = q * BYTE + r
  BY <1>2
<1>4. (grow_ok(p, w) \/ grow_fails(p, w, checked)) /\ (left' = w \/ left' = 0)
  BY DEF NailOutStream_write
<1>5. /\ size' \in Nat /\ size <= size' /\ size * BYTE <= size' * BYTE
      /\ \/ size' = size /\ p + (w \div BYTE) + 1 < size'
         \/ GROW + size <= size' /\ p + (w \div BYTE) + 1 <= size'
  BY <1>1, <1>4, Bigger
<1>6. PICK s \in Nat : s = size' /\ p + q + 2 <= s
  BY <1>1, <1>3, <1>5
<1>7. (p + q + 2) * BYTE <= s * BYTE
  <2>1. p + q + 2 \in Nat
    BY <1>3
  <2> QED BY <1>1, <1>6, <2>1, MultiplesGrow
<1>8. p * BYTE + b + w < (p + q + 2) * BYTE
  BY <1>1, <1>3
<1>9. PICK l \in Nat : l = left' /\ l <= w
  BY <1>1, <1>4
<1>10. p * BYTE \in Nat /\ s * BYTE \in Nat /\ (p + q + 2) * BYTE \in Nat
  BY <1>1, <1>3
<1>11. p * BYTE + b + l < s * BYTE
  <2>1. PICK x \in Nat, y \in Nat, z \in Nat : x = p * BYTE /\ y = s * BYTE /\ z = (p + q + 2) * BYTE
    BY <1>10
  <2>2. x + b + w < z /\ z <= y
    BY <1>7, <1>8, <2>1
  <2>3. b \in Nat /\ w \in Nat /\ l <= w
    BY <1>1, <1>9
  <2>4. x + b + l < y
    BY <2>2, <2>3
  <2> QED BY <2>1, <2>4
<1> QED BY <1>5, <1>6, <1>9, <1>11

(* Growing by the bits of a fragment makes room for it.                     *)
LEMMA AppendRoom ==
  ASSUME TypeOK, AsksForBits, NEW n \in Fragments, Append_generate(n)
  PROVE  size * BYTE <= size' * BYTE /\ Here + left' < size' * BYTE
<1>1. /\ BYTE \in Nat \ {0} /\ GROW \in Nat \ {0} /\ size \in Nat /\ n \in Nat /\ pos \in Nat
      /\ bit \in 0..(BYTE - 1) /\ BYTE * n \in Nat
  BY Machine DEF TypeOK
<1>2. (grow_ok(pos, BYTE * n) \/ grow_fails(pos, BYTE * n, TRUE)) /\ (left' = BYTE * n \/ left' = 0)
  BY DEF Append_generate, AsksForBits
<1>3. (BYTE * n) \div BYTE = n
  <2>1. 0 \in 0..(BYTE - 1) /\ n \in Int /\ n * BYTE + 0 = BYTE * n
    BY <1>1
  <2> QED BY <1>1, <2>1, PlaceOf
<1>4. /\ size' \in Nat /\ size <= size' /\ size * BYTE <= size' * BYTE
      /\ \/ size' = size /\ pos + n + 1 < size'
         \/ GROW + size <= size' /\ pos + n + 1 <= size'
  BY <1>1, <1>2, <1>3, Bigger
<1>5. PICK s \in Nat : s = size' /\ pos + n + 1 <= s
  BY <1>1, <1>4
<1>6. (pos + n + 1) * BYTE <= s * BYTE
  <2>1. pos + n + 1 \in Nat
    BY <1>1
  <2> QED BY <1>1, <1>5, <2>1, MultiplesGrow
<1>7. pos * BYTE + bit + BYTE * n < (pos + n + 1) * BYTE
  BY <1>1
<1>8. PICK l \in Nat : l = left' /\ l <= BYTE * n
  BY <1>1, <1>2
<1>9. pos * BYTE \in Nat /\ s * BYTE \in Nat /\ (pos + n + 1) * BYTE \in Nat
  BY <1>1
<1>10. pos * BYTE + bit + l < s * BYTE
  <2>1. PICK x \in Nat, y \in Nat, z \in Nat : x = pos * BYTE /\ y = s * BYTE /\ z = (pos + n + 1) * BYTE
    BY <1>9
  <2>2. PICK m \in Nat : m = BYTE * n
    BY <1>1
  <2>3. x + bit + m < z /\ z <= y
    BY <1>6, <1>7, <2>1, <2>2
  <2>4. bit \in Nat /\ l <= m
    BY <1>1, <1>8, <2>2
  <2>5. x + bit + l < y
    BY <2>3, <2>4
  <2> QED BY <2>1, <2>5
<1> QED BY <1>4, <1>5, <1>8, <1>10 DEF Here

LEMMA AtInBlock ==
  ASSUME TypeOK, Room
  PROVE  pos < size /\ Here < size * BYTE
<1>1. pos \in Nat /\ size \in Nat /\ left \in Nat /\ Here \in Nat /\ BYTE \in Nat \ {0}
      /\ size * BYTE \in Nat /\ bit \in 0..(BYTE - 1)
  BY Machine DEF TypeOK
<1>2. Here < size * BYTE
  BY <1>1 DEF Room
<1>3. ASSUME size <= pos PROVE FALSE
  <2>1. size * BYTE <= pos * BYTE /\ pos * BYTE \in Nat
    BY <1>1, <1>3, MultiplesGrow
  <2> QED BY <1>1, <1>2, <2>1 DEF Here
<1> QED BY <1>1, <1>2, <1>3

(* The dependencies stay in a block that does not shrink.                   *)
LEMMA DepsInBlock ==
  ASSUME TypeOK, Room, TypeOK', size * BYTE <= size' * BYTE, NEW d \in deps
  PROVE  d.at < size' * BYTE
<1>1. d.at \in Nat /\ size * BYTE \in Nat /\ size' * BYTE \in Nat
  BY NewSize DEF TypeOK
<1> QED BY <1>1 DEF Room

LEMMA GenIntegerRoom ==
  ASSUME TypeOK, Room, TypeOK', NEW w \in Widths, NEW val, GenInteger(w, val)
  PROVE  Room'
<1>1. pos \in Nat /\ pos < size /\ bit \in 0..(BYTE - 1)
  BY AtInBlock DEF TypeOK
<1>2. size * BYTE <= size' * BYTE /\ pos * BYTE + bit + left' < size' * BYTE
  BY <1>1, WriteRoom DEF GenInteger
<1>3. Here' = pos * BYTE + bit /\ deps' = deps /\ task' = "write"
  BY DEF GenInteger, Here
<1> QED BY <1>2, <1>3, DepsInBlock DEF Room

LEMMA GenDependencyRoom ==
  ASSUME TypeOK, Room, TypeOK', NEW w \in Widths, GenDependency(w)
  PROVE  Room'
<1>1. pos \in Nat /\ pos < size /\ bit \in 0..(BYTE - 1)
  BY AtInBlock DEF TypeOK
<1>2. size * BYTE <= size' * BYTE /\ pos * BYTE + bit + left' < size' * BYTE
  BY <1>1, WriteRoom DEF GenDependency
<1>3. Here' = pos * BYTE + bit /\ deps' = deps \cup {[at |-> Here, w |-> w]} /\ task' = "write"
  BY DEF GenDependency, Here
<1>4. Here < size' * BYTE
  <2>1. Here < size * BYTE /\ Here \in Nat /\ size * BYTE \in Nat /\ size' * BYTE \in Nat
    BY AtInBlock, Machine, NewSize
  <2> QED BY <1>2, <2>1
<1> QED BY <1>2, <1>3, <1>4, DepsInBlock DEF Room

LEMMA FixUpRoom ==
  ASSUME TypeOK, Room, TypeOK', NEW d \in deps, NEW val, FixUp(d, val)
  PROVE  Room'
<1>1. d.at \in Nat /\ d.w \in Widths /\ d.at < size * BYTE /\ BYTE \in Nat \ {0} /\ size \in Nat
  BY Machine DEF TypeOK, Room
<1>2. d.at \div BYTE \in 0..(size - 1)
  BY <1>1, InBytes
<1>3. PICK p \in Nat : p = d.at \div BYTE /\ p < size
  BY <1>1, <1>2
<1>4. bit' \in 0..(BYTE - 1) /\ pos' * BYTE + bit' = d.at /\ pos' = p
  BY <1>1, <1>3, RepositionTypes DEF FixUp, NailOutStream_reposition
<1>5. PICK b \in 0..(BYTE - 1) : b = bit'
  BY <1>4
<1>6. NailOutStream_write(p, val, d.w, FALSE)
  BY <1>3 DEF FixUp
<1>7. size * BYTE <= size' * BYTE /\ p * BYTE + b + left' < size' * BYTE
  BY <1>1, <1>3, <1>6, WriteRoom
<1>8. Here' + left' < size' * BYTE
  BY <1>4, <1>5, <1>7 DEF Here
<1>9. home' < size' * BYTE
  <2>1. Here < size * BYTE /\ Here \in Nat /\ size * BYTE \in Nat /\ size' * BYTE \in Nat
    BY AtInBlock, Machine, NewSize
  <2> QED BY <1>7, <2>1 DEF FixUp
<1>10. deps' = deps
  BY DEF FixUp
<1> QED BY <1>7, <1>8, <1>9, <1>10, DepsInBlock DEF Room

LEMMA AppendGivesRoom ==
  ASSUME TypeOK, Room, TypeOK', AsksForBits, NEW n \in Fragments, Append_generate(n)
  PROVE  Room'
<1>1. size * BYTE <= size' * BYTE /\ Here + left' < size' * BYTE
  BY AppendRoom
<1>2. Here' = Here /\ deps' = deps /\ task' = "append"
  BY DEF Append_generate, Here
<1> QED BY <1>1, <1>2, DepsInBlock DEF Room

(* A step that writes within the block, or nothing at all.                  *)
LEMMA RoomKept ==
  ASSUME Room, UNCHANGED <<size, home, deps>>, task' = "fixup" => task = "fixup",
         Here' + left' = Here + left \/ Here' + left' < size * BYTE
  PROVE  Room'
  BY DEF Room

LEMMA NextRoom == ASSUME AsksForBits PROVE TypeOK /\ Room /\ [Next]_vars => Room'
<1> SUFFICES ASSUME TypeOK, Room, [Next]_vars PROVE Room'
  OBVIOUS
<1>1. TypeOK'
  BY NextTypes
<1>2. CASE UNCHANGED vars
  BY <1>2, RoomKept DEF vars, ghosts, Here
<1>3. CASE CopyRefused \/ WriteOutside \/ Written
  BY <1>3, RoomKept DEF CopyRefused, WriteOutside, Written, ghosts, Here
<1>4. CASE PutByte
  <2>1. Here' + left' = Here + left
    BY <1>4, PutByteTurn, Machine
  <2> QED BY <1>4, <2>1, RoomKept DEF PutByte, ghosts
<1>5. CASE PutBit
  <2>1. Here' + left' = Here + left
    BY <1>5, PutBitTurn, Machine
  <2> QED BY <1>5, <2>1, RoomKept DEF PutBit, ghosts
<1>6. CASE Copy
  <2>1. Here' + left' < size * BYTE
    <3>1. /\ Here' = Here + (left \div BYTE) * BYTE /\ left' = 0
          /\ left = (left \div BYTE) * BYTE + (left % BYTE)
          /\ left % BYTE \in Nat /\ (left \div BYTE) * BYTE \in Nat
      BY <1>6, CopyTurn
    <3>2. Here \in Nat /\ left \in Nat /\ size * BYTE \in Nat /\ Here + left < size * BYTE
      BY Machine DEF TypeOK, Room
    <3> QED BY <3>1, <3>2
  <2> QED BY <1>6, <2>1, RoomKept DEF Copy, ghosts
<1>7. CASE ComesBack
  <2>1. Here' = home /\ left' = 0 /\ home \in Nat /\ home < size * BYTE
    BY <1>7, RepositionTypes DEF ComesBack, Ended, TypeOK, Room, Here
  <2>2. Here' + left' < size * BYTE
    BY <2>1
  <2> QED BY <1>7, <2>2, RoomKept DEF ComesBack, ghosts
<1> QED BY <1>1, <1>2, <1>3, <1>4, <1>5, <1>6, <1>7, GenIntegerRoom, GenDependencyRoom, FixUpRoom,
           AppendGivesRoom DEF Next

(* With room to spare, no byte written lies outside of the block.           *)
LEMMA NothingOutside ==
  ASSUME TypeOK, Room, WriteOutside
  PROVE  data = Null
<1> SUFFICES ASSUME data # Null PROVE FALSE
  OBVIOUS
<1>1. DOMAIN data = 0..(size - 1) /\ pos \in Nat /\ size \in Nat /\ pos < size /\ BYTE \in Nat \ {0}
      /\ left \in Nat
  BY AtInBlock, Machine DEF TypeOK
<1>2. pos \in DOMAIN data
  BY <1>1
<1>3. bit = 0 /\ ~(Bytes \subseteq DOMAIN data)
  BY <1>2 DEF WriteOutside
<1>4. left \div BYTE \in Nat /\ left % BYTE \in 0..(BYTE - 1)
      /\ left = (left \div BYTE) * BYTE + (left % BYTE)
  BY <1>1, WholeAndRest, Zenon
<1>5. PICK n \in Nat : n = left \div BYTE
  BY <1>4
<1>6. pos + n < size
  <2> SUFFICES ASSUME size <= pos + n PROVE FALSE
    BY <1>1
  <2>1. size * BYTE <= (pos + n) * BYTE
    BY <1>1, MultiplesGrow
  <2>2. pos * BYTE + left < size * BYTE /\ pos * BYTE \in Nat /\ size * BYTE \in Nat
    BY <1>1, <1>3, Machine DEF Room, Here
  <2>3. (pos + n) * BYTE = pos * BYTE + n * BYTE /\ n * BYTE \in Nat /\ n * BYTE <= left
    BY <1>1, <1>4, <1>5
  <2> QED BY <1>1, <2>1, <2>2, <2>3
<1>7. Bytes \subseteq 0..(size - 1)
  BY <1>1, <1>5, <1>6 DEF Bytes
<1> QED BY <1>1, <1>3, <1>7

LEMMA NextInBlock ==
  ASSUME TypeOK, Room, StaysInBlock, [Next]_vars
  PROVE  StaysInBlock'
<1>1. CASE WriteOutside
  BY <1>1, NothingOutside DEF WriteOutside, StaysInBlock
<1>2. ASSUME NEW w \in Widths, NEW val, GenInteger(w, val) \/ GenDependency(w) PROVE StaysInBlock'
  BY <1>2 DEF GenInteger, GenDependency, NailOutStream_write, grow_ok, grow_fails, StaysInBlock, Going
<1>3. ASSUME NEW d \in deps, NEW val, FixUp(d, val) PROVE StaysInBlock'
  BY <1>3 DEF FixUp, NailOutStream_write, grow_ok, grow_fails, StaysInBlock, Going
<1>4. ASSUME NEW n \in Fragments, Append_generate(n) PROVE StaysInBlock'
  BY <1>4 DEF Append_generate, grow_ok, grow_fails, StaysInBlock, Going
<1>5. CASE PutByte \/ PutBit \/ Copy \/ CopyRefused \/ Written \/ ComesBack \/ UNCHANGED vars
  BY <1>5 DEF PutByte, PutBit, Copy, CopyRefused, Written, ComesBack, vars, StaysInBlock
<1> QED BY <1>1, <1>2, <1>3, <1>4, <1>5 DEF Next

LEMMA InitRoom == Init => Room /\ StaysInBlock
<1> SUFFICES ASSUME Init PROVE Room /\ StaysInBlock
  OBVIOUS
<1>1. BYTE \in Nat \ {0} /\ InitSize \in Nat \ {0} /\ InitSize * BYTE > 0
  BY OutStreamAssumption
<1>2. /\ size = InitSize /\ pos = 0 /\ bit = 0 /\ task = "none" /\ left = 0 /\ deps = {}
      /\ status = "ok"
  BY DEF Init
<1> QED BY <1>1, <1>2 DEF Room, Here, StaysInBlock

THEOREM OutputTyped == Spec => []TypeOK
  BY InitTypes, NextTypes, PTL DEF Spec

(* Nothing is written behind the block, as long as every transform hands    *)
(* grow the number of bits it asks for: the byte it adds to what it rounds  *)
(* down is enough for a field at any offset, a position to come back to and *)
(* a placeholder are still inside after the block has moved, and a block    *)
(* that could not be moved is as good as none.                             *)
THEOREM WritesStayInBlock == ASSUME AsksForBits PROVE Spec => []StaysInBlock
<1>1. Init => Room /\ StaysInBlock
  BY InitRoom
<1>2. TypeOK /\ (Room /\ StaysInBlock) /\ [Next]_vars => (Room /\ StaysInBlock)'
  BY NextRoom, NextInBlock
<1> QED BY <1>1, <1>2, OutputTyped, PTL DEF Spec

-----------------------------------------------------------------------------
(* Bit k of a field, counted from its low end, has this place in it.        *)
LEMMA BitOfField ==
  ASSUME TypeOK, NEW f \in fields, NEW k \in 0..(f.w - 1)
  PROVE  /\ f.at + f.w - 1 - k \in Nat
         /\ f.at <= f.at + f.w - 1 - k /\ f.at + f.w - 1 - k < f.at + f.w
  BY DEF TypeOK

(* A block that grows keeps its bits.                                       *)
LEMMA GrowKeepsBits ==
  ASSUME TypeOK, data # Null, NEW p \in Nat, NEW count \in Nat, grow_ok(p, count)
  PROVE  data' # Null /\ \A x \in Nat : x < size * BYTE => (BitSet(x)' <=> BitSet(x))
<1>1. /\ BYTE \in Nat \ {0} /\ size \in Nat /\ data' # Null
      /\ \A i \in 0..(size - 1) : data'[i] = data[i]
  BY Machine, Holds DEF TypeOK
<1>2. ASSUME NEW x \in Nat, x < size * BYTE PROVE BitSet(x)' <=> BitSet(x)
  <2>1. x \div BYTE \in 0..(size - 1)
    BY <1>1, <1>2, InBytes
  <2>2. data'[x \div BYTE] = data[x \div BYTE]
    BY <1>1, <2>1
  <2> QED BY <2>2 DEF BitSet
<1> QED BY <1>1, <1>2

(* Between two operations every field is complete.                          *)
LEMMA AtEnd ==
  ASSUME TypeOK, Good, task = "none"
  PROVE  /\ left = 0 /\ Here = end /\ end <= size * BYTE /\ data # Null
         /\ \A f \in fields : f.at + f.w <= end
         /\ \A f \in fields : \A k \in 0..(f.w - 1) :
              BitSet(f.at + f.w - 1 - k) <=> k \in f.val
<1>1. left = 0 /\ Here \in Nat /\ Here = end /\ end <= size * BYTE /\ data # Null
  BY Machine DEF TypeOK, Good, EndInv, InBlock
<1>2. ASSUME NEW f \in fields, NEW k \in 0..(f.w - 1)
      PROVE  BitSet(f.at + f.w - 1 - k) <=> k \in f.val
  BY <1>1, BitOfField DEF Good, Memory
<1> QED BY <1>1, <1>2 DEF Good, Layout

(* An operation that puts its fields behind the end.                        *)
LEMMA BehindTheEnd ==
  ASSUME TypeOK, TypeOK', Good, task = "none", NEW count \in Nat, grow_ok(pos, count),
         Here' = Here, end' = end + left', task' \in {"write", "append"},
         NEW newf, NEW newd, fields' = fields \cup newf, deps' = deps \cup newd,
         \A x \in newf \cup newd : Here <= x.at /\ x.at + x.w <= Here + left',
         \A x, y \in newf \cup newd : SamePlaceAs(x, y) \/ Apart(x, y),
         \A f \in newf :
            \/ task' # "append" /\ f.at + f.w = Here + left' /\ f.val = value'
            \/ /\ task' = "append" /\ f.w = BYTE /\ f.val = {0}
               /\ \E i \in 0..left' : f.at = Here + i * BYTE,
         task' = "append" => left' % BYTE = 0
  PROVE  Good'
<1>1. /\ left = 0 /\ Here = end /\ end <= size * BYTE /\ data # Null
      /\ \A f \in fields : f.at + f.w <= end
      /\ \A f \in fields : \A k \in 0..(f.w - 1) :
           BitSet(f.at + f.w - 1 - k) <=> k \in f.val
  BY AtEnd
<1>2. PICK l \in Nat : l = left' /\ end' = end + l
  BY DEF TypeOK
<1>3. /\ end \in Nat /\ pos \in Nat /\ size * BYTE \in Nat /\ size' * BYTE \in Nat
      /\ size * BYTE <= size' * BYTE
  BY NewSize, Bigger DEF TypeOK
<1>4. data' # Null /\ \A x \in Nat : x < size * BYTE => (BitSet(x)' <=> BitSet(x))
  BY <1>1, <1>3, GrowKeepsBits
<1>5. InBlock'
  BY <1>1, <1>3, <1>4 DEF InBlock
<1>6. EndInv'
  BY <1>1, <1>2 DEF EndInv
<1>7. \A x \in fields \cup deps \cup newf \cup newd : x.at \in Nat /\ x.w \in Nat
  BY Machine DEF TypeOK
<1>8. Layout'
  <2>1. \A x \in fields \cup deps : x.at + x.w <= end
    BY DEF Good, Layout
  <2>2. ASSUME NEW x \in fields \cup deps, NEW y \in newf \cup newd PROVE x.at + x.w <= y.at
    BY <1>1, <1>3, <1>7, <2>1
  <2>3. ASSUME NEW x \in (fields \cup deps)' PROVE x.at + x.w <= end'
    <3>1. x \in fields \cup deps \/ x \in newf \cup newd
      OBVIOUS
    <3> QED BY <1>1, <1>2, <1>3, <1>7, <2>1, <3>1
  <2>4. ASSUME NEW x \in (fields \cup deps)', NEW y \in (fields \cup deps)'
        PROVE  SamePlaceAs(x, y) \/ Apart(x, y)
    <3>1. (x \in fields \cup deps \/ x \in newf \cup newd)
          /\ (y \in fields \cup deps \/ y \in newf \cup newd)
      OBVIOUS
    <3>2. CASE x \in fields \cup deps /\ y \in fields \cup deps
      BY <3>2 DEF Good, Layout
    <3>3. CASE x \in newf \cup newd /\ y \in newf \cup newd
      BY <3>3
    <3>4. CASE x \in fields \cup deps /\ y \in newf \cup newd
      BY <2>2, <3>4 DEF Apart
    <3>5. CASE x \in newf \cup newd /\ y \in fields \cup deps
      BY <2>2, <3>5 DEF Apart
    <3> QED BY <3>1, <3>2, <3>3, <3>4, <3>5
  <2> QED BY <2>3, <2>4 DEF Layout, SamePlaceAs, Apart
<1>9. Pending'
  <2>1. ASSUME NEW f \in fields PROVE Ahead(f)'
    BY <1>1 DEF Ahead
  <2> QED BY <2>1 DEF Pending
<1>10. Memory'
  <2>1. ASSUME NEW f \in fields', NEW k \in 0..(f.w - 1)
        PROVE  LET p == f.at + f.w - 1 - k
               IN \/ Here <= p /\ p < Here + l
                  \/ BitSet(p)' <=> k \in f.val
    <3>1. CASE f \in fields
      <4>1. f.at + f.w - 1 - k \in Nat /\ f.at + f.w - 1 - k < size * BYTE
        BY <1>1, <1>3, <1>7, <3>1, BitOfField
      <4>2. BitSet(f.at + f.w - 1 - k)' <=> BitSet(f.at + f.w - 1 - k)
        BY <1>4, <4>1
      <4> QED BY <1>1, <3>1, <4>2
    <3>2. CASE f \in newf
      <4>1. f.at \in Nat /\ f.w \in Nat /\ Here <= f.at /\ f.at + f.w <= Here + l /\ Here \in Nat
        BY <1>1, <1>2, <1>3, <1>7, <3>2
      <4> QED BY <4>1
    <3> QED BY <3>1, <3>2
  <2> QED BY <1>2, <2>1 DEF Memory
<1> QED BY <1>5, <1>6, <1>8, <1>9, <1>10 DEF Good

LEMMA GenIntegerGood ==
  ASSUME TypeOK, TypeOK', Good, Sound', NEW w \in Widths, NEW val, GenInteger(w, val)
  PROVE  Good'
<1>1. w \in Nat \ {0} /\ w \in Nat /\ Here \in Nat
  BY Machine
<1>2. grow_ok(pos, w) /\ left' = w /\ value' = val /\ task' = "write" /\ task = "none"
  BY DEF GenInteger, NailOutStream_write, grow_fails, Sound, Going
<1> DEFINE F == [at |-> Here, w |-> w, val |-> val]
           newf == {F}
           newd == {}
<1>3. F.at = Here /\ F.w = w /\ F.val = val /\ \A x \in newf \cup newd : x = F
  OBVIOUS
<1>4. Here' = Here /\ end' = end + left' /\ fields' = fields \cup newf /\ deps' = deps \cup newd
  BY <1>2 DEF GenInteger, Here
<1> HIDE DEF F, newf, newd
<1>5. /\ \A x \in newf \cup newd : Here <= x.at /\ x.at + x.w <= Here + left'
      /\ \A x, y \in newf \cup newd : SamePlaceAs(x, y) \/ Apart(x, y)
  BY <1>1, <1>2, <1>3 DEF SamePlaceAs
<1>6. /\ \A f \in newf : task' # "append" /\ f.at + f.w = Here + left' /\ f.val = value'
      /\ task' \in {"write", "append"} /\ task' # "append"
  BY <1>2, <1>3
<1> QED BY <1>1, <1>2, <1>4, <1>5, <1>6, BehindTheEnd

LEMMA GenDependencyGood ==
  ASSUME TypeOK, TypeOK', Good, Sound', NEW w \in Widths, GenDependency(w)
  PROVE  Good'
<1>1. w \in Nat \ {0} /\ w \in Nat /\ Here \in Nat
  BY Machine
<1>2. grow_ok(pos, w) /\ left' = w /\ task' = "write" /\ task = "none"
  BY DEF GenDependency, NailOutStream_write, grow_fails, Sound, Going
<1> DEFINE D == [at |-> Here, w |-> w]
           newf == {}
           newd == {D}
<1>3. D.at = Here /\ D.w = w /\ \A x \in newf \cup newd : x = D
  OBVIOUS
<1>4. Here' = Here /\ end' = end + left' /\ fields' = fields \cup newf /\ deps' = deps \cup newd
  BY <1>2 DEF GenDependency, Here
<1>5. \A f \in newf : FALSE
  OBVIOUS
<1> HIDE DEF D, newf, newd
<1>6. /\ \A x \in newf \cup newd : Here <= x.at /\ x.at + x.w <= Here + left'
      /\ \A x, y \in newf \cup newd : SamePlaceAs(x, y) \/ Apart(x, y)
  BY <1>1, <1>2, <1>3 DEF SamePlaceAs
<1>7. task' \in {"write", "append"} /\ task' # "append"
  BY <1>2
<1> QED BY <1>1, <1>2, <1>4, <1>5, <1>6, <1>7, BehindTheEnd

LEMMA AppendGood ==
  ASSUME TypeOK, TypeOK', Good, Sound', NEW n \in Fragments, Append_generate(n)
  PROVE  Good'
<1>1. n \in Nat \ {0} /\ Here \in Nat /\ BYTE \in Nat \ {0} /\ BYTE * n \in Nat
  BY Machine
<1>2. PICK count \in Nat : grow_ok(pos, count)
  BY <1>1 DEF Append_generate, grow_fails, Sound
<1>3. left' = BYTE * n /\ task' = "append" /\ task = "none"
  BY DEF Append_generate, grow_fails, Sound, Going
<1> DEFINE F(i) == [at |-> Here + BYTE * i, w |-> BYTE, val |-> {0}]
           N == {F(i) : i \in 0..(n - 1)}
<1>4. Here' = Here /\ end' = end + left' /\ deps' = deps \cup {} /\ fields' = fields \cup N
  BY <1>3 DEF Append_generate, Here
<1>5. \A i : F(i).at = Here + BYTE * i /\ F(i).w = BYTE /\ F(i).val = {0}
  OBVIOUS
<1>6. \A x \in N : \E i \in 0..(n - 1) : x = F(i)
  OBVIOUS
<1> HIDE DEF F, N
<1>7. ASSUME NEW i \in 0..(n - 1) PROVE BYTE * i \in Nat /\ BYTE * i + BYTE <= BYTE * n
  <2>1. n * BYTE >= i * BYTE + BYTE
    BY <1>1, LessByOne
  <2> QED BY <1>1, <2>1
<1>8. ASSUME NEW x \in N PROVE Here <= x.at /\ x.at + x.w <= Here + left'
  <2>1. PICK i \in 0..(n - 1) : x = F(i)
    BY <1>6
  <2>2. PICK m \in Nat : m = BYTE * i /\ m + BYTE <= BYTE * n
    BY <1>7
  <2> QED BY <1>1, <1>3, <1>5, <2>1, <2>2
<1>9. ASSUME NEW x \in N, NEW y \in N PROVE SamePlaceAs(x, y) \/ Apart(x, y)
  <2>1. PICK i \in 0..(n - 1), j \in 0..(n - 1) : x = F(i) /\ y = F(j)
    BY <1>6
  <2>2. CASE i = j
    BY <2>1, <2>2 DEF SamePlaceAs
  <2>3. CASE i < j
    <3>1. j * BYTE >= i * BYTE + BYTE
      BY <1>1, <2>3, LessByOne
    <3> QED BY <1>1, <1>5, <2>1, <3>1 DEF Apart
  <2>4. CASE j < i
    <3>1. i * BYTE >= j * BYTE + BYTE
      BY <1>1, <2>4, LessByOne
    <3> QED BY <1>1, <1>5, <2>1, <3>1 DEF Apart
  <2> QED BY <2>2, <2>3, <2>4
<1>10. ASSUME NEW f \in N
       PROVE  \/ task' # "append" /\ f.at + f.w = Here + left' /\ f.val = value'
              \/ /\ task' = "append" /\ f.w = BYTE /\ f.val = {0}
                 /\ \E i \in 0..left' : f.at = Here + i * BYTE
  <2>1. PICK i \in 0..(n - 1) : f = F(i)
    BY <1>6
  <2>2. PICK m \in Nat : m = BYTE * n
    BY <1>1
  <2>3. n <= m
    BY <1>1, <2>2
  <2>4. i \in 0..m
    BY <1>1, <2>3
  <2>5. f.at = Here + i * BYTE
    BY <1>1, <1>5, <2>1
  <2> QED BY <1>3, <1>5, <2>1, <2>2, <2>4, <2>5
<1>11. left' % BYTE = 0
  <2>1. (n * BYTE + 0) % BYTE = 0
    BY <1>1, PlaceOf
  <2>2. n * BYTE + 0 = BYTE * n
    BY <1>1
  <2> QED BY <1>3, <2>1, <2>2
<1>12. /\ \A x \in N \cup {} : Here <= x.at /\ x.at + x.w <= Here + left'
       /\ \A x, y \in N \cup {} : SamePlaceAs(x, y) \/ Apart(x, y)
       /\ task' \in {"write", "append"}
  BY <1>3, <1>8, <1>9
<1> QED BY <1>2, <1>3, <1>4, <1>10, <1>11, <1>12, BehindTheEnd

LEMMA FixUpGood ==
  ASSUME TypeOK, TypeOK', Good, Sound', NEW d \in deps, NEW val, FixUp(d, val)
  PROVE  Good'
<1>1. d.at \in Nat /\ d.w \in Nat \ {0} /\ BYTE \in Nat \ {0} /\ Here \in Nat
  BY Machine DEF TypeOK
<1>2. grow_ok(d.at \div BYTE, d.w) /\ left' = d.w /\ value' = val /\ task' = "fixup" /\ task = "none"
  BY DEF FixUp, NailOutStream_write, grow_fails, Sound, Going
<1>3. Here' = d.at
  BY <1>1, RepositionTypes DEF FixUp, Here
<1>4. /\ left = 0 /\ Here = end /\ end <= size * BYTE /\ data # Null
      /\ \A f \in fields : f.at + f.w <= end
      /\ \A f \in fields : \A k \in 0..(f.w - 1) :
           BitSet(f.at + f.w - 1 - k) <=> k \in f.val
  BY <1>2, AtEnd
<1>5. d.at \div BYTE \in Nat
  BY <1>1, WholeAndRest, Zenon
<1>6. /\ end \in Nat /\ size * BYTE \in Nat /\ size' * BYTE \in Nat /\ size * BYTE <= size' * BYTE
  BY <1>1, <1>2, <1>5, NewSize, Bigger DEF TypeOK
<1>7. data' # Null /\ \A x \in Nat : x < size * BYTE => (BitSet(x)' <=> BitSet(x))
  BY <1>1, <1>2, <1>4, <1>5, GrowKeepsBits
<1>8. d.at + d.w <= end
  BY DEF Good, Layout
<1>9. home' = Here /\ deps' = deps /\ end' = end
  BY DEF FixUp
<1>10. InBlock'
  BY <1>1, <1>3, <1>4, <1>6, <1>7, <1>8, <1>9 DEF InBlock
<1>11. EndInv'
  BY <1>2, <1>4, <1>9 DEF EndInv
<1> DEFINE F == [at |-> d.at, w |-> d.w, val |-> val]
<1>12. F.at = d.at /\ F.w = d.w /\ F.val = val
  OBVIOUS
<1>13. \A f \in fields' : f = F \/ (f \in fields /\ f.at # d.at)
  BY DEF FixUp
<1> HIDE DEF F
<1>14. \A x \in (fields \cup deps)' :
         \E y \in fields \cup deps : SamePlaceAs(x, y)
  BY <1>9, <1>12, <1>13 DEF SamePlaceAs
<1>15. Layout'
  <2>1. ASSUME NEW x \in (fields \cup deps)' PROVE x.at + x.w <= end'
    <3>1. PICK y \in fields \cup deps : SamePlaceAs(x, y)
      BY <1>14
    <3> QED BY <1>9, <3>1 DEF Good, Layout, SamePlaceAs
  <2>2. ASSUME NEW x \in (fields \cup deps)', NEW y \in (fields \cup deps)'
        PROVE  SamePlaceAs(x, y) \/ Apart(x, y)
    <3>1. PICK a \in fields \cup deps, b \in fields \cup deps : SamePlaceAs(x, a) /\ SamePlaceAs(y, b)
      BY <1>14
    <3>2. SamePlaceAs(a, b) \/ Apart(a, b)
      BY DEF Good, Layout
    <3> QED BY <3>1, <3>2 DEF SamePlaceAs, Apart
  <2> QED BY <2>1, <2>2 DEF Layout, SamePlaceAs, Apart
<1>16. Pending'
  <2>1. ASSUME NEW f \in fields, f.at # d.at PROVE Ahead(f)'
    <3>1. Apart(f, d)
      BY <2>1 DEF Good, Layout, SamePlaceAs
    <3> QED BY <1>2, <1>3, <3>1 DEF Apart, Ahead
  <2>2. F.at + F.w = Here' + left' /\ F.val = value'
    BY <1>2, <1>3, <1>12
  <2>3. ASSUME NEW f \in fields'
        PROVE  Ahead(f)' \/ (task' # "append" /\ f.at + f.w = Here' + left' /\ f.val = value')
    BY <1>2, <1>13, <2>1, <2>2
  <2> QED BY <2>3 DEF Pending
<1>17. Memory'
  <2>1. ASSUME NEW f \in fields', NEW k \in 0..(f.w - 1)
        PROVE  LET p == f.at + f.w - 1 - k
               IN \/ d.at <= p /\ p < d.at + d.w
                  \/ BitSet(p)' <=> k \in f.val
    <3>1. CASE f \in fields
      <4>1. f.at + f.w - 1 - k \in Nat /\ f.at + f.w - 1 - k < size * BYTE
        <5>1. f.at \in Nat /\ f.w \in Nat /\ f.at + f.w <= end
          BY <1>4, <3>1 DEF TypeOK
        <5> QED BY <1>4, <1>6, <5>1
      <4>2. BitSet(f.at + f.w - 1 - k)' <=> BitSet(f.at + f.w - 1 - k)
        BY <1>7, <4>1
      <4> QED BY <1>4, <3>1, <4>2
    <3>2. CASE f = F
      BY <1>1, <1>12, <3>2
    <3> QED BY <1>13, <3>1, <3>2
  <2> QED BY <1>2, <1>3, <2>1 DEF Memory
<1> QED BY <1>10, <1>11, <1>15, <1>16, <1>17 DEF Good

-----------------------------------------------------------------------------
(* A turn that writes the next n bits of a number, and no others.           *)
LEMMA TurnGood ==
  ASSUME TypeOK, TypeOK', Good, task \in {"write", "fixup"},
         UNCHANGED <<task, value, home, fields, deps, end, size>>,
         NEW n \in Nat \ {0}, n <= left, Here' = Here + n, left' = left - n,
         data' # Null, Here + n <= size * BYTE,
         \A x \in Nat : x < size * BYTE /\ ~(Here <= x /\ x < Here + n) => (BitSet(x)' <=> BitSet(x)),
         \A x \in Nat : Here <= x /\ x < Here + n => (BitSet(x)' <=> Here + left - 1 - x \in value)
  PROVE  Good'
<1>1. Here \in Nat /\ left \in Nat /\ left > 0 /\ end \in Nat /\ home \in Nat /\ size * BYTE \in Nat
  BY Machine DEF TypeOK
<1>2. Here' + left' = Here + left /\ left' \in Nat
  BY <1>1
<1>3. InBlock'
  BY <1>1 DEF Good, InBlock
<1>4. EndInv'
  <2>1. IF task = "fixup" THEN home = end ELSE Here + left = end
    BY DEF Good, EndInv
  <2> QED BY <1>2, <2>1 DEF EndInv
<1>5. Layout'
  BY DEF Good, Layout, SamePlaceAs, Apart
<1>6. \A f \in fields : Ahead(f) \/ (f.at + f.w = Here + left /\ f.val = value)
  BY <1>1 DEF Good, Pending
<1>7. Pending'
  <2>1. ASSUME NEW f \in fields, Ahead(f) PROVE Ahead(f)'
    <3>1. f.at \in Nat /\ f.w \in Nat
      BY DEF TypeOK
    <3>2. f.at + f.w <= Here \/ Here + left <= f.at
      BY <2>1 DEF Ahead
    <3>3. f.at + f.w <= Here + n \/ Here + left <= f.at
      BY <1>1, <3>1, <3>2
    <3> QED BY <1>2, <3>3 DEF Ahead
  <2>2. ASSUME NEW f \in fields
        PROVE  Ahead(f)' \/ (task' # "append" /\ f.at + f.w = Here' + left' /\ f.val = value')
    BY <1>2, <1>6, <2>1
  <2> QED BY <2>2 DEF Pending
<1>8. ASSUME NEW f \in fields, NEW k \in 0..(f.w - 1)
      PROVE  LET p == f.at + f.w - 1 - k
             IN \/ Here + n <= p /\ p < Here + left
                \/ BitSet(p)' <=> k \in f.val
  <2>1. PICK p \in Nat : p = f.at + f.w - 1 - k /\ f.at <= p /\ p < f.at + f.w
    BY BitOfField
  <2>2. f.at \in Nat /\ f.w \in Nat
    BY DEF TypeOK
  <2>3. CASE Here <= p /\ p < Here + n
    <3>1. ~Ahead(f)
      BY <1>1, <2>1, <2>2, <2>3 DEF Ahead
    <3>2. f.at + f.w = Here + left /\ f.val = value
      BY <1>6, <3>1
    <3>3. Here + left - 1 - p = k
      BY <1>1, <2>1, <2>2, <3>2
    <3>4. BitSet(p)' <=> Here + left - 1 - p \in value
      BY <2>3
    <3> QED BY <2>1, <3>2, <3>3, <3>4
  <2>4. CASE Here + n <= p /\ p < Here + left
    BY <2>1, <2>4
  <2>5. CASE ~(Here <= p /\ p < Here + left)
    <3>1. BitSet(p) <=> k \in f.val
      BY <2>1, <2>5 DEF Good, Memory
    <3>2. p < size * BYTE
      <4>1. f.at + f.w <= end
        BY DEF Good, Layout
      <4>2. p < end
        BY <1>1, <2>1, <2>2, <4>1
      <4>3. end <= size * BYTE \/ (task = "write" /\ Here + left = end /\ Here <= size * BYTE)
        BY <1>1 DEF Good, EndInv, InBlock
      <4> QED BY <1>1, <2>5, <4>2, <4>3
    <3>3. ~(Here <= p /\ p < Here + n)
      BY <1>1, <2>5
    <3>4. BitSet(p)' <=> BitSet(p)
      BY <3>2, <3>3
    <3> QED BY <2>1, <3>1, <3>4
  <2> QED BY <1>1, <2>3, <2>4, <2>5
<1>9. Memory'
  BY <1>2, <1>8 DEF Memory
<1> QED BY <1>3, <1>4, <1>5, <1>7, <1>9 DEF Good

(* What is written at byte pos changes the bits of that byte only.          *)
LEMMA OtherBytes ==
  ASSUME TypeOK, pos \in DOMAIN data, NEW byte, data' = [data EXCEPT ![pos] = byte]
  PROVE  /\ data' # Null /\ pos + 1 <= size /\ (pos + 1) * BYTE <= size * BYTE
         /\ data'[pos] = byte
         /\ \A x \in Nat : x < size * BYTE /\ x \div BYTE # pos => (BitSet(x)' <=> BitSet(x))
<1>1. data \in [0..(size - 1) -> SUBSET (0..(BYTE - 1))] /\ pos \in 0..(size - 1)
      /\ size \in Nat /\ BYTE \in Nat \ {0} /\ pos \in Nat
  BY NoBytes, Machine DEF TypeOK
<1>2. DOMAIN data' = 0..(size - 1)
  BY <1>1
<1>3. data' # Null
  BY <1>1, <1>2, NoBytes
<1>4. ASSUME NEW x \in Nat, x < size * BYTE, x \div BYTE # pos PROVE BitSet(x)' <=> BitSet(x)
  <2>1. x \div BYTE \in 0..(size - 1)
    BY <1>1, <1>4, InBytes
  <2>2. data'[x \div BYTE] = data[x \div BYTE]
    BY <1>1, <1>4, <2>1
  <2> QED BY <2>2 DEF BitSet
<1>5. pos + 1 \in Nat /\ pos + 1 <= size
  BY <1>1
<1> QED BY <1>1, <1>3, <1>4, <1>5, MultiplesGrow

LEMMA PutByteGood ==
  ASSUME TypeOK, TypeOK', Good, PutByte
  PROVE  Good'
<1>1. /\ Here' = Here + BYTE /\ left' = left - BYTE /\ left >= BYTE
      /\ Here = pos * BYTE /\ BYTE \in Nat \ {0} /\ left \in Nat /\ pos \in Nat
  BY PutByteTurn
<1> DEFINE byte == {k \in 0..(BYTE - 1) : k + left - BYTE \in value}
<1>2. data' = [data EXCEPT ![pos] = byte] /\ pos \in DOMAIN data
  BY DEF PutByte
<1> HIDE DEF byte
<1>3. /\ data' # Null /\ (pos + 1) * BYTE <= size * BYTE /\ data'[pos] = byte
      /\ \A x \in Nat : x < size * BYTE /\ x \div BYTE # pos => (BitSet(x)' <=> BitSet(x))
  BY <1>2, OtherBytes
<1>4. Here + BYTE <= size * BYTE
  BY <1>1, <1>3
<1>5. ASSUME NEW x \in Nat, x < size * BYTE, ~(Here <= x /\ x < Here + BYTE)
      PROVE  BitSet(x)' <=> BitSet(x)
  <2>1. x \div BYTE \in Nat /\ x % BYTE \in 0..(BYTE - 1) /\ x = (x \div BYTE) * BYTE + (x % BYTE)
    BY <1>1, WholeAndRest, Zenon
  <2>2. x \div BYTE # pos
    BY <1>1, <1>5, <2>1
  <2> QED BY <1>3, <1>5, <2>2
<1>6. ASSUME NEW x \in Nat, Here <= x, x < Here + BYTE
      PROVE  BitSet(x)' <=> Here + left - 1 - x \in value
  <2>1. PICK r \in 0..(BYTE - 1) : x = pos * BYTE + r
    <3>1. x - pos * BYTE \in 0..(BYTE - 1) /\ x = pos * BYTE + (x - pos * BYTE)
      BY <1>1, <1>6
    <3> QED BY <3>1
  <2>2. x \div BYTE = pos /\ x % BYTE = r
    BY <1>1, <2>1, PlaceOf
  <2>3. BitSet(x)' <=> BYTE - 1 - r \in byte
    BY <1>3, <2>2 DEF BitSet
  <2>4. BYTE - 1 - r \in 0..(BYTE - 1) /\ (BYTE - 1 - r) + left - BYTE = Here + left - 1 - x
    BY <1>1, <2>1
  <2> QED BY <2>3, <2>4 DEF byte
<1>7. UNCHANGED <<task, value, home, fields, deps, end, size>> /\ task \in {"write", "fixup"}
  BY DEF PutByte, ghosts, Writing
<1> QED BY <1>1, <1>3, <1>4, <1>5, <1>6, <1>7, TurnGood

LEMMA PutBitGood ==
  ASSUME TypeOK, TypeOK', Good, PutBit
  PROVE  Good'
<1>1. /\ Here' = Here + 1 /\ left' = left - 1 /\ left >= 1 /\ left \in Nat
  BY PutBitTurn
<1>2. /\ BYTE \in Nat \ {0} /\ pos \in Nat /\ bit \in 0..(BYTE - 1) /\ Here = pos * BYTE + bit
  BY Machine DEF TypeOK, Here
<1> DEFINE byte == Put(data[pos], BYTE - 1 - bit, left - 1 \in value)
<1>3. data' = [data EXCEPT ![pos] = byte] /\ pos \in DOMAIN data
  BY DEF PutBit
<1>4. \A i : i # BYTE - 1 - bit => (i \in byte <=> i \in data[pos])
  BY DEF Put
<1>5. BYTE - 1 - bit \in byte <=> left - 1 \in value
  BY DEF Put
<1> HIDE DEF byte
<1>6. /\ data' # Null /\ (pos + 1) * BYTE <= size * BYTE /\ data'[pos] = byte
      /\ \A x \in Nat : x < size * BYTE /\ x \div BYTE # pos => (BitSet(x)' <=> BitSet(x))
  BY <1>3, OtherBytes
<1>7. Here + 1 <= size * BYTE
  <2>1. size * BYTE \in Nat
    BY Machine
  <2> QED BY <1>2, <1>6, <2>1
<1>8. ASSUME NEW x \in Nat, x < size * BYTE, ~(Here <= x /\ x < Here + 1)
      PROVE  BitSet(x)' <=> BitSet(x)
  <2>1. x \div BYTE \in Nat /\ x % BYTE \in 0..(BYTE - 1) /\ x = (x \div BYTE) * BYTE + (x % BYTE)
    BY <1>2, WholeAndRest, Zenon
  <2>2. CASE x \div BYTE # pos
    BY <1>6, <1>8, <2>2
  <2>3. CASE x \div BYTE = pos
    <3>1. x % BYTE # bit
      BY <1>2, <1>8, <2>1, <2>3
    <3>2. BYTE - 1 - (x % BYTE) # BYTE - 1 - bit
      BY <1>2, <2>1, <3>1
    <3> QED BY <1>4, <1>6, <2>3, <3>2 DEF BitSet
  <2> QED BY <2>2, <2>3
<1>9. ASSUME NEW x \in Nat, Here <= x, x < Here + 1
      PROVE  BitSet(x)' <=> Here + left - 1 - x \in value
  <2>1. x = pos * BYTE + bit
    BY <1>2, <1>9
  <2>2. x \div BYTE = pos /\ x % BYTE = bit
    BY <1>2, <2>1, PlaceOf
  <2>3. Here + left - 1 - x = left - 1
    BY <1>1, <1>2, <2>1
  <2> QED BY <1>5, <1>6, <2>2, <2>3 DEF BitSet
<1>10. UNCHANGED <<task, value, home, fields, deps, end, size>> /\ task \in {"write", "fixup"}
  BY DEF PutBit, ghosts, Writing
<1> QED BY <1>1, <1>6, <1>7, <1>8, <1>9, <1>10, TurnGood

(* The fragment is copied: whole bytes, and all that was to be written.     *)
LEMMA CopyGood ==
  ASSUME TypeOK, TypeOK', Good, Copy
  PROVE  Good'
<1>1. /\ BYTE \in Nat \ {0} /\ pos \in Nat /\ left \in Nat /\ size \in Nat /\ Here \in Nat
      /\ size * BYTE \in Nat
  BY Machine DEF TypeOK
<1>2. PICK n \in Nat : n = left \div BYTE
  BY CopyTurn
<1>3. /\ Here' = Here + left /\ left' = 0 /\ Here = pos * BYTE /\ left = n * BYTE
      /\ Here + left = (pos + n) * BYTE
  <2>1. left % BYTE = 0
    BY DEF Good, EndInv, Copy, Copying
  <2>2. /\ Here' = Here + n * BYTE /\ left' = 0 /\ Here = pos * BYTE
        /\ left = n * BYTE + (left % BYTE)
    BY <1>2, CopyTurn, Zenon
  <2> QED BY <1>1, <2>1, <2>2
<1>4. /\ Bytes = pos..(pos + n - 1) /\ Bytes \subseteq DOMAIN data
      /\ data' = [i \in DOMAIN data |-> IF i \in Bytes THEN {0} ELSE data[i]]
  BY <1>2 DEF Copy, Bytes
<1>5. data \in [0..(size - 1) -> SUBSET (0..(BYTE - 1))] /\ data # Null
  BY DEF Good, InBlock, TypeOK
<1>6. data' # Null
  <2> SUFFICES ASSUME data' = Null PROVE FALSE
    OBVIOUS
  <2>1. DOMAIN data' = DOMAIN data
    BY <1>4
  <2>2. DOMAIN data = {}
    BY <2>1, NoBytes
  <2> QED BY <1>5, <2>2 DEF Null
<1>7. Here + left <= size * BYTE
  <2>1. CASE n = 0
    BY <1>1, <1>3, <2>1 DEF Good, InBlock
  <2>2. CASE n > 0
    <3>1. pos + n - 1 \in 0..(size - 1)
      <4>1. pos + n - 1 \in pos..(pos + n - 1)
        BY <1>1, <1>2, <2>2
      <4>2. pos + n - 1 \in DOMAIN data /\ DOMAIN data = 0..(size - 1)
        BY <1>4, <1>5, <4>1
      <4> QED BY <4>2
    <3>2. pos + n \in Nat /\ pos + n <= size
      BY <1>1, <3>1
    <3> QED BY <1>1, <1>3, <3>2, MultiplesGrow
  <2> QED BY <1>2, <2>1, <2>2
<1>8. task = "append" /\ task' = "none" /\ UNCHANGED <<size, home, fields, deps, end>>
  BY DEF Copy, Copying, ghosts
<1>9. InBlock'
  BY <1>3, <1>6, <1>7, <1>8 DEF InBlock
<1>10. EndInv'
  <2>1. Here' + left' = Here + left
    BY <1>1, <1>3
  <2> QED BY <1>8, <2>1 DEF Good, EndInv
<1>11. Layout'
  BY <1>8 DEF Good, Layout, SamePlaceAs, Apart
<1>12. Pending'
  BY <1>3 DEF Pending
<1>13. ASSUME NEW f \in fields, NEW k \in 0..(f.w - 1)
       PROVE  BitSet(f.at + f.w - 1 - k)' <=> k \in f.val
  <2>1. PICK p \in Nat : p = f.at + f.w - 1 - k /\ f.at <= p /\ p < f.at + f.w
    BY BitOfField
  <2>2. f.at \in Nat /\ f.w \in Nat /\ f.at + f.w <= Here + left
    BY <1>8 DEF TypeOK, Good, Layout, EndInv
  <2>3. p \div BYTE \in 0..(size - 1)
    <3>1. p < size * BYTE
      BY <1>1, <1>7, <2>1, <2>2
    <3> QED BY <1>1, <3>1, InBytes
  <2>4. p \div BYTE \in Nat /\ p % BYTE \in 0..(BYTE - 1) /\ p = (p \div BYTE) * BYTE + (p % BYTE)
    BY <1>1, WholeAndRest, Zenon
  <2>5. CASE Here <= p
    <3>1. p < Here + left /\ ~Ahead(f) /\ left > 0
      BY <1>1, <2>1, <2>2, <2>5 DEF Ahead
    <3>2. f.w = BYTE /\ f.val = {0} /\ \E i \in 0..left : f.at = Here + i * BYTE
      BY <1>8, <3>1 DEF Good, Pending
    <3>3. PICK i \in Nat : f.at = Here + i * BYTE
      BY <1>1, <3>2
    <3>4. p = (pos + i) * BYTE + (BYTE - 1 - k) /\ BYTE - 1 - k \in 0..(BYTE - 1)
      BY <1>1, <1>3, <2>1, <3>2, <3>3
    <3>5. p \div BYTE = pos + i /\ p % BYTE = BYTE - 1 - k
      <4>1. pos + i \in Int
        BY <1>1
      <4> QED BY <1>1, <3>4, <4>1, PlaceOf
    <3>6. pos + i < pos + n
      <4> SUFFICES ASSUME n <= i PROVE FALSE
        BY <1>1
      <4>1. n * BYTE <= i * BYTE /\ n * BYTE \in Nat /\ i * BYTE \in Nat
        BY <1>1, MultiplesGrow
      <4> QED BY <1>1, <1>3, <2>1, <2>2, <3>1, <3>3, <4>1
    <3>7. p \div BYTE \in Bytes /\ p \div BYTE \in DOMAIN data
      BY <1>1, <1>4, <1>5, <2>3, <3>5, <3>6
    <3>8. data'[p \div BYTE] = {0}
      BY <1>4, <3>7
    <3>9. BYTE - 1 - (p % BYTE) = k
      BY <1>1, <3>2, <3>5
    <3> QED BY <2>1, <3>2, <3>8, <3>9 DEF BitSet
  <2>6. CASE p < Here
    <3>1. p \div BYTE < pos
      <4> SUFFICES ASSUME pos <= p \div BYTE PROVE FALSE
        BY <1>1, <2>4
      <4>1. pos * BYTE <= (p \div BYTE) * BYTE /\ (p \div BYTE) * BYTE \in Nat
        BY <1>1, <2>4, MultiplesGrow
      <4> QED BY <1>1, <1>3, <2>4, <2>6, <4>1
    <3>2. p \div BYTE \notin Bytes
      BY <1>1, <1>4, <2>4, <3>1
    <3>3. data'[p \div BYTE] = data[p \div BYTE]
      BY <1>4, <1>5, <2>3, <3>2
    <3>4. BitSet(p) <=> k \in f.val
      BY <1>1, <2>1, <2>6 DEF Good, Memory
    <3> QED BY <2>1, <3>3, <3>4 DEF BitSet
  <2> QED BY <1>1, <2>5, <2>6
<1>14. Memory'
  BY <1>8, <1>13 DEF Memory
<1> QED BY <1>9, <1>10, <1>11, <1>12, <1>14 DEF Good

(* All bits of an integer or a placeholder are written.                     *)
LEMMA WrittenGood ==
  ASSUME TypeOK, Good, Written
  PROVE  Good'
<1>1. /\ task = "write" /\ task' = "none" /\ left = 0 /\ Here' = Here
      /\ UNCHANGED <<data, size, left, value, home, fields, deps, end>>
  BY DEF Written, Ended, ghosts, Here
<1>2. InBlock' /\ EndInv' /\ Layout'
  BY <1>1 DEF Good, InBlock, EndInv, Layout, SamePlaceAs, Apart
<1>3. Pending'
  BY <1>1 DEF Pending
<1>4. Memory'
  BY <1>1 DEF Good, Memory, BitSet
<1> QED BY <1>2, <1>3, <1>4 DEF Good

(* A placeholder is filled in, and the stream is back where it was.         *)
LEMMA ComesBackGood ==
  ASSUME TypeOK, Good, ComesBack
  PROVE  Good'
<1>1. /\ task = "fixup" /\ task' = "none" /\ left = 0 /\ left' = 0
      /\ UNCHANGED <<data, size, value, home, fields, deps, end>>
  BY DEF ComesBack, Ended, ghosts
<1>2. Here' = home /\ home = end /\ home <= size * BYTE /\ home \in Nat
  BY <1>1, RepositionTypes DEF ComesBack, Here, TypeOK, Good, EndInv, InBlock
<1>3. InBlock' /\ EndInv' /\ Layout'
  BY <1>1, <1>2 DEF Good, InBlock, EndInv, Layout, SamePlaceAs, Apart
<1>4. Pending'
  BY <1>1 DEF Pending
<1>5. ASSUME NEW f \in fields, NEW k \in 0..(f.w - 1)
      PROVE  BitSet(f.at + f.w - 1 - k) <=> k \in f.val
  <2>1. ~(Here <= f.at + f.w - 1 - k /\ f.at + f.w - 1 - k < Here + left)
    BY <1>1, Machine, BitOfField
  <2> QED BY <2>1 DEF Good, Memory
<1>6. Memory'
  BY <1>1, <1>5 DEF Memory, BitSet
<1> QED BY <1>3, <1>4, <1>6 DEF Good

LEMMA InitGood == Init => Good
<1> SUFFICES ASSUME Init PROVE Good
  OBVIOUS
<1>1. BYTE \in Nat \ {0} /\ InitSize \in Nat \ {0} /\ InitSize * BYTE \in Nat /\ 0 * BYTE + 0 = 0
  BY OutStreamAssumption
<1>2. /\ size = InitSize /\ pos = 0 /\ bit = 0 /\ task = "none" /\ left = 0 /\ deps = {}
      /\ fields = {} /\ end = 0
  BY DEF Init
<1>3. data # Null
  <2>1. DOMAIN data = 0..(InitSize - 1)
    BY DEF Init
  <2>2. 0 \in DOMAIN data
    BY <1>1, <2>1
  <2> QED BY <2>2, NoBytes
<1> QED BY <1>1, <1>2, <1>3 DEF Good, InBlock, EndInv, Layout, Pending, Memory, Here

(* What has gone wrong stays wrong.                                         *)
LEMMA SoundBefore == [Next]_vars /\ Sound' => Sound
<1> SUFFICES ASSUME [Next]_vars, Sound' PROVE Sound
  OBVIOUS
<1>1. ASSUME NEW w \in Widths, NEW val, GenInteger(w, val) \/ GenDependency(w) PROVE Sound
  BY <1>1 DEF GenInteger, GenDependency, NailOutStream_write, grow_ok, grow_fails, Sound
<1>2. ASSUME NEW d \in deps, NEW val, FixUp(d, val) PROVE Sound
  BY <1>2 DEF FixUp, NailOutStream_write, grow_ok, grow_fails, Sound
<1>3. ASSUME NEW n \in Fragments, Append_generate(n) PROVE Sound
  BY <1>3 DEF Append_generate, grow_ok, grow_fails, Sound
<1>4. CASE PutByte \/ PutBit \/ Copy \/ Written \/ ComesBack \/ UNCHANGED vars
  BY <1>4 DEF PutByte, PutBit, Copy, Written, ComesBack, vars, Sound
<1>5. CASE CopyRefused \/ WriteOutside
  BY <1>5 DEF CopyRefused, WriteOutside, Sound
<1> QED BY <1>1, <1>2, <1>3, <1>4, <1>5 DEF Next

LEMMA NextGood == TypeOK /\ (Sound => Good) /\ [Next]_vars => (Sound => Good)'
<1> SUFFICES ASSUME TypeOK, Sound => Good, [Next]_vars, Sound' PROVE Good'
  OBVIOUS
<1>1. TypeOK' /\ Good
  BY NextTypes, SoundBefore
<1>2. CASE UNCHANGED vars
  BY <1>1, <1>2 DEF vars, ghosts, Good, InBlock, EndInv, Layout, SamePlaceAs, Apart, Pending, Ahead,
                    Memory, BitSet, Here
<1>3. ASSUME CopyRefused \/ WriteOutside PROVE FALSE
  BY <1>3 DEF CopyRefused, WriteOutside, Sound
<1> QED BY <1>1, <1>2, <1>3, GenIntegerGood, GenDependencyGood, FixUpGood, AppendGood, PutByteGood,
           PutBitGood, CopyGood, WrittenGood, ComesBackGood DEF Next

LEMMA OutputGood == Spec => [](Sound => Good)
<1>1. Init => (Sound => Good)
  BY InitGood
<1> QED BY <1>1, NextGood, OutputTyped, PTL DEF Spec

(* Parsing the output finds every field the generator was asked for: no     *)
(* field is ever written where another is, growing the block keeps what is  *)
(* in it, and writing a bit, a byte or a placeholder leaves the others.     *)
THEOREM FieldsReadBack == Spec => []RoundTrip
<1>1. TypeOK /\ (Sound => Good) => RoundTrip
  <2> SUFFICES ASSUME TypeOK, Good, task = "none", NEW f \in fields
               PROVE  FieldOf(LAMBDA i : data[i], FALSE, f.at, f.w) = f.val
    BY DEF RoundTrip, Intact, Sound
  <2>1. \A k \in 0..(f.w - 1) : BitSet(f.at + f.w - 1 - k) <=> k \in f.val
    BY AtEnd
  <2>2. f.val \subseteq 0..(f.w - 1)
    BY DEF TypeOK
  <2>3. FieldOf(LAMBDA i : data[i], FALSE, f.at, f.w)
          = {k \in 0..(f.w - 1) : BitSet(f.at + f.w - 1 - k)}
    BY DEF FieldOf, BitSet
  <2> QED BY <2>1, <2>2, <2>3
<1> QED BY <1>1, OutputTyped, OutputGood, PTL

(* Filling in a dependency never moves the end of the output: the stream    *)
(* comes back to where it was, bit for bit.                                *)
THEOREM FixUpsComeBack == Spec => []EndIsKept
<1>1. TypeOK /\ (Sound => Good) => EndIsKept
  BY AtEnd DEF EndIsKept, Intact, Sound
<1> QED BY <1>1, OutputTyped, OutputGood, PTL
=============================================================================
