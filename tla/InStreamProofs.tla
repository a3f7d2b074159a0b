--------------------------- MODULE InStreamProofs --------------------------
(***************************************************************************)
(* For bytes, ints and words of any width, streams of any length, integers  *)
(* of any width and at any offset in a byte, in either byte order: what the *)
(* streams of InStream.tla read, where they are afterwards, and where       *)
(* backtracking takes them.                                                *)
(***************************************************************************)
EXTENDS InStream, Arithmetic

TypeOK ==
  /\ reader \in Readers /\ data \in Inputs
  /\ pos \in Nat /\ bit \in 0..(BYTE - 1)
  /\ want \in Nat /\ done \in Nat /\ retval \in SUBSET Nat /\ over \in BOOLEAN
  /\ rpos \in Nat /\ rbit \in 0..(BYTE - 1)
  /\ IF InC THEN back.p \in Nat ELSE back.p \in Nat \X (0..(BYTE - 1))

(* Half way through an integer: the loop is as many bits ahead of the stream *)
(* as it has placed, and has used a byte past the end only if it is there.   *)
LoopInv ==
  ~Idle =>
    /\ want \in reader.widths /\ done <= want
    /\ WithinBound /\ Checks(want)
    /\ rpos * BYTE + rbit = Here + done
    /\ over => Here + done > size * BYTE

Moved ==
  /\ last.op \in {"read", "skip"} => Here = last.from + last.w
  /\ last.op = "mismatch" => Here = last.from

MoveInv == TypeOK /\ LoopInv /\ Moved /\ StaysInMemStream

-----------------------------------------------------------------------------
LEMMA Machine ==
  ASSUME TypeOK
  PROVE  /\ BYTE \in Nat \ {0} /\ INT \in Nat \ {0} /\ LONG \in Nat \ {0} /\ 2^SIZE \in Nat \ {0}
         /\ BYTE < INT /\ INT < LONG /\ Beyond \in Nat
         /\ reader.class \in {"NailStream", "NailMemStream"}
         /\ reader.little \in BOOLEAN
         /\ reader.widths \subseteq 1..LONG
         /\ data \in Seq(SUBSET (0..(BYTE - 1))) /\ size \in Nat
         /\ Here \in Nat
  BY MachineAssumption DEF TypeOK, size, Here

LEMMA BytesAreBits ==
  ASSUME TypeOK, NEW p \in Nat
  PROVE  ByteAt(p) \in SUBSET (0..(BYTE - 1))
<1>1. ~Over(p) => p + 1 \in 1..Len(data)
  BY Machine DEF Over, size
<1> QED BY <1>1, Machine DEF ByteAt

LEMMA ShiftedIsNat ==
  ASSUME TypeOK, NEW byte, NEW k
  PROVE  Shifted(byte, k) \in SUBSET Nat
  BY Machine DEF Shifted

LEMMA StreamKept ==
  ASSUME UNCHANGED stream
  PROVE  /\ Here' = Here /\ size' = size /\ InC' = InC /\ LittleEndian' = LittleEndian
         /\ WithinBound' = WithinBound
         /\ \A w : Checks(w)' = Checks(w)
         /\ \A p : Over(p)' = Over(p) /\ ByteAt(p)' = ByteAt(p)
  BY DEF stream, Here, size, InC, LittleEndian, WithinBound, Checks, stream_check, check, Over, ByteAt

-----------------------------------------------------------------------------
LEMMA InitMoves == Init => MoveInv
<1> SUFFICES ASSUME Init PROVE MoveInv
  OBVIOUS
<1>1. /\ BYTE \in Nat \ {0} /\ 2^SIZE \in Nat \ {0} /\ pos * BYTE + bit = 0
      /\ 0 \in 0..(BYTE - 1)
  BY MachineAssumption DEF Init
<1>2. stream_getpos = IF InC THEN 0 ELSE <<0, 0>>
  <2>1. (pos * BYTE + bit) % 2^SIZE = 0
    BY <1>1
  <2> QED BY <2>1 DEF Init, stream_getpos
<1>3. TypeOK
  BY <1>1, <1>2 DEF Init, TypeOK, InC
<1> QED BY <1>3 DEF Init, MoveInv, LoopInv, Idle, Moved, StaysInMemStream, StaysInStream, Nothing

LEMMA CheckFailsMoves == ASSUME NEW w PROVE MoveInv /\ CheckFails(w) => MoveInv'
<1> SUFFICES ASSUME MoveInv, CheckFails(w) PROVE MoveInv'
  OBVIOUS
<1> QED BY StreamKept DEF CheckFails, MoveInv, TypeOK, LoopInv, Idle, Moved, StaysInMemStream,
                          StaysInStream, Nothing, stream, locals, InC

LEMMA ReadStarts ==
  ASSUME NEW w \in reader.widths PROVE MoveInv /\ read_unsigned_bits(w) => MoveInv'
<1> SUFFICES ASSUME MoveInv, read_unsigned_bits(w) PROVE MoveInv'
  OBVIOUS
<1> USE DEF read_unsigned_bits
<1>1. TypeOK /\ w \in Nat
  BY Machine DEF MoveInv
<1>2. TypeOK'
  BY <1>1 DEF TypeOK, stream, InC
<1>3. LoopInv'
  BY <1>1, StreamKept, Machine DEF LoopInv, stream, Here
<1> QED BY <1>2, <1>3 DEF MoveInv, Moved, StaysInMemStream, StaysInStream, Nothing

(* A byte past the end lies behind every bit of the stream.                 *)
LEMMA PastTheEnd ==
  ASSUME TypeOK, Over(rpos)
  PROVE  rpos * BYTE >= size * BYTE
<1>1. rpos \in Nat /\ size \in Nat /\ BYTE \in Nat \ {0} /\ rpos >= size
  BY Machine DEF TypeOK, Over
<1>2. CASE rpos = size
  BY <1>1, <1>2
<1>3. CASE rpos > size
  BY <1>1, <1>3, LessByOne
<1> QED BY <1>1, <1>2, <1>3

(* A turn that takes n bits.                                               *)
LEMMA TurnMoves ==
  ASSUME MoveInv, ~Idle, UNCHANGED stream, UNCHANGED <<want, back, last>>,
         NEW n \in Nat \ {0}, done + n <= want, done' = done + n,
         retval' \in SUBSET Nat, over' = (over \/ Over(rpos)),
         rpos' \in Nat, rbit' \in 0..(BYTE - 1), rpos' * BYTE + rbit' = rpos * BYTE + rbit + n
  PROVE  MoveInv'
<1>0. TypeOK
  BY DEF MoveInv
<1>1. /\ TypeOK /\ want \in Nat /\ done \in Nat /\ rpos \in Nat /\ rbit \in Nat
      /\ rpos * BYTE \in Nat /\ size * BYTE \in Nat /\ Here \in Nat
  <2>1. BYTE \in Nat \ {0} /\ size \in Nat /\ Here \in Nat
    BY <1>0, Machine
  <2>2. want \in Nat /\ done \in Nat /\ rpos \in Nat /\ rbit \in Nat
    BY <1>0, <2>1 DEF TypeOK
  <2> QED BY <1>0, <2>1, <2>2
<1>2. over' \in BOOLEAN
  OBVIOUS
<1>3. TypeOK'
  BY <1>1, <1>2 DEF TypeOK, InC, stream
<1>4. rpos * BYTE + rbit = Here + done /\ (over => Here + done > size * BYTE)
  BY DEF MoveInv, LoopInv
<1>5. rpos' * BYTE + rbit' = Here + done'
  BY <1>1, <1>4
<1>6. ASSUME over' PROVE Here + done' > size * BYTE
  <2>1. over \/ Over(rpos)
    BY <1>6
  <2>2. CASE over
    BY <1>1, <1>4, <2>2
  <2>3. CASE Over(rpos)
    <3>1. rpos * BYTE >= size * BYTE
      BY <1>1, <2>3, PastTheEnd
    <3> QED BY <1>1, <1>4, <3>1
  <2> QED BY <2>1, <2>2, <2>3
<1>7. /\ Here' = Here /\ size' = size /\ InC' = InC /\ WithinBound' = WithinBound
      /\ Checks(want)' = Checks(want)
  BY DEF stream, Here, size, InC, WithinBound, Checks, stream_check, check
<1>8. /\ want' \in reader'.widths /\ done' <= want' /\ WithinBound' /\ Checks(want)'
  BY <1>1, <1>7 DEF MoveInv, LoopInv, stream
<1>9. LoopInv'
  BY <1>5, <1>6, <1>7, <1>8 DEF LoopInv
<1>10. Moved' /\ StaysInMemStream'
  BY <1>7 DEF MoveInv, Moved, StaysInMemStream, StaysInStream
<1> QED BY <1>3, <1>9, <1>10 DEF MoveInv

(* Somebody reads, and this much is left.                                   *)
LEMMA Reading ==
  ASSUME TypeOK, done < want
  PROVE  /\ ~Idle /\ Left \in Nat \ {0} /\ done + Left = want
  BY DEF TypeOK, Idle, Left

LEMMA ByteTurn ==
  ASSUME TypeOK, done < want, Aligned
  PROVE  rbit = 0 /\ done + BYTE <= want
<1>1. Left >= BYTE
  BY Reading, Machine, WholeBytes DEF Aligned
<1> QED BY <1>1, Reading, Machine DEF TypeOK, Left, Aligned

LEMMA ReadByteMoves == MoveInv /\ ReadByte => MoveInv'
<1> SUFFICES ASSUME MoveInv, ReadByte PROVE MoveInv'
  OBVIOUS
<1>1. TypeOK /\ done < want /\ Aligned /\ BYTE \in Nat \ {0} /\ rpos \in Nat
  BY Machine DEF MoveInv, TypeOK, ReadByte
<1>2. rbit = 0 /\ done + BYTE <= want
  BY <1>1, ByteTurn
<1>3. rpos' = rpos + 1 /\ rbit' = 0 /\ done' = done + BYTE /\ over' = (over \/ Over(rpos))
  BY <1>2 DEF ReadByte, Place
<1>4. rpos' * BYTE + rbit' = rpos * BYTE + rbit + BYTE
  BY <1>1, <1>2, <1>3
<1>5. retval' \in SUBSET Nat
  BY <1>1, ShiftedIsNat DEF ReadByte, Place, TypeOK
<1>6. UNCHANGED stream /\ UNCHANGED <<want, back, last>> /\ ~Idle
  BY <1>1, Reading DEF ReadByte
<1> QED BY <1>1, <1>2, <1>3, <1>4, <1>5, <1>6, TurnMoves

LEMMA BitTurn ==
  ASSUME TypeOK, ReadBit
  PROVE  /\ rpos' \in Nat /\ rbit' \in 0..(BYTE - 1)
         /\ rpos' * BYTE + rbit' = rpos * BYTE + rbit + 1
<1>1. rpos \in Nat /\ rbit \in 0..(BYTE - 1) /\ BYTE \in Nat \ {0}
  BY Machine DEF TypeOK
<1>2. CASE rbit + 1 > BYTE - 1
  <2>1. rbit' = 0 /\ rpos' = rpos + 1
    BY <1>2 DEF ReadBit
  <2> QED BY <1>1, <1>2, <2>1
<1>3. CASE ~(rbit + 1 > BYTE - 1)
  <2>1. rbit' = rbit + 1 /\ rpos' = rpos
    BY <1>3 DEF ReadBit
  <2> QED BY <1>1, <1>3, <2>1
<1> QED BY <1>2, <1>3

LEMMA ReadBitMoves == MoveInv /\ ReadBit => MoveInv'
<1> SUFFICES ASSUME MoveInv, ReadBit PROVE MoveInv'
  OBVIOUS
<1>1. TypeOK /\ done < want /\ want \in Nat /\ done \in Nat
  BY DEF MoveInv, TypeOK, ReadBit
<1>2. done' = done + 1 /\ over' = (over \/ Over(rpos)) /\ done + 1 <= want
  BY <1>1 DEF ReadBit, Place
<1>3. retval' \in SUBSET Nat
  BY <1>1, ShiftedIsNat DEF ReadBit, Place, TypeOK
<1>4. UNCHANGED stream /\ UNCHANGED <<want, back, last>> /\ ~Idle
  BY <1>1, Reading DEF ReadBit
<1> QED BY <1>1, <1>2, <1>3, <1>4, BitTurn, TurnMoves

(* NailMemStream: what was checked is all that was read.                    *)
LEMMA CheckSuffices ==
  ASSUME MoveInv, ~Idle, ~InC
  PROVE  ~over
<1>1. Here + want <= size * BYTE
  BY DEF MoveInv, LoopInv, Checks, check, Here
<1>2. done <= want /\ (over => Here + done > size * BYTE)
  BY DEF MoveInv, LoopInv
<1>3. /\ Here \in Nat /\ want \in Nat /\ done \in Nat /\ size * BYTE \in Nat
  BY Machine DEF MoveInv, TypeOK
<1> QED BY <1>1, <1>2, <1>3

LEMMA ReadDoneMoves == MoveInv /\ ReadDone => MoveInv'
<1> SUFFICES ASSUME MoveInv, ReadDone PROVE MoveInv'
  OBVIOUS
<1> USE DEF ReadDone, Ends
<1>1. TypeOK'
  <2>1. TypeOK /\ 0 \in 0..(BYTE - 1) /\ reader' = reader
    BY Machine DEF MoveInv
  <2> QED BY <2>1 DEF TypeOK, InC
<1>2. Here' = Here + want
  BY DEF MoveInv, LoopInv, Here
<1>3. Moved'
  BY <1>2 DEF Moved
<1>4. ~InC => ~over
  BY CheckSuffices
<1>5. StaysInMemStream'
  BY <1>4 DEF StaysInMemStream, StaysInStream, InC
<1> QED BY <1>1, <1>3, <1>5 DEF MoveInv, LoopInv, Idle

(* Advancing adds a width to the position, backing up takes it away again.  *)
LEMMA Advanced ==
  ASSUME TypeOK, NEW w \in Nat
  PROVE  LET a == stream_advance(w)
         IN a.pos \in Nat /\ a.bit \in 0..(BYTE - 1) /\ a.pos * BYTE + a.bit = Here + w
<1>1. /\ BYTE \in Nat \ {0} /\ pos \in Nat /\ bit \in 0..(BYTE - 1)
  BY Machine DEF TypeOK
<1> DEFINE q == w \div BYTE
           r == w % BYTE
<1>2. q \in Nat /\ r \in 0..(BYTE - 1) /\ w = q * BYTE + r
  BY <1>1, WholeAndRest, Zenon
<1>3. CASE bit + r > BYTE - 1
  <2>1. stream_advance(w) = [pos |-> pos + q + 1, bit |-> bit + r - BYTE]
    BY <1>1, <1>2, <1>3 DEF stream_advance
  <2> HIDE DEF q, r
  <2>2. (pos + q + 1) * BYTE + (bit + r - BYTE) = pos * BYTE + bit + (q * BYTE + r)
    BY <1>1, <1>2
  <2> QED BY <1>1, <1>2, <1>3, <2>1, <2>2 DEF Here
<1>4. CASE ~(bit + r > BYTE - 1)
  <2>1. stream_advance(w) = [pos |-> pos + q, bit |-> bit + r]
    BY <1>4 DEF stream_advance
  <2> HIDE DEF q, r
  <2>2. (pos + q) * BYTE + (bit + r) = pos * BYTE + bit + (q * BYTE + r)
    BY <1>1, <1>2
  <2> QED BY <1>1, <1>2, <1>4, <2>1, <2>2 DEF Here
<1> QED BY <1>3, <1>4

LEMMA BackedUp ==
  ASSUME TypeOK, NEW w \in Nat, NEW p \in Nat, NEW b \in 0..(BYTE - 1), p * BYTE + b = Here + w
  PROVE  stream_backup(p, b, w) = [pos |-> pos, bit |-> bit]
<1>1. /\ BYTE \in Nat \ {0} /\ pos \in Nat /\ bit \in 0..(BYTE - 1)
  BY Machine DEF TypeOK
<1> DEFINE q == w \div BYTE
           r == w % BYTE
<1>2. q \in Nat /\ r \in 0..(BYTE - 1) /\ w = q * BYTE + r
  BY <1>1, WholeAndRest, Zenon
<1>3. CASE b - r < 0
  <2>1. stream_backup(p, b, w) = [pos |-> p - q - 1, bit |-> b - r + BYTE]
    BY <1>3 DEF stream_backup
  <2> HIDE DEF q, r
  <2>2. (p - q - 1) * BYTE + (b - r + BYTE) = p * BYTE + b - (q * BYTE + r)
    BY <1>1, <1>2
  <2>3. (p - q - 1) * BYTE + (b - r + BYTE) = pos * BYTE + bit
    BY <2>2, <1>1, <1>2 DEF Here
  <2>4. PICK a \in Int, c \in 0..(BYTE - 1) : a = p - q - 1 /\ c = b - r + BYTE
    BY <1>1, <1>2, <1>3
  <2>5. a = pos /\ c = bit
    BY <1>1, <2>3, <2>4, SamePlace
  <2> QED BY <2>1, <2>4, <2>5
<1>4. CASE ~(b - r < 0)
  <2>1. stream_backup(p, b, w) = [pos |-> p - q, bit |-> b - r]
    BY <1>4 DEF stream_backup
  <2> HIDE DEF q, r
  <2>2. (p - q) * BYTE + (b - r) = p * BYTE + b - (q * BYTE + r)
    BY <1>1, <1>2
  <2>3. (p - q) * BYTE + (b - r) = pos * BYTE + bit
    BY <2>2, <1>1, <1>2 DEF Here
  <2>4. PICK a \in Int, c \in 0..(BYTE - 1) : a = p - q /\ c = b - r
    BY <1>1, <1>2, <1>4
  <2>5. a = pos /\ c = bit
    BY <1>1, <2>3, <2>4, SamePlace
  <2> QED BY <2>1, <2>4, <2>5
<1> QED BY <1>3, <1>4

LEMMA MismatchMoves == MoveInv /\ ReadMismatch => MoveInv'
<1> SUFFICES ASSUME MoveInv, ReadMismatch PROVE MoveInv'
  OBVIOUS
<1> USE DEF ReadMismatch, Ends
<1>1. stream_backup(rpos, rbit, want) = [pos |-> pos, bit |-> bit]
  BY BackedUp DEF MoveInv, TypeOK, LoopInv
<1>2. pos' = pos /\ bit' = bit
  BY <1>1
<1>3. TypeOK'
  <2>1. TypeOK /\ 0 \in 0..(BYTE - 1) /\ reader' = reader
    BY Machine DEF MoveInv
  <2> QED BY <1>2, <2>1 DEF TypeOK, InC
<1>4. Moved'
  BY <1>2 DEF Moved, Here
<1>5. StaysInMemStream'
  BY DEF StaysInMemStream, StaysInStream, InC
<1> QED BY <1>3, <1>4, <1>5 DEF MoveInv, LoopInv, Idle

LEMMA SkipMoves == ASSUME NEW w \in reader.widths PROVE MoveInv /\ Skip(w) => MoveInv'
<1> SUFFICES ASSUME MoveInv, Skip(w) PROVE MoveInv'
  OBVIOUS
<1> USE DEF Skip
<1>1. TypeOK /\ w \in Nat
  BY Machine DEF MoveInv
<1>2. pos' \in Nat /\ bit' \in 0..(BYTE - 1) /\ pos' * BYTE + bit' = Here + w
  BY <1>1, Advanced
<1>3. TypeOK'
  BY <1>1, <1>2 DEF TypeOK, InC, locals
<1>4. Moved'
  BY <1>2 DEF Moved, Here
<1> QED BY <1>3, <1>4 DEF MoveInv, LoopInv, Idle, locals, StaysInMemStream, StaysInStream

LEMMA RememberMoves == MoveInv /\ Remember => MoveInv'
<1> SUFFICES ASSUME MoveInv, Remember PROVE MoveInv'
  OBVIOUS
<1> USE DEF Remember
<1>1. InC => stream_getpos \in Nat
  <2>1. Here \in Int /\ 2^SIZE \in Nat \ {0}
    BY Machine DEF MoveInv
  <2>2. Here % 2^SIZE \in 0..(2^SIZE - 1)
    BY <2>1, DivMod
  <2> QED BY <2>1, <2>2 DEF stream_getpos, Here
<1>2. ~InC => stream_getpos \in Nat \X (0..(BYTE - 1))
  BY DEF stream_getpos, MoveInv, TypeOK
<1>3. back'.p = stream_getpos
  OBVIOUS
<1>4. TypeOK'
  BY <1>1, <1>2, <1>3 DEF MoveInv, TypeOK, InC, stream, locals
<1> QED BY <1>4 DEF MoveInv, LoopInv, Idle, locals, Moved, StaysInMemStream, StaysInStream, Nothing

LEMMA BacktrackMoves == MoveInv /\ Backtrack => MoveInv'
<1> SUFFICES ASSUME MoveInv, Backtrack PROVE MoveInv'
  OBVIOUS
<1> USE DEF Backtrack
<1>1. pos' \in Nat /\ bit' \in 0..(BYTE - 1)
  <2>1. BYTE \in Nat \ {0} /\ (IF InC THEN back.p \in Nat ELSE back.p \in Nat \X (0..(BYTE - 1)))
    BY Machine DEF MoveInv, TypeOK
  <2>2. CASE InC
    <3>1. back.p \div BYTE \in Nat /\ back.p % BYTE \in 0..(BYTE - 1)
      BY <2>1, <2>2, WholeAndRest, Zenon
    <3> QED BY <2>2, <3>1 DEF stream_reposition
  <2>3. CASE ~InC
    <3>1. back.p[1] \in Nat /\ back.p[2] \in 0..(BYTE - 1)
      BY <2>1, <2>3
    <3> QED BY <2>3, <3>1 DEF stream_reposition
  <2> QED BY <2>2, <2>3
<1>2. TypeOK'
  BY <1>1 DEF MoveInv, TypeOK, InC, locals
<1> QED BY <1>2 DEF MoveInv, LoopInv, Idle, locals, Moved, StaysInMemStream, StaysInStream

LEMMA NextMoves == MoveInv /\ [Next]_vars => MoveInv'
<1> SUFFICES ASSUME MoveInv, [Next]_vars PROVE MoveInv'
  OBVIOUS
<1>1. CASE UNCHANGED vars
  BY <1>1, StreamKept DEF vars, stream, locals, MoveInv, TypeOK, LoopInv, Idle, Moved, InC,
                          StaysInMemStream, StaysInStream
<1> QED BY <1>1, CheckFailsMoves, ReadStarts, SkipMoves, ReadByteMoves, ReadBitMoves, ReadDoneMoves,
           MismatchMoves, RememberMoves, BacktrackMoves DEF Next

(* The state stays well typed, and the reading loop where it should be.     *)
THEOREM MoveInvariant == Spec => []MoveInv
  BY InitMoves, NextMoves, PTL DEF Spec

(* Reading and skipping an integer move the stream by its width, a mismatch *)
(* not at all, for bytes of any width and integers at any offset.           *)
THEOREM FieldsEndTogether == Spec => []MovesByWidth
<1>1. MoveInv => MovesByWidth
  BY DEF MoveInv, TypeOK, Moved, MovesByWidth
<1> QED BY <1>1, MoveInvariant, PTL

(* NailMemStream reads no byte behind its end: its check suffices.          *)
THEOREM MemStreamChecks == Spec => []StaysInMemStream
<1>1. MoveInv => StaysInMemStream
  BY DEF MoveInv
<1> QED BY <1>1, MoveInvariant, PTL

-----------------------------------------------------------------------------
(* A position in bits is a number of the machine's for every stream shorter *)
(* than an eighth of its memory, less what a read may overrun.              *)
PositionsFit ==
  \A r \in Readers, d \in Inputs :
     r.class = "NailStream" =>
        \A w \in r.widths \cup {0} : (Len(d) + Beyond + 1) * BYTE + w <= 2^SIZE

(* How far reading and backtracking get.                                    *)
Reach(h) == \E w \in reader.widths \cup {0} : h < (size + Beyond + 1) * BYTE + w

(* What getpos returned is the bit the stream was at.                       *)
MarkInv ==
  /\ back.at \in Nat /\ Reach(back.at) /\ Reach(Here)
  /\ IF InC THEN back.p = back.at ELSE back.p[1] * BYTE + back.p[2] = back.at
  /\ BacktracksToMark

LEMMA Fits ==
  ASSUME PositionsFit, TypeOK, InC, NEW h \in Nat, Reach(h)
  PROVE  h % 2^SIZE = h
<1>1. h < 2^SIZE
  <2>1. PICK w \in reader.widths \cup {0} : h < (size + Beyond + 1) * BYTE + w
    BY DEF Reach
  <2>2. (size + Beyond + 1) * BYTE + w <= 2^SIZE
    BY DEF PositionsFit, TypeOK, InC, size
  <2>3. w \in Nat /\ (size + Beyond + 1) * BYTE \in Nat /\ 2^SIZE \in Nat \ {0}
    BY Machine
  <2> QED BY <2>1, <2>2, <2>3
<1> QED BY <1>1, Machine

(* A read that starts within bounds.                                        *)
LEMMA Starts ==
  ASSUME TypeOK, WithinBound, NEW w \in reader.widths
  PROVE  Reach(Here) /\ Reach(Here + w) /\ Here + w \in Nat
<1>1. pos \in Nat /\ bit \in 0..(BYTE - 1) /\ size + Beyond \in Nat /\ BYTE \in Nat \ {0}
      /\ pos <= size + Beyond /\ w \in Nat /\ Here \in Nat
  <2>1. w \in 1..LONG /\ LONG \in Nat
    BY Machine
  <2>2. size \in Nat /\ Beyond \in Nat /\ Here \in Nat /\ BYTE \in Nat \ {0}
    BY Machine
  <2> QED BY <2>1, <2>2 DEF TypeOK, WithinBound
<1>2. pos * BYTE + BYTE <= (size + Beyond + 1) * BYTE
  <2>1. size + Beyond + 1 > pos /\ size + Beyond + 1 \in Int
    BY <1>1
  <2> QED BY <1>1, <2>1, LessByOne
<1>3. (size + Beyond + 1) * BYTE \in Nat
  BY <1>1
<1>4. Here < (size + Beyond + 1) * BYTE
  BY <1>1, <1>2, <1>3 DEF Here
<1> QED BY <1>1, <1>3, <1>4 DEF Reach

LEMMA ReachKept ==
  ASSUME UNCHANGED <<reader, data>>
  PROVE  InC' = InC /\ \A h : Reach(h)' = Reach(h)
  BY DEF Reach, size, InC

LEMMA GetPos ==
  ASSUME PositionsFit, TypeOK, Reach(Here)
  PROVE  stream_getpos = IF InC THEN Here ELSE <<pos, bit>>
<1>1. Here \in Nat
  BY Machine
<1>2. InC => Here % 2^SIZE = Here
  BY <1>1, Fits
<1> QED BY <1>2 DEF stream_getpos, Here

LEMMA InitMarks == ASSUME PositionsFit PROVE Init => MarkInv
<1> SUFFICES ASSUME Init PROVE MarkInv
  OBVIOUS
<1>1. TypeOK
  BY InitMoves DEF MoveInv
<1>2. Here = 0 /\ Reach(0)
  <2>1. size + Beyond + 1 \in Nat \ {0} /\ BYTE \in Nat \ {0}
    BY <1>1, Machine
  <2>2. (size + Beyond + 1) * BYTE + 0 > 0
    BY <2>1
  <2> QED BY <2>1, <2>2 DEF Init, Here, Reach
<1>3. back.p = IF InC THEN 0 ELSE <<0, 0>>
  BY <1>1, <1>2, GetPos DEF Init
<1>4. IF InC THEN back.p = back.at ELSE back.p[1] * BYTE + back.p[2] = back.at
  BY <1>1, <1>3, Machine DEF Init
<1> QED BY <1>2, <1>4 DEF Init, MarkInv, BacktracksToMark, Nothing

LEMMA MarkKept ==
  ASSUME MarkInv, UNCHANGED <<reader, data, back>>, Reach(Here)', last'.op # "backtrack"
  PROVE  MarkInv'
<1>1. InC' = InC /\ Reach(back.at)'
  BY ReachKept DEF MarkInv
<1> QED BY <1>1 DEF MarkInv, BacktracksToMark

LEMMA StayingKeepsMark ==
  ASSUME MarkInv, UNCHANGED stream, UNCHANGED back, last' = last \/ last'.op # "backtrack"
  PROVE  MarkInv'
  BY DEF stream, MarkInv, BacktracksToMark, Here, Reach, InC, size

(* An integer that is read, or not the one it should be.                    *)
LEMMA EndsMarks ==
  MoveInv /\ MarkInv /\ (ReadDone \/ ReadMismatch) => MarkInv'
<1> SUFFICES ASSUME MoveInv, MarkInv, ReadDone \/ ReadMismatch PROVE MarkInv'
  OBVIOUS
<1>1. ~Idle /\ UNCHANGED <<reader, data, back>> /\ last'.op \in {"read", "mismatch"}
      /\ last'.from = Here /\ last'.w = want
  BY DEF ReadDone, ReadMismatch, Ends
<1>2. Moved'
  BY ReadDoneMoves, MismatchMoves DEF MoveInv
<1>3. Here' = Here + want \/ Here' = Here
  BY <1>1, <1>2 DEF Moved
<1>4. Reach(Here + want)
  BY <1>1, Starts DEF MoveInv, LoopInv
<1>5. Reach(Here)'
  BY <1>1, <1>3, <1>4 DEF MarkInv, Reach, size
<1> QED BY <1>1, <1>5, MarkKept

LEMMA SkipMarks == ASSUME NEW w \in reader.widths PROVE MoveInv /\ MarkInv /\ Skip(w) => MarkInv'
<1> SUFFICES ASSUME MoveInv, MarkInv, Skip(w) PROVE MarkInv'
  OBVIOUS
<1>1. /\ UNCHANGED <<reader, data, back>> /\ last'.op = "skip" /\ last'.from = Here /\ last'.w = w
      /\ WithinBound
  BY DEF Skip
<1>2. Here' = Here + w
  BY <1>1, SkipMoves DEF MoveInv, Moved
<1>3. Reach(Here + w)
  BY <1>1, Starts DEF MoveInv
<1>4. Reach(Here)'
  BY <1>1, <1>2, <1>3 DEF Reach, size
<1> QED BY <1>1, <1>4, MarkKept

LEMMA RememberMarks ==
  ASSUME PositionsFit PROVE MoveInv /\ MarkInv /\ Remember => MarkInv'
<1> SUFFICES ASSUME MoveInv, MarkInv, Remember PROVE MarkInv'
  OBVIOUS
<1>1. TypeOK /\ Reach(Here) /\ Here \in Nat
  BY Machine DEF MoveInv, MarkInv
<1>2. stream_getpos = IF InC THEN Here ELSE <<pos, bit>>
  BY <1>1, GetPos
<1>3. /\ back' = [p |-> stream_getpos, at |-> Here] /\ last' = Nothing
      /\ UNCHANGED <<reader, data, pos, bit>>
  BY DEF Remember, stream
<1>4. Here' = Here /\ InC' = InC /\ \A h : Reach(h)' = Reach(h)
  BY <1>3, ReachKept DEF Here
<1>5. IF InC THEN back'.p = back'.at ELSE back'.p[1] * BYTE + back'.p[2] = back'.at
  BY <1>2, <1>3 DEF Here
<1> QED BY <1>1, <1>3, <1>4, <1>5 DEF MarkInv, BacktracksToMark, Nothing

LEMMA BacktrackMarks == MoveInv /\ MarkInv /\ Backtrack => MarkInv'
<1> SUFFICES ASSUME MoveInv, MarkInv, Backtrack PROVE MarkInv'
  OBVIOUS
<1>1. UNCHANGED <<reader, data, back>> /\ BYTE \in Nat \ {0}
  BY Machine DEF Backtrack, MoveInv
<1>2. Here' = back.at
  <2>1. CASE InC
    <3>1. pos' = back.at \div BYTE /\ bit' = back.at % BYTE /\ back.at \in Nat
      BY <2>1 DEF Backtrack, stream_reposition, MarkInv
    <3>2. back.at = (back.at \div BYTE) * BYTE + (back.at % BYTE)
      BY <1>1, <3>1, WholeAndRest, Zenon
    <3> QED BY <3>1, <3>2 DEF Here
  <2>2. CASE ~InC
    BY <2>2 DEF Backtrack, stream_reposition, MarkInv, Here
  <2> QED BY <2>1, <2>2
<1>3. InC' = InC /\ \A h : Reach(h)' = Reach(h)
  BY <1>1, ReachKept
<1> QED BY <1>1, <1>2, <1>3 DEF MarkInv, BacktracksToMark

LEMMA NextMarks ==
  ASSUME PositionsFit PROVE MoveInv /\ MarkInv /\ [Next]_vars => MarkInv'
<1> SUFFICES ASSUME MoveInv, MarkInv, [Next]_vars PROVE MarkInv'
  OBVIOUS
<1>1. CASE UNCHANGED vars
  BY <1>1, StayingKeepsMark DEF vars
<1>2. ASSUME NEW w \in reader.widths, CheckFails(w) \/ read_unsigned_bits(w) PROVE MarkInv'
  BY <1>2, StayingKeepsMark DEF CheckFails, read_unsigned_bits, Nothing
<1>3. CASE ReadByte \/ ReadBit
  BY <1>3, StayingKeepsMark DEF ReadByte, ReadBit
<1> QED BY <1>1, <1>2, <1>3, SkipMarks, EndsMarks, RememberMarks, BacktrackMarks DEF Next

(* A combinator that fails leaves the stream at the bit it found it at, in  *)
(* whichever way the back end remembers a position, as long as the C back   *)
(* end's positions, in bits, fit a size_t.                                  *)
THEOREM BacktrackingReturns == ASSUME PositionsFit PROVE Spec => []BacktracksToMark
<1>1. Init => MarkInv
  BY InitMarks
<1>2. MoveInv /\ MarkInv /\ [Next]_vars => MarkInv'
  BY NextMarks
<1>3. MarkInv => BacktracksToMark
  BY DEF MarkInv
<1> QED BY <1>1, <1>2, <1>3, MoveInvariant, PTL DEF Spec

-----------------------------------------------------------------------------
(* A C reader's integers are narrower than an int.                          *)
NarrowFields == \A r \in Readers : r.class = "NailStream" => r.widths \subseteq 1..(INT - 1)

(* The bit at position p of the stream, and the one bit k of a field is.    *)
BitAt(p) == (IF LittleEndian THEN p % BYTE ELSE BYTE - 1 - (p % BYTE)) \in ByteAt(p \div BYTE)
FieldBit(k) == BitAt(IF LittleEndian THEN Here + k ELSE Here + want - 1 - k)
Placed(k) == IF LittleEndian THEN k < done ELSE k >= want - done

(* So far the loop has placed the low end of the field, or the high end.    *)
ValueInv == ~Idle => retval = {k \in 0..(want - 1) : Placed(k) /\ FieldBit(k)}

(* The place a turn of n bits has in the value.                             *)
Target(n) == IF LittleEndian THEN done ELSE Left - n

LEMMA ShiftedExact ==
  ASSUME NarrowFields, TypeOK, want \in reader.widths, NEW n \in Nat \ {0}, done + n <= want,
         NEW bits \in SUBSET (0..(n - 1))
  PROVE  Shifted(bits, Target(n)) = {i + Target(n) : i \in bits}
<1> DEFINE k == Target(n)
<1>1. /\ INT \in Nat \ {0} /\ LONG \in Nat \ {0} /\ INT < LONG
      /\ want \in 1..LONG /\ done \in Nat /\ (InC => want \in 1..(INT - 1))
  BY Machine DEF TypeOK, NarrowFields, InC
<1>2. k \in Nat /\ k + n <= want
  BY <1>1 DEF Target, Left
<1> HIDE DEF k
<1>3. \A i \in bits : i + k \in 0..(want - 1)
  BY <1>1, <1>2
<1>4. CASE ~InC
  <2>1. \A i \in bits : i + k \in 0..(LONG - 1)
    BY <1>1, <1>3
  <2> QED BY <1>4, <2>1 DEF Shifted, k
<1>5. CASE InC
  <2>1. \A i \in bits : i + k \in 0..(INT - 1) /\ i + k # INT - 1
    BY <1>1, <1>3, <1>5
  <2>2. k % INT = k
    BY <1>1, <1>2, <1>5
  <2>3. {i + (k % INT) : i \in bits} \cap 0..(INT - 1) = {i + k : i \in bits}
    BY <2>1, <2>2
  <2>4. INT - 1 \notin {i + k : i \in bits}
    BY <2>1
  <2> QED BY <1>5, <2>3, <2>4 DEF Shifted, k
<1> QED BY <1>4, <1>5

(* The bits a byte has in the field.                                        *)
LEMMA BytesBits ==
  ASSUME TypeOK, rbit = 0, rpos * BYTE + rbit = Here + done, NEW i \in 0..(BYTE - 1)
  PROVE  FieldBit(i + Target(BYTE)) <=> i \in ByteAt(rpos)
<1>1. BYTE \in Nat \ {0} /\ rpos \in Nat /\ done \in Nat /\ want \in Nat /\ Here \in Nat
  BY Machine DEF TypeOK
<1>2. CASE LittleEndian
  <2>1. Here + (i + Target(BYTE)) = rpos * BYTE + i
    BY <1>1, <1>2 DEF Target
  <2>2. (rpos * BYTE + i) \div BYTE = rpos /\ (rpos * BYTE + i) % BYTE = i
    BY <1>1, PlaceOf
  <2> QED BY <1>2, <2>1, <2>2 DEF FieldBit, BitAt
<1>3. CASE ~LittleEndian
  <2>1. PICK r \in 0..(BYTE - 1) : r = BYTE - 1 - i
    BY <1>1
  <2>2. Here + want - 1 - (i + Target(BYTE)) = rpos * BYTE + r
    BY <1>1, <1>3, <2>1 DEF Target, Left
  <2>3. (rpos * BYTE + r) \div BYTE = rpos /\ (rpos * BYTE + r) % BYTE = r /\ BYTE - 1 - r = i
    BY <1>1, <2>1, PlaceOf
  <2> QED BY <1>3, <2>2, <2>3 DEF FieldBit, BitAt
<1> QED BY <1>2, <1>3

LEMMA OneBits ==
  ASSUME TypeOK, rpos * BYTE + rbit = Here + done
  PROVE  FieldBit(0 + Target(1)) <=> 0 \in OneBit
<1>1. /\ BYTE \in Nat \ {0} /\ rpos \in Nat /\ rbit \in 0..(BYTE - 1)
      /\ done \in Nat /\ want \in Nat /\ Here \in Nat
  BY Machine DEF TypeOK
<1>2. (rpos * BYTE + rbit) \div BYTE = rpos /\ (rpos * BYTE + rbit) % BYTE = rbit
  BY <1>1, PlaceOf
<1>3. (IF LittleEndian THEN Here + (0 + Target(1)) ELSE Here + want - 1 - (0 + Target(1)))
         = rpos * BYTE + rbit
  BY <1>1 DEF Target, Left
<1> QED BY <1>2, <1>3 DEF FieldBit, BitAt, OneBit

LEMMA TurnPlaces ==
  ASSUME TypeOK, ValueInv, ~Idle, UNCHANGED stream, UNCHANGED want,
         NEW n \in Nat \ {0}, done + n <= want, done' = done + n,
         NEW bits \in SUBSET (0..(n - 1)),
         retval' = retval \cup {i + Target(n) : i \in bits},
         \A i \in 0..(n - 1) : FieldBit(i + Target(n)) <=> i \in bits
  PROVE  ValueInv'
<1>1. want \in Nat /\ done \in Nat
  BY DEF TypeOK
<1>2. LittleEndian' = LittleEndian /\ \A k : FieldBit(k)' = FieldBit(k)
  BY DEF stream, LittleEndian, FieldBit, BitAt, ByteAt, Over, size, Here
<1>3. PICK t \in Nat : t = Target(n)
  BY <1>1 DEF Target, Left
<1>4. t + n <= want
  BY <1>1, <1>3 DEF Target, Left
<1>5. ASSUME NEW k \in 0..(want - 1)
      PROVE  Placed(k)' <=> Placed(k) \/ k - t \in 0..(n - 1)
  <2>1. CASE LittleEndian
    BY <1>1, <1>2, <1>3, <2>1 DEF Placed, Target
  <2>2. CASE ~LittleEndian
    BY <1>1, <1>2, <1>3, <2>2 DEF Placed, Target, Left
  <2> QED BY <2>1, <2>2
<1>6. {i + t : i \in bits} = {k \in 0..(want - 1) : k - t \in 0..(n - 1) /\ FieldBit(k)}
  <2>1. ASSUME NEW i \in bits PROVE i + t \in 0..(want - 1) /\ (i + t) - t = i /\ FieldBit(i + t)
    BY <1>1, <1>3, <1>4
  <2>2. ASSUME NEW k \in 0..(want - 1), k - t \in 0..(n - 1), FieldBit(k)
        PROVE  k - t \in bits /\ k = (k - t) + t
    <3>1. k = (k - t) + t
      OBVIOUS
    <3> QED BY <1>3, <2>2, <3>1
  <2> QED BY <2>1, <2>2
<1>7. retval = {k \in 0..(want - 1) : Placed(k) /\ FieldBit(k)}
  BY DEF ValueInv
<1>8. retval' = {k \in 0..(want - 1) : (Placed(k) \/ k - t \in 0..(n - 1)) /\ FieldBit(k)}
  BY <1>3, <1>6, <1>7
<1>9. retval' = {k \in 0..(want - 1) : Placed(k)' /\ FieldBit(k)'}
  BY <1>2, <1>5, <1>8
<1> QED BY <1>9 DEF ValueInv

(* At its end the loop has placed the whole field.                          *)
LEMMA WholeField ==
  ASSUME TypeOK, ValueInv, ~Idle, done = want
  PROVE  retval = Field(Here, want)
<1>1. want \in Nat
  BY DEF TypeOK
<1>2. \A k \in 0..(want - 1) : Placed(k)
  BY <1>1 DEF Placed
<1>3. retval = {k \in 0..(want - 1) : FieldBit(k)}
  BY <1>2 DEF ValueInv
<1>4. Field(Here, want) = {k \in 0..(want - 1) : FieldBit(k)}
  BY DEF Field, FieldOf, FieldBit, BitAt
<1> QED BY <1>3, <1>4

LEMMA FieldKept ==
  ASSUME UNCHANGED <<reader, data>>
  PROVE  \A f, w : Field(f, w)' = Field(f, w)
  BY DEF Field, FieldOf, LittleEndian, ByteAt, Over, size

LEMMA StayingKeepsFields ==
  ASSUME ReadsField, UNCHANGED <<reader, data>>, last' = last \/ last'.op \notin {"read", "mismatch"}
  PROVE  ReadsField'
<1>1. \A f, w : Field(f, w)' = Field(f, w)
  BY FieldKept
<1>2. CASE last' = last
  <2>1. Field(last.from, last.w)' = Field(last.from, last.w)
    BY <1>2 DEF Field, FieldOf, LittleEndian, ByteAt, Over, size
  <2> QED BY <1>2, <2>1 DEF ReadsField
<1>3. CASE last'.op \notin {"read", "mismatch"}
  BY <1>3 DEF ReadsField
<1> QED BY <1>2, <1>3

LEMMA ReadByteFields ==
  ASSUME NarrowFields
  PROVE  MoveInv /\ ValueInv /\ ReadsField /\ ReadByte => ValueInv' /\ ReadsField'
<1> SUFFICES ASSUME MoveInv, ValueInv, ReadsField, ReadByte PROVE ValueInv' /\ ReadsField'
  OBVIOUS
<1>1. TypeOK /\ done < want /\ Aligned /\ BYTE \in Nat \ {0} /\ rpos \in Nat
  BY Machine DEF MoveInv, TypeOK, ReadByte
<1>2. rbit = 0 /\ done + BYTE <= want /\ ~Idle
  BY <1>1, ByteTurn, Reading
<1>3. rpos * BYTE + rbit = Here + done /\ want \in reader.widths
  BY <1>2 DEF MoveInv, LoopInv
<1>4. ByteAt(rpos) \in SUBSET (0..(BYTE - 1))
  BY <1>1, BytesAreBits
<1>5. Shifted(ByteAt(rpos), Target(BYTE)) = {i + Target(BYTE) : i \in ByteAt(rpos)}
  BY <1>1, <1>2, <1>3, <1>4, ShiftedExact
<1>6. retval' = retval \cup {i + Target(BYTE) : i \in ByteAt(rpos)} /\ done' = done + BYTE
  BY <1>5 DEF ReadByte, Place, Target
<1>7. \A i \in 0..(BYTE - 1) : FieldBit(i + Target(BYTE)) <=> i \in ByteAt(rpos)
  BY <1>1, <1>2, <1>3, BytesBits
<1>8. UNCHANGED stream /\ want' = want /\ last' = last
  BY DEF ReadByte
<1>9. ValueInv'
  BY <1>1, <1>2, <1>4, <1>6, <1>7, <1>8, TurnPlaces
<1> QED BY <1>8, <1>9, StayingKeepsFields DEF stream

LEMMA ReadBitFields ==
  ASSUME NarrowFields
  PROVE  MoveInv /\ ValueInv /\ ReadsField /\ ReadBit => ValueInv' /\ ReadsField'
<1> SUFFICES ASSUME MoveInv, ValueInv, ReadsField, ReadBit PROVE ValueInv' /\ ReadsField'
  OBVIOUS
<1>1. TypeOK /\ done < want
  BY DEF MoveInv, ReadBit
<1>2. ~Idle /\ done + 1 <= want
  BY <1>1, Reading DEF TypeOK
<1>3. rpos * BYTE + rbit = Here + done /\ want \in reader.widths
  BY <1>2 DEF MoveInv, LoopInv
<1>4. OneBit \in SUBSET (0..(1 - 1))
  BY DEF OneBit
<1>5. Shifted(OneBit, Target(1)) = {i + Target(1) : i \in OneBit}
  BY <1>1, <1>2, <1>3, <1>4, ShiftedExact
<1>6. retval' = retval \cup {i + Target(1) : i \in OneBit} /\ done' = done + 1
  BY <1>5 DEF ReadBit, Place, Target
<1>7. \A i \in 0..(1 - 1) : FieldBit(i + Target(1)) <=> i \in OneBit
  BY <1>1, <1>3, OneBits
<1>8. UNCHANGED stream /\ want' = want /\ last' = last
  BY DEF ReadBit
<1>9. ValueInv'
  BY <1>1, <1>2, <1>4, <1>6, <1>7, <1>8, TurnPlaces
<1> QED BY <1>8, <1>9, StayingKeepsFields DEF stream

LEMMA EndsFields ==
  MoveInv /\ ValueInv /\ ReadsField /\ (ReadDone \/ ReadMismatch) => ValueInv' /\ ReadsField'
<1> SUFFICES ASSUME MoveInv, ValueInv, ReadsField, ReadDone \/ ReadMismatch
             PROVE  ValueInv' /\ ReadsField'
  OBVIOUS
<1>1. /\ ~Idle /\ done = want /\ want' = 0 /\ UNCHANGED <<reader, data>>
      /\ last'.val = retval /\ last'.from = Here /\ last'.w = want
  BY DEF ReadDone, ReadMismatch, Ends
<1>2. last'.val = Field(last'.from, last'.w)
  BY <1>1, WholeField DEF MoveInv
<1>3. Field(last.from, last.w)' = Field(last'.from, last'.w)
  BY <1>1 DEF Field, FieldOf, LittleEndian, ByteAt, Over, size
<1> QED BY <1>1, <1>2, <1>3 DEF ValueInv, Idle, ReadsField

LEMMA ReadStartsFields ==
  ASSUME NEW w \in reader.widths
  PROVE  MoveInv /\ ValueInv /\ ReadsField /\ read_unsigned_bits(w) => ValueInv' /\ ReadsField'
<1> SUFFICES ASSUME MoveInv, ValueInv, ReadsField, read_unsigned_bits(w)
             PROVE  ValueInv' /\ ReadsField'
  OBVIOUS
<1>1. /\ want' = w /\ done' = 0 /\ retval' = {} /\ UNCHANGED <<reader, data>>
      /\ last'.op \notin {"read", "mismatch"} /\ w \in Nat
  BY Machine DEF read_unsigned_bits, stream, Nothing, MoveInv
<1>2. \A k \in 0..(want' - 1) : ~Placed(k)'
  BY <1>1 DEF Placed
<1> QED BY <1>1, <1>2, StayingKeepsFields DEF ValueInv

(* The rest reads nothing.                                                  *)
LEMMA IdleFields ==
  ASSUME ValueInv, ReadsField, Idle, want' = want, UNCHANGED <<reader, data>>,
         last' = last \/ last'.op \notin {"read", "mismatch"}
  PROVE  ValueInv' /\ ReadsField'
  BY StayingKeepsFields DEF ValueInv, Idle

LEMMA NextFields ==
  ASSUME NarrowFields
  PROVE  MoveInv /\ ValueInv /\ ReadsField /\ [Next]_vars => ValueInv' /\ ReadsField'
<1> SUFFICES ASSUME MoveInv, ValueInv, ReadsField, [Next]_vars PROVE ValueInv' /\ ReadsField'
  OBVIOUS
<1>1. CASE UNCHANGED vars
  <2>1. UNCHANGED <<reader, data, pos, bit, want, done, retval, last>>
    BY <1>1 DEF vars, stream, locals
  <2>2. ValueInv'
    BY <2>1 DEF ValueInv, Idle, Placed, FieldBit, BitAt, LittleEndian, Here, ByteAt, Over, size
  <2> QED BY <2>1, <2>2, StayingKeepsFields
<1>2. ASSUME NEW w \in reader.widths, CheckFails(w) \/ Skip(w) PROVE ValueInv' /\ ReadsField'
  BY <1>2, IdleFields DEF CheckFails, Skip, stream, locals, Nothing
<1>3. CASE Remember \/ Backtrack
  BY <1>3, IdleFields DEF Remember, Backtrack, stream, locals, Nothing
<1> QED BY <1>1, <1>2, <1>3, ReadByteFields, ReadBitFields, EndsFields, ReadStartsFields DEF Next

(* The number a constraint is compared with is the one the field's bits     *)
(* spell, in either byte order and wherever in a byte the field starts, as  *)
(* long as the C back end reads integers narrower than an int.              *)
THEOREM IntegersAreRead == ASSUME NarrowFields PROVE Spec => []ReadsField
<1>1. Init => ValueInv /\ ReadsField
  BY DEF Init, ValueInv, Idle, ReadsField, Nothing
<1>2. MoveInv /\ (ValueInv /\ ReadsField) /\ [Next]_vars => (ValueInv /\ ReadsField)'
  BY NextFields
<1> QED BY <1>1, <1>2, MoveInvariant, PTL DEF Spec
=============================================================================
