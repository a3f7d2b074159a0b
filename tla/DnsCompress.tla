---------------------------- MODULE DnsCompress ----------------------------
(***************************************************************************)
(* dnscompress_parse (examples/dns/dns.c): the transform that turns a name  *)
(* with compression pointers into a stream of labels.  One loop follows the *)
(* name and measures it, a second one follows it again and copies.  Every   *)
(* turn of a loop is a step: nothing in them bounds how often a pointer is  *)
(* followed.                                                                *)
(*                                                                         *)
(* Byte values are scaled down: Radix stands for 256, so that a byte is a   *)
(* pointer's first from 3*Radix/4 on (192) and offsets have two digits.     *)
(***************************************************************************)
EXTENDS Integers, Sequences

CONSTANTS Radix,        \* the number of byte values, a multiple of 4
          MaxSize       \* bound: a name is measured up to it; one that is longer stays where it is

VARIABLES msg,          \* the current stream's data
          loop,         \* "idle", "measure", "copy", "done", "failed", "overread", "overflow"
          begin,        \* begin_labels
          pos,          \* where the loop is
          cur,          \* current->pos
          first,        \* first_label
          size,         \* the bytes str_decompressed is given
          out           \* the bytes copied to it

nameVars == <<loop, begin, pos, cur, first, size, out>>

Byte(p) == msg[p + 1]
Inside(p) == p < Len(msg)
IsPointer(b) == b >= 3 * (Radix \div 4)

(* highbyte & 63 << 8 | data: << and & bind tighter than |, << tighter than *)
(* &, so that 63 << 8 masks every bit of highbyte away.                     *)
Target_RelativeToName(p) == begin + Byte(p + 1)     \* mutant
Target(p) == Byte(p + 1)

NameInit ==
  /\ loop = "idle" /\ begin = 0 /\ pos = 0 /\ cur = 0 /\ first = TRUE /\ size = 0 /\ out = << >>

dnscompress_parse ==
  /\ loop = "idle"
  /\ loop' = "measure" /\ begin' = cur /\ pos' = cur /\ first' = TRUE /\ size' = 0 /\ out' = << >>
  /\ UNCHANGED <<msg, cur>>

-----------------------------------------------------------------------------
(* The first loop.  current->pos moves behind the first pointer, or behind  *)
(* the zero of a name that has none.                                        *)
Leave(p) == /\ first' = FALSE
            /\ cur' = IF first THEN p ELSE cur

MeasureFails ==
  /\ loop = "measure"
  /\ \/ ~Inside(pos)
     \/ Inside(pos) /\ IsPointer(Byte(pos)) /\ ~Inside(pos + 1)
  /\ loop' = "failed"
  /\ UNCHANGED <<msg, begin, pos, cur, first, size, out>>

MeasureLabel ==
  /\ loop = "measure" /\ Inside(pos) /\ Byte(pos) # 0 /\ ~IsPointer(Byte(pos))
  /\ size < MaxSize
  /\ size' = size + 1 + Byte(pos)
  /\ pos' = pos + 1 + Byte(pos)
  /\ UNCHANGED <<msg, loop, begin, cur, first, out>>

MeasurePointer ==
  /\ loop = "measure" /\ Inside(pos) /\ IsPointer(Byte(pos)) /\ Inside(pos + 1)
  /\ size < MaxSize
  /\ size' = size + 1
  /\ Leave(pos + 2)
  /\ pos' = Target(pos)
  /\ UNCHANGED <<msg, loop, begin, out>>

MeasureEnd_NotCounted ==            \* mutant: the zero is not in size
  /\ loop = "measure" /\ Inside(pos) /\ Byte(pos) = 0
  /\ Leave(pos + 1)
  /\ loop' = "copy" /\ pos' = begin
  /\ UNCHANGED <<msg, begin, size, out>>
MeasureEnd ==
  /\ loop = "measure" /\ Inside(pos) /\ Byte(pos) = 0
  /\ size' = size + 1
  /\ Leave(pos + 1)
  /\ loop' = "copy" /\ pos' = begin
  /\ UNCHANGED <<msg, begin, out>>

(* The second loop.  It checks pos, and reads pos + 1 of a pointer and the  *)
(* bytes of a label without a check of their own.                           *)
CopyFails ==
  /\ loop = "copy" /\ ~Inside(pos)
  /\ loop' = "failed"
  /\ UNCHANGED <<msg, begin, pos, cur, first, size, out>>

CopyPointer ==
  /\ loop = "copy" /\ Inside(pos) /\ IsPointer(Byte(pos))
  /\ IF Inside(pos + 1) THEN pos' = Target(pos) /\ UNCHANGED loop
     ELSE loop' = "overread" /\ UNCHANGED pos
  /\ UNCHANGED <<msg, begin, cur, first, size, out>>

(* memcpy of a length byte and its label; a length of 0 ends the name.     *)
CopyLabel ==
  /\ loop = "copy" /\ Inside(pos) /\ ~IsPointer(Byte(pos))
  /\ LET behind == pos + 1 + Byte(pos)
     IN IF ~Inside(behind - 1) THEN loop' = "overread" /\ UNCHANGED <<pos, out>>
        ELSE IF Len(out) + 1 + Byte(pos) > size THEN loop' = "overflow" /\ UNCHANGED <<pos, out>>
        ELSE /\ out' = out \o SubSeq(msg, pos + 1, behind)
             /\ pos' = behind
             /\ loop' = IF Byte(pos) = 0 THEN "done" ELSE "copy"
  /\ UNCHANGED <<msg, begin, cur, first, size>>

FollowName ==
  \/ MeasureFails \/ MeasureLabel \/ MeasurePointer \/ MeasureEnd
  \/ CopyFails \/ CopyPointer \/ CopyLabel

-----------------------------------------------------------------------------
(* RFC 1035, kept beside the code: a pointer's offset has the low bits of   *)
(* its first byte and all of its second, and leads to a prior occurrence,   *)
(* that is, in front of the labels it ends.                                 *)
Offset(p) == (Byte(p) % (Radix \div 4)) * Radix + Byte(p + 1)

(* The labels from p on of a name that began at start, and the position     *)
(* next behind it; prior: no pointer of it leads elsewhere.                 *)
NameAt(p, start) ==
  LET at[qs \in (0..(Len(msg) + Radix)) \X (0..Len(msg))] ==
        LET q == qs[1]
            s == qs[2]
        IN IF ~Inside(q) THEN [ok |-> FALSE, prior |-> TRUE]
           ELSE IF Byte(q) = 0 THEN [ok |-> TRUE, prior |-> TRUE, labels |-> <<0>>, next |-> q + 1]
           ELSE IF IsPointer(Byte(q))
           THEN IF ~Inside(q + 1) THEN [ok |-> FALSE, prior |-> TRUE]
                ELSE IF Offset(q) >= s THEN [ok |-> FALSE, prior |-> FALSE]
                ELSE LET r == at[<<Offset(q), Offset(q)>>]
                     IN IF r.ok THEN [r EXCEPT !.next = q + 2] ELSE r
           ELSE LET behind == q + 1 + Byte(q)
                    r == at[<<behind, s>>]
                IN IF r.ok THEN [r EXCEPT !.labels = SubSeq(msg, q + 1, behind) \o @] ELSE r
  IN at[<<p, start>>]
WellFormed(p) == NameAt(p, p).ok

(* What the second loop relies on the first one for: no byte outside the    *)
(* message is read, nothing is copied behind the bytes that were measured.  *)
CopyStaysInside == loop \notin {"overread", "overflow"}

(* A name by the RFC is decompressed to its labels, and the stream goes on  *)
(* behind it.                                                               *)
DecompressesName ==
  WellFormed(begin) =>
    /\ loop = "done" =>
         out = NameAt(begin, begin).labels /\ cur = NameAt(begin, begin).next
    /\ loop # "failed"
=============================================================================
