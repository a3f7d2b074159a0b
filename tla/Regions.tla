------------------------------ MODULE Regions ------------------------------
(***************************************************************************)
(* What a parser may assume of the memory it builds its result in: a set of *)
(* live regions no two of which overlap, and marks that are taken and       *)
(* undone in stack order.  Arena.tla is the implementation; nothing here    *)
(* says where regions come from or how their memory is reclaimed.           *)
(***************************************************************************)
EXTENDS Naturals, Sequences

CONSTANT Region              \* records with fields pool, lo and hi: bytes lo .. hi-1

VARIABLES live,              \* the regions the parser may still dereference
          marks              \* the live sets the open marks remember, oldest first

vars == <<live, marks>>

(* Two regions share a byte.                                               *)
Overlap(r, s) == r.pool = s.pool /\ r.lo < s.hi /\ s.lo < r.hi

Init == live = {} /\ marks = << >>

(* Hand out more memory, apart from everything live.                       *)
Take ==
  /\ live \subseteq live' /\ live' \subseteq Region
  /\ \A r \in live' \ live, q \in live' : r # q => ~Overlap(q, r)
  /\ UNCHANGED marks

Mark == marks' = Append(marks, live) /\ UNCHANGED live

(* Give up everything taken since the newest mark; the mark stays open.    *)
Undo == /\ marks # << >>
        /\ live' = marks[Len(marks)]
        /\ UNCHANGED marks

(* Close the newest mark and keep what was taken since.                    *)
Forget == /\ marks # << >>
          /\ marks' = SubSeq(marks, 1, Len(marks) - 1)
          /\ UNCHANGED live

(* The parse is over or has been given up: every pointer is void.          *)
Abandon == live' = {} /\ marks' = << >>

Next == Take \/ Mark \/ Undo \/ Forget \/ Abandon

Spec == Init /\ [][Next]_vars
=============================================================================
