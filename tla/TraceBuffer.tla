---------------------------- MODULE TraceBuffer ----------------------------
(***************************************************************************)
(* n_trace (generator/parser_template.c), the array the first pass of the C *)
(* back end writes and the second one follows: how it grows, and how the   *)
(* emitted code (generator/mk_parser.cc) reserves cells in it, fills them  *)
(* when a combinator is done and cuts it back behind a dependency.  What   *)
(* the cells say is in TwoPass.tla; here is where they are.                *)
(***************************************************************************)
EXTENDS Integers, Sequences

CONSTANTS SIZE, GROW,       \* the arguments of n_trace_init, 4096 each
          STREAM,           \* cells a NailStream takes
          MaxCells,         \* bound: nothing is begun with more cells in use
          MaxOpen           \* bound: combinators nested in one another

ASSUME TraceAssumption ==
  /\ {SIZE, GROW, STREAM, MaxCells, MaxOpen} \subseteq Nat
  /\ SIZE > 1 /\ STREAM \in 1..16

VARIABLES block,        \* cells malloc and realloc gave
          capacity, iter,
          open,         \* the combinators that run, outermost first: [kind, at]
          status        \* "ok", "wild" (a cell that is not reserved was filled), "aborted"

vars == <<block, capacity, iter, open, status>>

Kinds == {"many", "length", "choice", "optional"}
Cells(kind) == IF kind = "optional" THEN 1 ELSE 2
NoCell == -1

Grow == IF GROW < 16 THEN 16 ELSE GROW     \* "small grow makes no sense"

Init ==     \* n_trace_init
  /\ block = SIZE /\ capacity = SIZE - 1 /\ iter = 0
  /\ open = << >> /\ status = "ok"

Going == status = "ok" /\ iter <= MaxCells

-----------------------------------------------------------------------------
(* n_trace_grow(space): enough as it is, one realloc, or none to be had.   *)
Enough_NoSpace(space) == capacity >= iter           \* mutant
Enough(space) == capacity - space >= iter
n_trace_grow(space) ==
  \/ Enough(space) /\ UNCHANGED <<block, capacity>>
  \/ ~Enough(space) /\ block' = capacity + Grow /\ capacity' = block'
grow_fails(space) == ~Enough(space) /\ UNCHANGED <<block, capacity>>

Push(kind, at) == open' = Append(open, [kind |-> kind, at |-> at])
Inner == open[Len(open)]
Pop == open' = SubSeq(open, 1, Len(open) - 1)

(* n_tr_memo_many, n_tr_memo_optional, n_tr_begin_choice.                  *)
Reserve_OneCell(kind) ==                            \* mutant
  /\ Going /\ Len(open) < MaxOpen
  /\ n_trace_grow(Cells(kind))
  /\ iter' = iter + 1
  /\ Push(kind, iter)
  /\ UNCHANGED status
Reserve_BeforeAdvance(kind) ==                      \* mutant
  /\ Going /\ Len(open) < MaxOpen
  /\ n_trace_grow(Cells(kind))
  /\ iter' = iter + Cells(kind)
  /\ Push(kind, iter - Cells(kind))
  /\ UNCHANGED status
Reserve(kind) ==
  /\ Going /\ Len(open) < MaxOpen
  /\ n_trace_grow(Cells(kind))
  /\ iter' = iter + Cells(kind)
  /\ Push(kind, iter)
  /\ UNCHANGED status

(* With no memory the position is -1; peg_choice alone looks, and fails.   *)
ReserveFails(kind) ==
  /\ Going /\ Len(open) < MaxOpen
  /\ kind # "choice" /\ grow_fails(Cells(kind))
  /\ Push(kind, NoCell)
  /\ UNCHANGED <<iter, status>>
ChoiceFails ==
  /\ Going
  /\ grow_fails(Cells("choice"))
  /\ UNCHANGED <<iter, open, status>>

(* n_tr_write_many, n_tr_pick_choice, n_tr_optional_succeed or _fail: the  *)
(* cells reserved at the start are filled.                                 *)
Fill ==
  /\ Going /\ open # << >>
  /\ status' = IF Inner.at = NoCell THEN "wild" ELSE "ok"
  /\ Pop
  /\ UNCHANGED <<block, capacity, iter>>

(* The last alternative failed, or an n_of did: on to the fail label around *)
(* it, its cells left as they are.                                         *)
Abandon ==
  /\ Going /\ open # << >>
  /\ Inner.kind \in {"choice", "length"}
  /\ Pop
  /\ UNCHANGED <<block, capacity, iter, status>>

(* n_tr_const and n_tr_stream.  No one looks at the result of the second.  *)
Record(space) ==
  /\ Going
  /\ n_trace_grow(space)
  /\ iter' = iter + space
  /\ UNCHANGED <<open, status>>
RecordFails(space) ==
  /\ Going
  /\ grow_fails(space)
  /\ UNCHANGED <<iter, open, status>>

(* A dependency: an integer, which leaves no cells; n_tr_setpos to where   *)
(* the trace was before it; n_tr_const.                                    *)
Dependency ==
  /\ Going
  /\ IF iter < capacity
     THEN n_trace_grow(1) /\ iter' = iter + 1 /\ UNCHANGED status
     ELSE status' = "aborted" /\ UNCHANGED <<block, capacity, iter>>
  /\ UNCHANGED open

Next ==
  \/ \E kind \in Kinds : Reserve(kind) \/ ReserveFails(kind)
  \/ \E space \in {1, STREAM} : Record(space) \/ RecordFails(space)
  \/ ChoiceFails \/ Fill \/ Abandon \/ Dependency
Spec == Init /\ [][Next]_vars

-----------------------------------------------------------------------------
TypeOK ==
  /\ block \in Nat /\ capacity \in Nat /\ iter \in Nat
  /\ open \in Seq([kind : Kinds, at : Nat \cup {NoCell}])
  /\ status \in {"ok", "wild", "aborted"}

(* Every cell written is in the block: one realloc always makes room for   *)
(* what the caller asked for.                                              *)
CellsInBlock == iter <= capacity /\ capacity <= block

(* The cells a combinator fills when it is done are still its own: behind   *)
(* those of the combinators around it, before all that was recorded since. *)
ReservedApart ==
  \A i \in 1..Len(open) :
    /\ open[i].at # NoCell => open[i].at + Cells(open[i].kind) <= iter
    /\ \A j \in 1..(i - 1) :
         open[i].at # NoCell /\ open[j].at # NoCell
           => open[j].at + Cells(open[j].kind) <= open[i].at

(* n_tr_setpos asserts that the position lies before capacity.             *)
SetposAssertion == status # "aborted"
=============================================================================
