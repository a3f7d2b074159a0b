------------------------- MODULE TraceBufferProofs -------------------------
(***************************************************************************)
(* What holds of the trace whatever the sizes, the bounds and the nesting, *)
(* and whichever calls of realloc fail.  CellsInBlock needs no more than   *)
(* itself and the types; ReservedApart is inductive too, because only the  *)
(* innermost combinator is pushed, at iter, and iter never goes back.      *)
(***************************************************************************)
EXTENDS TraceBuffer, SequenceTheorems, TLAPS

Combinator == [kind : Kinds, at : Nat \cup {NoCell}]

IInv == TypeOK /\ CellsInBlock /\ ReservedApart

(* One realloc makes room for whatever any caller asks for, since no caller *)
(* asks for more cells than the least step the trace grows by.             *)
LEMMA GrowMakesRoom ==
  ASSUME TypeOK, CellsInBlock, NEW space \in 0..16, n_trace_grow(space)
  PROVE  /\ block' \in Nat /\ capacity' \in Nat
         /\ iter + space <= capacity' /\ capacity' <= block'
<1>1. Grow \in Nat /\ Grow >= 16
  BY TraceAssumption DEF Grow
<1>2. CASE Enough(space) /\ UNCHANGED <<block, capacity>>
  BY <1>2 DEF Enough, TypeOK, CellsInBlock
<1>3. CASE ~Enough(space) /\ block' = capacity + Grow /\ capacity' = block'
  BY <1>1, <1>3 DEF TypeOK, CellsInBlock
<1> QED BY <1>2, <1>3 DEF n_trace_grow

(* What an operation asks for is at most sixteen cells.                    *)
LEMMA CellsBounds ==
  /\ \A kind \in Kinds : Cells(kind) \in 1..2
  /\ \A space \in {1, STREAM} : space \in 1..16
BY TraceAssumption DEF Cells, Kinds

(* A combinator pushed at iter, or at no cell, stands behind all others.   *)
LEMMA PushKeepsApart ==
  ASSUME IInv, NEW new \in Combinator, open' = Append(open, new),
         iter' \in Nat, iter' >= iter,
         new.at # NoCell => new.at = iter /\ iter' = iter + Cells(new.kind)
  PROVE  open' \in Seq(Combinator) /\ ReservedApart'
<1>1. open \in Seq(Combinator) /\ iter \in Nat
  BY DEF IInv, TypeOK, Combinator
<1>2. /\ open' \in Seq(Combinator) /\ Len(open') = Len(open) + 1
      /\ \A i \in 1..Len(open) : open'[i] = open[i]
      /\ open'[Len(open) + 1] = new
  BY <1>1
<1>3. ASSUME NEW i \in 1..Len(open')
      PROVE  /\ open'[i].at # NoCell => open'[i].at + Cells(open'[i].kind) <= iter'
             /\ \A j \in 1..(i - 1) :
                  open'[i].at # NoCell /\ open'[j].at # NoCell
                    => open'[j].at + Cells(open'[j].kind) <= open'[i].at
  <2>1. /\ Len(open) \in Nat
        /\ \A k \in 1..Len(open) : open[k] \in Combinator
    BY <1>1
  <2>2. \A k \in 1..Len(open) : open[k].at # NoCell => open[k].at + Cells(open[k].kind) <= iter
    BY DEF IInv, ReservedApart
  <2>3. CASE i \in 1..Len(open)
    <3>1. open'[i] = open[i] /\ \A j \in 1..(i - 1) : j \in 1..Len(open) /\ open'[j] = open[j]
      BY <1>2, <2>1, <2>3
    <3>2. open[i].at # NoCell => open[i].at + Cells(open[i].kind) <= iter'
      BY <1>1, <2>1, <2>2, <2>3, CellsBounds DEF Combinator
    <3> QED BY <2>3, <3>1, <3>2 DEF IInv, ReservedApart
  <2>4. CASE i = Len(open) + 1
    <3>1. open'[i] = new /\ \A j \in 1..(i - 1) : j \in 1..Len(open) /\ open'[j] = open[j]
      BY <1>2, <2>1, <2>4
    <3>2. new.at # NoCell => new.at + Cells(new.kind) <= iter'
      BY <1>1, CellsBounds DEF Combinator
    <3> QED BY <2>2, <3>1, <3>2
  <2> QED BY <1>2, <2>1, <2>3, <2>4
<1> QED BY <1>2, <1>3 DEF ReservedApart

(* Leaving the innermost combinator leaves the others where they are.      *)
LEMMA PopKeepsApart ==
  ASSUME IInv, open # << >>, Pop, iter' = iter
  PROVE  open' \in Seq(Combinator) /\ ReservedApart'
<1>1. open \in Seq(Combinator) /\ Len(open) \in Nat \ {0}
  BY DEF IInv, TypeOK, Combinator
<1>2. /\ open' \in Seq(Combinator) /\ Len(open') = Len(open) - 1
      /\ \A i \in 1..(Len(open) - 1) : open'[i] = open[i]
  <2> DEFINE n == Len(open) - 1
  <2>1. n \in Nat /\ \A i \in 1..n : open[i] \in Combinator
    BY <1>1
  <2>2. open' = SubSeq(open, 1, n)
    BY DEF Pop
  <2> HIDE DEF n
  <2>3. /\ open' \in Seq(Combinator)
        /\ Len(open') = IF 1 <= n THEN n - 1 + 1 ELSE 0
        /\ \A i \in 1..(n - 1 + 1) : open'[i] = open[1 + i - 1]
    BY <2>1, <2>2, SubSeqProperties
  <2>4. Len(open') = n /\ \A i \in 1..n : open'[i] = open[i]
    BY <2>1, <2>3
  <2> QED BY <2>3, <2>4 DEF n
<1>3. ASSUME NEW i \in 1..Len(open')
      PROVE  /\ i \in 1..Len(open) /\ open'[i] = open[i]
             /\ \A j \in 1..(i - 1) : open'[j] = open[j]
  BY <1>1, <1>2
<1> QED BY <1>2, <1>3 DEF IInv, ReservedApart

(* What stays in place while iter only grows stays apart.                  *)
LEMMA GrowthKeepsApart ==
  ASSUME IInv, UNCHANGED open, iter' \in Nat, iter' >= iter
  PROVE  open' \in Seq(Combinator) /\ ReservedApart'
<1>1. open \in Seq(Combinator) /\ iter \in Nat
  BY DEF IInv, TypeOK, Combinator
<1>2. ASSUME NEW i \in 1..Len(open), open[i].at # NoCell
      PROVE  open[i].at + Cells(open[i].kind) <= iter'
  <2>1. open[i].at + Cells(open[i].kind) <= iter
    BY <1>2 DEF IInv, ReservedApart
  <2>2. open[i] \in Combinator
    BY <1>1
  <2>3. open[i].at \in Nat /\ Cells(open[i].kind) \in Nat
    BY <1>2, <2>2, CellsBounds DEF Combinator
  <2> QED BY <1>1, <2>1, <2>3
<1> QED BY <1>1, <1>2 DEF IInv, ReservedApart

LEMMA InitInv == Init => IInv
BY TraceAssumption DEF Init, IInv, TypeOK, CellsInBlock, ReservedApart

LEMMA NextInv == IInv /\ [Next]_vars => IInv'
<1> SUFFICES ASSUME IInv, [Next]_vars PROVE IInv'
  OBVIOUS
<1> USE DEF Combinator
<1>0. /\ block \in Nat /\ capacity \in Nat /\ iter \in Nat
      /\ status \in {"ok", "wild", "aborted"}
      /\ iter <= capacity /\ capacity <= block
      /\ TypeOK /\ CellsInBlock
  BY DEF IInv, TypeOK, CellsInBlock
<1>1. ASSUME NEW kind \in Kinds, Reserve(kind) PROVE IInv'
  <2>1. Cells(kind) \in 1..2
    BY CellsBounds
  <2>2. /\ block' \in Nat /\ capacity' \in Nat
        /\ iter + Cells(kind) <= capacity' /\ capacity' <= block'
    BY <1>0, <1>1, <2>1, GrowMakesRoom DEF Reserve
  <2>3. open' \in Seq(Combinator) /\ ReservedApart'
    <3> DEFINE new == [kind |-> kind, at |-> iter]
    <3>1. new \in Combinator /\ new.at = iter /\ new.kind = kind
      BY <1>0
    <3>2. open' = Append(open, new) /\ iter' = iter + Cells(kind)
      BY <1>1 DEF Reserve, Push
    <3> HIDE DEF new
    <3>3. iter' \in Nat /\ iter' >= iter
      BY <1>0, <2>1, <3>2
    <3> QED BY <3>1, <3>2, <3>3, PushKeepsApart
  <2> QED BY <1>0, <1>1, <2>1, <2>2, <2>3 DEF Reserve, IInv, TypeOK, CellsInBlock
<1>2. ASSUME NEW kind \in Kinds, ReserveFails(kind) PROVE IInv'
  <2>1. UNCHANGED <<block, capacity, iter, status>> /\ Push(kind, NoCell)
    BY <1>2 DEF ReserveFails, grow_fails
  <2>2. open' \in Seq(Combinator) /\ ReservedApart'
    <3> DEFINE new == [kind |-> kind, at |-> NoCell]
    <3>1. new \in Combinator /\ new.at = NoCell
      OBVIOUS
    <3>2. open' = Append(open, new)
      BY <2>1 DEF Push
    <3> HIDE DEF new
    <3>3. iter' \in Nat /\ iter' >= iter
      BY <1>0, <2>1
    <3> QED BY <3>1, <3>2, <3>3, PushKeepsApart
  <2> QED BY <1>0, <2>1, <2>2 DEF IInv, TypeOK, CellsInBlock
<1>3. ASSUME NEW space \in {1, STREAM}, Record(space) PROVE IInv'
  <2>1. space \in 1..16
    BY CellsBounds
  <2>2. /\ block' \in Nat /\ capacity' \in Nat
        /\ iter + space <= capacity' /\ capacity' <= block'
    BY <1>0, <1>3, <2>1, GrowMakesRoom DEF Record
  <2>3. iter' = iter + space /\ UNCHANGED <<open, status>>
    BY <1>3 DEF Record
  <2>4. open' \in Seq(Combinator) /\ ReservedApart'
    BY <1>0, <2>1, <2>3, GrowthKeepsApart
  <2> QED BY <1>0, <2>1, <2>2, <2>3, <2>4 DEF IInv, TypeOK, CellsInBlock
<1>4. ASSUME NEW space \in {1, STREAM}, RecordFails(space) PROVE IInv'
  BY <1>0, <1>4 DEF RecordFails, grow_fails, IInv, TypeOK, CellsInBlock, ReservedApart
<1>5. CASE ChoiceFails
  BY <1>0, <1>5 DEF ChoiceFails, grow_fails, IInv, TypeOK, CellsInBlock, ReservedApart
<1>6. CASE Fill
  <2>1. open' \in Seq(Combinator) /\ ReservedApart'
    BY <1>6, PopKeepsApart DEF Fill
  <2> QED BY <1>0, <1>6, <2>1 DEF Fill, IInv, TypeOK, CellsInBlock
<1>7. CASE Abandon
  <2>1. open' \in Seq(Combinator) /\ ReservedApart'
    BY <1>7, PopKeepsApart DEF Abandon
  <2> QED BY <1>0, <1>7, <2>1 DEF Abandon, IInv, TypeOK, CellsInBlock
<1>8. CASE Dependency
  <2>1. CASE iter < capacity
    <3>1. n_trace_grow(1) /\ iter' = iter + 1 /\ UNCHANGED <<status, open>>
      BY <1>8, <2>1 DEF Dependency
    <3>2. block' \in Nat /\ capacity' \in Nat /\ iter + 1 <= capacity' /\ capacity' <= block'
      BY <1>0, <3>1, GrowMakesRoom
    <3>3. open' \in Seq(Combinator) /\ ReservedApart'
      BY <1>0, <3>1, GrowthKeepsApart
    <3> QED BY <1>0, <3>1, <3>2, <3>3 DEF IInv, TypeOK, CellsInBlock
  <2>2. CASE ~(iter < capacity)
    <3>1. status' = "aborted" /\ UNCHANGED <<block, capacity, iter, open>>
      BY <1>8, <2>2 DEF Dependency
    <3> QED BY <1>0, <3>1 DEF IInv, TypeOK, CellsInBlock, ReservedApart
  <2> QED BY <2>1, <2>2
<1>9. CASE UNCHANGED vars
  BY <1>0, <1>9 DEF vars, IInv, TypeOK, CellsInBlock, ReservedApart
<1> QED BY <1>1, <1>2, <1>3, <1>4, <1>5, <1>6, <1>7, <1>8, <1>9 DEF Next

LEMMA Invariance == Spec => []IInv
BY InitInv, NextInv, PTL DEF Spec

(* The trace's state is well typed in every reachable state: no position a *)
(* combinator keeps is negative but the -1 of a failed n_tr_memo.          *)
THEOREM TraceTypeCorrect == Spec => []TypeOK
<1>1. IInv => TypeOK
  BY DEF IInv
<1> QED BY Invariance, <1>1, PTL

(* No cell the first pass writes lies behind the block realloc gave, for   *)
(* any first size and any step the trace grows by: the step is at least as *)
(* large as the largest thing recorded.                                    *)
THEOREM TraceFits == Spec => []CellsInBlock
<1>1. IInv => CellsInBlock
  BY DEF IInv
<1> QED BY Invariance, <1>1, PTL

(* The cells two combinators that run will fill never overlap, however they *)
(* are nested, fail, and are abandoned.                                    *)
THEOREM ReservationsApart == Spec => []ReservedApart
<1>1. IInv => ReservedApart
  BY DEF IInv
<1> QED BY Invariance, <1>1, PTL
=============================================================================
