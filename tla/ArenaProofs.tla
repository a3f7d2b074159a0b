---------------------------- MODULE ArenaProofs ----------------------------
(***************************************************************************)
(* Proofs about Arena.tla, for any set of pools, any sizes, any depth of    *)
(* saved positions.                                                         *)
(***************************************************************************)
EXTENDS Arena, TLAPS

NextFcn == [Pool -> Pool \cup {NoPool}]

-----------------------------------------------------------------------------
(* Facts about chains of pools, for any next function.                     *)

(* A chain is a set of pools, holds its start, and is closed under next.   *)
LEMMA ChainClosed ==
  ASSUME NEW nx \in NextFcn, NEW p \in Pool \cup {NoPool}
  PROVE  /\ Chain(nx, p) \subseteq Pool
         /\ p \in Chain(nx, p) \cup {NoPool}
         /\ Closed(nx, Chain(nx, p))
<1>1. Chain(nx, p) \subseteq Pool  BY DEF Chain
<1>2. p \in Chain(nx, p) \cup {NoPool}  BY DEF Chain
<1>3. ASSUME NEW q \in Chain(nx, p)  PROVE nx[q] \in Chain(nx, p) \cup {NoPool}
  <2>1. nx[q] \in Pool \cup {NoPool}  BY <1>1, <1>3 DEF NextFcn
  <2>2. SUFFICES ASSUME nx[q] # NoPool, NEW S \in SUBSET Pool,
                        p \in S \cup {NoPool}, Closed(nx, S)
                 PROVE  nx[q] \in S
        BY <2>1 DEF Chain
  <2>3. q \in S  BY <2>2, <1>3 DEF Chain
  <2> QED  BY <2>2, <2>3 DEF Closed
<1> QED  BY <1>1, <1>2, <1>3 DEF Closed

(* A chain is the least such set.                                          *)
LEMMA ChainLeast ==
  ASSUME NEW nx, NEW p, NEW S \in SUBSET Pool,
         p \in S \cup {NoPool}, Closed(nx, S)
  PROVE  Chain(nx, p) \subseteq S
BY DEF Chain

(* The null pointer starts the empty chain.                                *)
LEMMA ChainNull == ASSUME NEW nx PROVE Chain(nx, NoPool) = {}
<1>1. Closed(nx, {})  BY DEF Closed
<1>2. Chain(nx, NoPool) \subseteq {}  BY <1>1, ChainLeast
<1> QED  BY <1>2

(* The chain of a member is part of the chain.                             *)
LEMMA ChainMember ==
  ASSUME NEW nx \in NextFcn, NEW p \in Pool \cup {NoPool},
         NEW q \in Chain(nx, p) \cup {NoPool}
  PROVE  Chain(nx, q) \subseteq Chain(nx, p)
BY ChainClosed, ChainLeast

(* Changing next outside a chain leaves the chain alone.                   *)
LEMMA ChainFrame ==
  ASSUME NEW nx \in NextFcn, NEW ny \in NextFcn, NEW p \in Pool \cup {NoPool},
         \A q \in Chain(nx, p) : ny[q] = nx[q]
  PROVE  Chain(ny, p) = Chain(nx, p)
<1>1. Chain(ny, p) \subseteq Chain(nx, p)
  <2>1. Closed(ny, Chain(nx, p))  BY ChainClosed DEF Closed
  <2> QED  BY <2>1, ChainClosed, ChainLeast
<1>2. Chain(nx, p) \subseteq Chain(ny, p)
  <2> DEFINE T == Chain(ny, p) \cap Chain(nx, p)
  <2>1. p \in T \cup {NoPool}  BY ChainClosed
  <2>2. Closed(nx, T)
    <3>1. ASSUME NEW q \in T  PROVE nx[q] \in T \cup {NoPool}
      <4>1. ny[q] \in Chain(ny, p) \cup {NoPool}  BY ChainClosed DEF Closed
      <4>2. nx[q] \in Chain(nx, p) \cup {NoPool}  BY ChainClosed DEF Closed
      <4> QED  BY <4>1, <4>2
    <3> QED  BY <3>1 DEF Closed
  <2>3. T \in SUBSET Pool  BY ChainClosed
  <2>4. Chain(nx, p) \subseteq T  BY <2>1, <2>2, <2>3, ChainLeast
  <2> QED  BY <2>4
<1> QED  BY <1>1, <1>2

(* A chain is its first pool and the chain of the pool after it.           *)
LEMMA ChainStep ==
  ASSUME NEW nx \in NextFcn, NEW p \in Pool
  PROVE  Chain(nx, p) = {p} \cup Chain(nx, nx[p])
<1> DEFINE S == {p} \cup Chain(nx, nx[p])
<1>0. nx[p] \in Pool \cup {NoPool}  BY DEF NextFcn
<1>1. Chain(nx, p) \subseteq S
  <2>1. Closed(nx, S)  BY <1>0, ChainClosed DEF Closed
  <2>2. S \in SUBSET Pool  BY <1>0, ChainClosed
  <2> QED  BY <2>1, <2>2, ChainLeast
<1>2. p \in Chain(nx, p)  BY ChainClosed, ConstantsAssumption DEF ConstantsAssumption
<1>3. nx[p] \in Chain(nx, p) \cup {NoPool}  BY <1>2, ChainClosed DEF Closed
<1>4. Chain(nx, nx[p]) \subseteq Chain(nx, p)  BY <1>3, ChainMember
<1> QED  BY <1>1, <1>2, <1>4

-----------------------------------------------------------------------------
(* Type correctness.                                                       *)

LEMMA InitTypeOK == Init => TypeOK
BY ConstantsAssumption DEF Init, TypeOK, Statuses, ConstantsAssumption

(* Dropping the newest element leaves a sequence of the older ones.        *)
LEMMA DropLast ==
  ASSUME NEW S, NEW s \in Seq(S), s # << >>
  PROVE  /\ SubSeq(s, 1, Len(s) - 1) \in Seq(S)
         /\ Len(SubSeq(s, 1, Len(s) - 1)) = Len(s) - 1
         /\ \A i \in 1 .. Len(s) - 1 : SubSeq(s, 1, Len(s) - 1)[i] = s[i]
         /\ Len(s) \in DOMAIN s /\ DOMAIN s = 1 .. Len(s) /\ Len(s) \in Nat \ {0}
<1>1. Len(s) \in Nat \ {0} /\ DOMAIN s = 1 .. Len(s)  OBVIOUS
<1>2. \A i \in 1 .. Len(s) - 1 : s[i] \in S  OBVIOUS
<1> QED  BY <1>1, <1>2

LEMMA NextTypeOK == TypeOK /\ [Next]_vars => TypeOK'
<1> SUFFICES ASSUME TypeOK, [Next]_vars  PROVE TypeOK'  OBVIOUS
<1> USE ConstantsAssumption DEF ConstantsAssumption, Statuses
<1>1. ASSUME NEW b \in InitSize, NailArena_init(b)  PROVE TypeOK'
  <2>1. Block(b) \in Nat  BY DEF Block
  <2> QED  BY <1>1, <2>1 DEF TypeOK, NailArena_init, NewPool
<1>2. CASE NailArena_init_fails
  BY <1>2 DEF TypeOK, NailArena_init_fails, poolVars
<1>3. ASSUME NEW size \in Size, n_malloc(size)  PROVE TypeOK'
  <2>1. ASSUME NEW p \in Pool, NEW at \in Nat, Carve(p, at, size)
        PROVE  live' \subseteq Region /\ iter' \in [Pool -> Nat]
    BY <2>1 DEF TypeOK, Carve, Region
  <2>2. CASE ~NeedPool(size)
    <3>1. current \in Pool /\ iter[current] \in Nat  BY <1>3 DEF TypeOK, n_malloc
    <3>2. Carve(current, iter[current], size)  BY <1>3, <2>2 DEF n_malloc
    <3> QED  BY <1>3, <2>1, <2>2, <3>1, <3>2 DEF TypeOK, n_malloc
  <2>3. CASE NeedPool(size)
    <3>1. PICK p \in Pool \ heap : /\ NewPool(p, PoolBytes(size), current)
                                  /\ Carve(p, Header, size)
      BY <1>3, <2>3 DEF n_malloc
    <3>2. live' \subseteq Region /\ iter' \in [Pool -> Nat]  BY <2>1, <3>1
    <3>3. PoolBytes(size) \in Nat  BY DEF TypeOK, PoolBytes
    <3> QED  BY <1>3, <3>1, <3>2, <3>3 DEF TypeOK, n_malloc, NewPool
  <2> QED  BY <2>2, <2>3
<1>4. ASSUME NEW size \in Size, n_malloc_fails(size)  PROVE TypeOK'
  BY <1>4 DEF TypeOK, n_malloc_fails, poolVars
<1>5. CASE NullDereference
  BY <1>5 DEF TypeOK, NullDereference, poolVars
<1>6. CASE n_arena_save
  <2>1. [pool |-> current, iter |-> iter[current], live |-> live] \in Position
    BY <1>6 DEF TypeOK, n_arena_save, Position
  <2> QED  BY <1>6, <2>1 DEF TypeOK, n_arena_save, poolVars
<1>7. CASE n_arena_restore
  <2>1. Newest \in Position  BY <1>7 DEF TypeOK, n_arena_restore, Newest
  <2> QED  BY <1>7, <2>1 DEF TypeOK, n_arena_restore, Position
<1>8. CASE LeaveBlock
  <2>1. saved' \in Seq(Position)  BY <1>8, DropLast DEF TypeOK, LeaveBlock
  <2> QED  BY <1>8, <2>1 DEF TypeOK, LeaveBlock, poolVars
<1>9. CASE NailArena_release
  BY <1>9 DEF TypeOK, NailArena_release, poolVars
<1>10. CASE FreePool
  BY <1>10 DEF TypeOK, FreePool, poolVars
<1>11. CASE EndRelease
  BY <1>11 DEF TypeOK, EndRelease, poolVars
<1>12. CASE UNCHANGED vars
  BY <1>12 DEF TypeOK, vars
<1> QED
  BY <1>1, <1>2, <1>3, <1>4, <1>5, <1>6, <1>7, <1>8, <1>9, <1>10, <1>11, <1>12
  DEF Next

(* Every state of every behaviour is well typed.                           *)
THEOREM TypeCorrect == Spec => []TypeOK
BY InitTypeOK, NextTypeOK, PTL DEF Spec

-----------------------------------------------------------------------------
(* The inductive invariant.                                                *)

LEMMA InitIInv == Init => IInv
<1> SUFFICES ASSUME Init  PROVE IInv  OBVIOUS
<1>1. TypeOK  BY InitTypeOK
<1>2. Reach(current) = {}  BY ChainNull DEF Init, Reach
<1> QED
  BY <1>1, <1>2 DEF IInv, Init, ChainAllocated, Acyclic, PositionsNest,
     PositionsCover, LiveBelowIter, IdleIsEmpty, LiveApart

(* What the invariant says of chains, in the form the steps use.           *)
LEMMA ChainFacts ==
  ASSUME TypeOK
  PROVE  /\ next \in NextFcn
         /\ Reach(current) \subseteq Pool
         /\ current \in Pool => current \in Reach(current)
BY ChainClosed, ConstantsAssumption DEF TypeOK, Reach, NextFcn, ConstantsAssumption

(* Steps that leave the pools, current, the positions and live alone, or   *)
(* that end the parse.                                                     *)
LEMMA QuietStep ==
  ASSUME IInv, TypeOK', UNCHANGED <<current, heap, iter, next>>,
         \/ UNCHANGED <<live, saved>> /\ (status' = status \/ (saved = << >> /\ live = {}))
         \/ live' = {} /\ saved' = << >>
  PROVE  IInv'
<1>1. Reach(current)' = Reach(current)  BY DEF Reach
<1>2. CASE UNCHANGED <<live, saved>> /\ (status' = status \/ (saved = << >> /\ live = {}))
  BY <1>1, <1>2 DEF IInv, ChainAllocated, Acyclic, PositionsNest, PositionsCover,
     LiveBelowIter, IdleIsEmpty, LiveApart
<1>3. CASE live' = {} /\ saved' = << >>
  BY <1>1, <1>3 DEF IInv, ChainAllocated, Acyclic, PositionsNest, PositionsCover,
     LiveBelowIter, IdleIsEmpty, LiveApart
<1> QED  BY <1>2, <1>3

(* A fresh pool in front of the chain of below: chains that start at an    *)
(* allocated chain's members are as before, and the new chain is the old   *)
(* one with p in front.                                                    *)
LEMMA Pushed ==
  ASSUME NEW nx \in NextFcn, NEW below \in Pool \cup {NoPool},
         NEW p \in Pool \ Chain(nx, below),
         NEW ny \in NextFcn, ny[p] = below, \A q \in Pool \ {p} : ny[q] = nx[q]
  PROVE  /\ \A q \in Chain(nx, below) \cup {NoPool} : Chain(ny, q) = Chain(nx, q)
         /\ Chain(ny, p) = {p} \cup Chain(nx, below)
         /\ \A q \in Chain(nx, below) : ny[q] = nx[q]
<1>2. \A q \in Chain(nx, below) : ny[q] = nx[q]  BY ChainClosed
<1>3. ASSUME NEW q \in Chain(nx, below) \cup {NoPool}  PROVE Chain(ny, q) = Chain(nx, q)
  <2>1. q \in Pool \cup {NoPool}  BY ChainClosed
  <2>2. Chain(nx, q) \subseteq Chain(nx, below)  BY ChainMember
  <2> QED  BY <1>2, <2>1, <2>2, ChainFrame
<1>4. Chain(ny, below) = Chain(nx, below)  BY <1>3, ChainClosed
<1>5. Chain(ny, p) = {p} \cup Chain(ny, below)  BY ChainStep
<1> QED  BY <1>2, <1>3, <1>4, <1>5

LEMMA InitStep ==
  ASSUME IInv, TypeOK', NEW b \in InitSize, NailArena_init(b)
  PROVE  IInv'
<1>1. /\ next \in NextFcn /\ Chain(next, NoPool) = {} /\ NoPool \notin Pool
      /\ iter \in [Pool -> Nat]
  BY ChainFacts, ChainNull, ConstantsAssumption DEF IInv, TypeOK, ConstantsAssumption
<1>2. PICK p \in Pool \ heap : /\ NewPool(p, Block(b), NoPool)
                              /\ iter' = [iter EXCEPT ![p] = Header]
  BY DEF NailArena_init
<1>3. next' = [next EXCEPT ![p] = NoPool] /\ current' = p /\ heap' = heap \cup {p}
  BY <1>2 DEF NewPool
<1>4. /\ Reach(current)' = {p} /\ next'[p] = NoPool /\ Chain(next', NoPool) = {}
  <2>1. p \in Pool \ Chain(next, NoPool)  BY <1>1, <1>2
  <2>2. /\ next' \in NextFcn /\ next'[p] = NoPool
        /\ \A q \in Pool \ {p} : next'[q] = next[q]
    BY <1>1, <1>3 DEF NextFcn
  <2>3. /\ Chain(next', p) = {p} \cup Chain(next, NoPool)
        /\ Chain(next', NoPool) = Chain(next, NoPool)
    BY <1>1, <2>1, <2>2, Pushed
  <2> QED  BY <1>1, <1>3, <2>2, <2>3 DEF Reach
<1>5. live' = {} /\ saved' = << >> /\ status' = "up"  BY DEF NailArena_init, IInv, IdleIsEmpty
<1>6. iter'[p] = Header /\ Header \in Nat
  BY <1>1, <1>2, ConstantsAssumption DEF ConstantsAssumption
<1>7. ChainAllocated'  BY <1>3, <1>4 DEF ChainAllocated
<1>8. Acyclic'  BY <1>4 DEF Acyclic
<1>9. PositionsNest' /\ PositionsCover' /\ LiveApart' /\ IdleIsEmpty'
  BY <1>5 DEF PositionsNest, PositionsCover, LiveApart, IdleIsEmpty
<1>10. LiveBelowIter'  BY <1>4, <1>5, <1>6 DEF LiveBelowIter
<1> QED  BY <1>7, <1>8, <1>9, <1>10 DEF IInv

LEMMA InitFailsStep ==
  ASSUME IInv, TypeOK', NailArena_init_fails
  PROVE  IInv'
<1>1. Reach(current)' = {}  BY ChainNull DEF NailArena_init_fails, Reach
<1>2. live' = {} /\ saved' = << >> /\ status' = "up"
  BY DEF NailArena_init_fails, IInv, IdleIsEmpty
<1> QED
  BY <1>1, <1>2
  DEF IInv, ChainAllocated, Acyclic, PositionsNest, PositionsCover, LiveBelowIter,
      IdleIsEmpty, LiveApart

(* n_malloc out of the current pool.                                       *)
LEMMA BumpStep ==
  ASSUME IInv, TypeOK', NEW size \in Size, n_malloc(size), ~NeedPool(size)
  PROVE  IInv'
<1> DEFINE r0 == [pool |-> current, lo |-> iter[current], hi |-> iter[current] + size]
<1>1. /\ current \in Reach(current) /\ current \in Pool /\ size \in Nat
      /\ iter \in [Pool -> Nat] /\ Header \in Nat
      /\ live \subseteq Region /\ Reach(current) \subseteq Pool
  BY ChainFacts, ConstantsAssumption DEF IInv, TypeOK, n_malloc, ConstantsAssumption
<1>2. /\ iter' = [iter EXCEPT ![current] = iter[current] + size]
      /\ live' = live \cup {r0}
      /\ UNCHANGED <<current, heap, next, saved, status>>
  BY DEF n_malloc, Carve
<1>3. Reach(current)' = Reach(current)  BY <1>2 DEF Reach
<1>4. /\ ChainAllocated' /\ Acyclic' /\ PositionsNest' /\ PositionsCover'
  BY <1>2, <1>3
  DEF IInv, ChainAllocated, Acyclic, PositionsNest, PositionsCover
<1>5. LiveBelowIter'
  BY <1>1, <1>2, <1>3 DEF IInv, LiveBelowIter, Region
<1>6. IdleIsEmpty'  BY <1>2 DEF IInv, IdleIsEmpty, n_malloc
<1>7. LiveApart'
  <2>1. ASSUME NEW r \in live  PROVE ~Overlap(r, r0) /\ ~Overlap(r0, r)
    <3>1. r.hi <= iter[r.pool] /\ r.hi \in Nat  BY <1>1 DEF IInv, LiveBelowIter, Region
    <3> QED  BY <1>1, <3>1 DEF Overlap
  <2> QED  BY <1>2, <2>1 DEF IInv, LiveApart
<1> QED  BY <1>4, <1>5, <1>6, <1>7 DEF IInv

(* n_malloc out of a new pool.                                             *)
LEMMA NewPoolStep ==
  ASSUME IInv, TypeOK', NEW size \in Size, n_malloc(size), NeedPool(size)
  PROVE  IInv'
<1>1. /\ current \in Pool /\ size \in Nat /\ next \in NextFcn
      /\ iter \in [Pool -> Nat] /\ Header \in Nat
      /\ live \subseteq Region /\ Reach(current) \subseteq Pool
      /\ Reach(current) \subseteq heap
  BY ChainFacts, ConstantsAssumption
  DEF IInv, TypeOK, ChainAllocated, n_malloc, ConstantsAssumption
<1>2. PICK p \in Pool \ heap : /\ NewPool(p, PoolBytes(size), current)
                              /\ Carve(p, Header, size)
  BY DEF n_malloc
<1> DEFINE r0 == [pool |-> p, lo |-> Header, hi |-> Header + size]
<1>3. /\ iter' = [iter EXCEPT ![p] = Header + size] /\ live' = live \cup {r0}
      /\ next' = [next EXCEPT ![p] = current] /\ current' = p
      /\ heap' = heap \cup {p} /\ UNCHANGED <<saved, status>>
  BY <1>2 DEF n_malloc, Carve, NewPool
<1>4. p \notin Reach(current)  BY <1>1
<1>5. /\ Reach(current)' = {p} \cup Reach(current)
      /\ next'[p] = current
      /\ \A q \in Reach(current) : next'[q] = next[q]
      /\ \A q \in Reach(current) \cup {NoPool} : Chain(next', q) = Chain(next, q)
  <2>1. p \in Pool \ Chain(next, current)  BY <1>2, <1>4 DEF Reach
  <2>2. /\ next' \in NextFcn /\ next'[p] = current
        /\ \A q \in Pool \ {p} : next'[q] = next[q]
    BY <1>1, <1>3 DEF NextFcn
  <2>3. /\ \A q \in Chain(next, current) \cup {NoPool} : Chain(next', q) = Chain(next, q)
        /\ Chain(next', p) = {p} \cup Chain(next, current)
        /\ \A q \in Chain(next, current) : next'[q] = next[q]
    BY <1>1, <2>1, <2>2, Pushed
  <2> QED  BY <1>3, <2>2, <2>3 DEF Reach
<1>6. ChainAllocated'  BY <1>3, <1>5 DEF IInv, ChainAllocated
<1>7. Acyclic'
  <2>1. ASSUME NEW q \in Reach(current)  PROVE q \notin Chain(next', next'[q])
    <3>1. next[q] \in Reach(current) \cup {NoPool}
      BY <1>1, ChainClosed DEF Reach, Closed
    <3> QED  BY <1>5, <2>1, <3>1 DEF IInv, Acyclic
  <2>2. p \notin Chain(next', next'[p])
    <3>1. current \in Reach(current)  BY <1>1, ChainFacts DEF IInv
    <3> QED  BY <1>4, <1>5, <3>1 DEF Reach
  <2> QED  BY <1>5, <2>1, <2>2 DEF Acyclic
<1>8. PositionsNest'
  <2>1. \A i \in DOMAIN saved : saved[i].pool \in Reach(current)  BY DEF IInv, PositionsNest
  <2> QED  BY <1>3, <1>5, <2>1 DEF IInv, PositionsNest
<1>9. PositionsCover'
  <2>1. \A i \in DOMAIN saved : saved[i].pool \in Reach(current)  BY DEF IInv, PositionsNest
  <2> QED  BY <1>3, <1>5, <2>1 DEF IInv, PositionsCover
<1>10. LiveBelowIter'
  BY <1>1, <1>3, <1>4, <1>5 DEF IInv, LiveBelowIter, Region
<1>11. IdleIsEmpty'  BY <1>3 DEF IInv, IdleIsEmpty, n_malloc
<1>12. LiveApart'
  <2>1. \A r \in live : r.pool # p  BY <1>4 DEF IInv, LiveBelowIter
  <2> QED  BY <1>3, <2>1 DEF IInv, LiveApart, Overlap
<1> QED  BY <1>6, <1>7, <1>8, <1>9, <1>10, <1>11, <1>12 DEF IInv

LEMMA SaveStep ==
  ASSUME IInv, TypeOK', n_arena_save
  PROVE  IInv'
<1> DEFINE s0 == [pool |-> current, iter |-> iter[current], live |-> live]
           n == Len(saved)
<1>1. /\ saved \in Seq(Position) /\ n \in Nat /\ s0 \in Position
      /\ current \in Reach(current)
  BY ChainFacts DEF IInv, TypeOK, n_arena_save, Position
<1>2. /\ saved' = Append(saved, s0)
      /\ UNCHANGED <<current, heap, iter, next, live, status>>
  BY DEF n_arena_save, poolVars
<1>3. /\ DOMAIN saved = 1 .. n /\ DOMAIN saved' = 1 .. n + 1
      /\ \A i \in 1 .. n : saved'[i] = saved[i]
      /\ saved'[n + 1] = s0
  BY <1>1, <1>2
<1>4. Reach(current)' = Reach(current)  BY <1>2 DEF Reach
<1>5. ChainAllocated' /\ Acyclic' /\ LiveBelowIter' /\ LiveApart'
  BY <1>2, <1>4 DEF IInv, ChainAllocated, Acyclic, LiveBelowIter, LiveApart
<1>6. IdleIsEmpty'  BY <1>2 DEF IdleIsEmpty, n_arena_save
<1>7. PositionsNest'
  <2>1. ASSUME NEW i \in 1 .. n + 1
        PROVE  saved'[i].pool \in Reach(current) /\ saved'[i].live \subseteq live
    <3>1. CASE i = n + 1  BY <1>1, <1>3, <3>1
    <3>2. CASE i \in 1 .. n  BY <1>3, <3>2 DEF IInv, PositionsNest
    <3> QED  BY <1>1, <3>1, <3>2
  <2>2. ASSUME NEW i \in 1 .. n + 1, NEW j \in 1 .. n + 1, i < j
        PROVE  /\ saved'[i].pool \in Chain(next, saved'[j].pool)
               /\ saved'[i].live \subseteq saved'[j].live
    <3>1. CASE j = n + 1  BY <1>1, <1>3, <2>1, <3>1 DEF Reach
    <3>2. CASE j \in 1 .. n
      <4>1. i \in 1 .. n  BY <1>1, <2>2, <3>2
      <4> QED  BY <1>3, <2>2, <3>2, <4>1 DEF IInv, PositionsNest
    <3> QED  BY <1>1, <3>1, <3>2
  <2> QED  BY <1>2, <1>3, <1>4, <2>1, <2>2 DEF PositionsNest
<1>8. PositionsCover'
  <2>1. ASSUME NEW i \in 1 .. n + 1
        PROVE  /\ Header <= saved'[i].iter
               /\ \A r \in saved'[i].live :
                    /\ r.pool \in Chain(next, saved'[i].pool)
                    /\ r.pool = saved'[i].pool => r.hi <= saved'[i].iter
    <3>1. CASE i = n + 1  BY <1>1, <1>3, <3>1 DEF IInv, LiveBelowIter, Reach
    <3>2. CASE i \in 1 .. n  BY <1>3, <3>2 DEF IInv, PositionsCover
    <3> QED  BY <1>1, <3>1, <3>2
  <2> QED  BY <1>2, <1>3, <2>1 DEF PositionsCover
<1> QED  BY <1>5, <1>6, <1>7, <1>8 DEF IInv

LEMMA RestoreStep ==
  ASSUME IInv, TypeOK', n_arena_restore
  PROVE  IInv'
<1> DEFINE n == Len(saved)
<1>1. /\ saved \in Seq(Position) /\ n \in DOMAIN saved /\ n \in Nat
      /\ DOMAIN saved = 1 .. n /\ Newest = saved[n] /\ Newest \in Position
      /\ iter \in [Pool -> Nat] /\ next \in NextFcn /\ Reach(current) \subseteq Pool
      /\ current \in Pool \cup {NoPool}
  BY ChainFacts DEF IInv, TypeOK, n_arena_restore, Newest
<1>2. /\ current' = Newest.pool
      /\ iter' = [iter EXCEPT ![Newest.pool] = Newest.iter]
      /\ live' = Newest.live
      /\ UNCHANGED <<heap, next, saved, status>>
  BY DEF n_arena_restore
<1>3. Newest.pool \in Reach(current) /\ Newest.live \subseteq live
  BY <1>1 DEF IInv, PositionsNest
<1>4. Reach(current)' = Chain(next, Newest.pool)  BY <1>2 DEF Reach
<1>5. Chain(next, Newest.pool) \subseteq Reach(current)
  BY <1>1, <1>3, ChainMember DEF Reach
<1>6. ChainAllocated'  BY <1>2, <1>4, <1>5 DEF IInv, ChainAllocated
<1>7. Acyclic'  BY <1>2, <1>4, <1>5 DEF IInv, Acyclic
<1>8. PositionsNest'
  <2>1. ASSUME NEW i \in DOMAIN saved
        PROVE  /\ saved[i].pool \in Chain(next, Newest.pool)
               /\ saved[i].live \subseteq Newest.live
    <3>1. CASE i = n
      <4>1. Newest.pool \in Pool  BY <1>1, <1>3
      <4>2. Newest.pool \in Chain(next, Newest.pool)
        BY <1>1, <4>1, ChainClosed, ConstantsAssumption DEF ConstantsAssumption
      <4> QED  BY <1>1, <3>1, <4>2
    <3>2. CASE i < n  BY <1>1, <3>2 DEF IInv, PositionsNest
    <3> QED  BY <1>1, <3>1, <3>2
  <2> QED  BY <1>2, <1>4, <2>1 DEF IInv, PositionsNest
<1>9. PositionsCover'  BY <1>2 DEF IInv, PositionsCover
<1>10. LiveBelowIter'
  <2>1. Header <= Newest.iter  BY <1>1 DEF IInv, PositionsCover
  <2>2. \A q \in Chain(next, Newest.pool) : Header <= iter'[q]
    BY <1>1, <1>2, <1>5, <2>1 DEF IInv, LiveBelowIter
  <2>3. ASSUME NEW r \in Newest.live
        PROVE  /\ r.pool \in Chain(next, Newest.pool)
               /\ Header <= r.lo /\ r.lo <= r.hi /\ r.hi <= iter'[r.pool]
    <3>1. /\ r.pool \in Chain(next, Newest.pool)
          /\ r.pool = Newest.pool => r.hi <= Newest.iter
      BY <1>1 DEF IInv, PositionsCover
    <3>2. Header <= r.lo /\ r.lo <= r.hi /\ r.hi <= iter[r.pool]
      BY <1>3 DEF IInv, LiveBelowIter
    <3> QED  BY <1>1, <1>2, <1>3, <1>5, <3>1, <3>2
  <2> QED  BY <1>2, <1>4, <2>2, <2>3 DEF LiveBelowIter
<1>11. IdleIsEmpty'  BY <1>2 DEF IdleIsEmpty, n_arena_restore
<1>12. LiveApart'  BY <1>2, <1>3 DEF IInv, LiveApart
<1> QED  BY <1>6, <1>7, <1>8, <1>9, <1>10, <1>11, <1>12 DEF IInv

LEMMA LeaveStep ==
  ASSUME IInv, TypeOK', LeaveBlock
  PROVE  IInv'
<1> DEFINE n == Len(saved)
<1>1. saved \in Seq(Position) /\ saved # << >>  BY DEF IInv, TypeOK, LeaveBlock
<1>2. /\ saved' = SubSeq(saved, 1, n - 1)
      /\ UNCHANGED <<current, heap, iter, next, live, status>>
  BY DEF LeaveBlock, poolVars
<1>3. /\ n \in Nat \ {0} /\ DOMAIN saved = 1 .. n /\ DOMAIN saved' = 1 .. n - 1
      /\ \A i \in 1 .. n - 1 : saved'[i] = saved[i]
  BY <1>1, <1>2, DropLast
<1>4. Reach(current)' = Reach(current)  BY <1>2 DEF Reach
<1>5. ChainAllocated' /\ Acyclic' /\ LiveBelowIter' /\ LiveApart'
  BY <1>2, <1>4 DEF IInv, ChainAllocated, Acyclic, LiveBelowIter, LiveApart
<1>6. IdleIsEmpty'  BY <1>2 DEF IdleIsEmpty, LeaveBlock
<1>7. PositionsNest' /\ PositionsCover'
  <2>1. \A i \in DOMAIN saved' : i \in DOMAIN saved /\ saved'[i] = saved[i]  BY <1>3
  <2> QED  BY <1>2, <1>4, <2>1 DEF IInv, PositionsNest, PositionsCover
<1> QED  BY <1>5, <1>6, <1>7 DEF IInv

LEMMA FreeStep ==
  ASSUME IInv, TypeOK', FreePool
  PROVE  IInv'
<1>1. /\ current \in Pool /\ next \in NextFcn /\ Reach(current) \subseteq Pool
      /\ current \in Reach(current)
  BY ChainFacts DEF IInv, TypeOK, FreePool
<1>2. /\ current' = next[current] /\ heap' = heap \ {current}
      /\ UNCHANGED <<iter, next, saved, live, status>>
  BY DEF FreePool, poolVars
<1>3. live = {} /\ saved = << >>  BY DEF IInv, IdleIsEmpty, FreePool
<1>4. Reach(current)' = Chain(next, next[current])  BY <1>2 DEF Reach
<1>5. Chain(next, next[current]) \subseteq Reach(current) \ {current}
  <2>1. Reach(current) = {current} \cup Chain(next, next[current])
    BY <1>1, ChainStep DEF Reach
  <2>2. current \notin Chain(next, next[current])  BY <1>1 DEF IInv, Acyclic
  <2> QED  BY <2>1, <2>2
<1>6. ChainAllocated'  BY <1>2, <1>4, <1>5 DEF IInv, ChainAllocated
<1>7. Acyclic'  BY <1>2, <1>4, <1>5 DEF IInv, Acyclic
<1>8. LiveBelowIter'  BY <1>2, <1>3, <1>4, <1>5 DEF IInv, LiveBelowIter
<1>9. PositionsNest' /\ PositionsCover' /\ LiveApart' /\ IdleIsEmpty'
  BY <1>2, <1>3 DEF PositionsNest, PositionsCover, LiveApart, IdleIsEmpty
<1> QED  BY <1>6, <1>7, <1>8, <1>9 DEF IInv

LEMMA NextIInv == IInv /\ [Next]_vars => IInv'
<1> SUFFICES ASSUME IInv, [Next]_vars  PROVE IInv'  OBVIOUS
<1>0. TypeOK'  BY NextTypeOK DEF IInv
<1>1. ASSUME NEW b \in InitSize, NailArena_init(b)  PROVE IInv'
  BY <1>0, <1>1, InitStep
<1>2. CASE NailArena_init_fails  BY <1>0, <1>2, InitFailsStep
<1>3. ASSUME NEW size \in Size, n_malloc(size)  PROVE IInv'
  BY <1>0, <1>3, BumpStep, NewPoolStep
<1>4. ASSUME NEW size \in Size, n_malloc_fails(size)  PROVE IInv'
  BY <1>0, <1>4, QuietStep DEF n_malloc_fails, poolVars
<1>5. CASE NullDereference
  <2>1. Reach(current) = {}  BY <1>5, ChainNull DEF NullDereference, Reach
  <2>2. live = {} /\ saved = << >>
    <3>1. DOMAIN saved = {} /\ saved \in Seq(Position)
      BY <2>1 DEF IInv, PositionsNest, TypeOK
    <3>2. saved = << >>  BY <3>1
    <3> QED  BY <2>1, <3>2 DEF IInv, LiveBelowIter
  <2> QED  BY <1>0, <1>5, <2>2, QuietStep DEF NullDereference, poolVars
<1>6. CASE n_arena_save  BY <1>0, <1>6, SaveStep
<1>7. CASE n_arena_restore  BY <1>0, <1>7, RestoreStep
<1>8. CASE LeaveBlock  BY <1>0, <1>8, LeaveStep
<1>9. CASE NailArena_release  BY <1>0, <1>9, QuietStep DEF NailArena_release, poolVars
<1>10. CASE FreePool  BY <1>0, <1>10, FreeStep
<1>11. CASE EndRelease
  <2>1. live = {} /\ saved = << >>  BY <1>11 DEF EndRelease, IInv, IdleIsEmpty
  <2> QED  BY <1>0, <1>11, <2>1, QuietStep DEF EndRelease, poolVars
<1>12. CASE UNCHANGED vars
  <2>1. UNCHANGED <<current, heap, iter, next>>  BY <1>12 DEF vars
  <2>2. live' = live /\ saved' = saved /\ status' = status  BY <1>12 DEF vars
  <2>3. Reach(current)' = Reach(current)  BY <2>1 DEF Reach
  <2> QED
    BY <1>0, <2>1, <2>2, <2>3
    DEF IInv, ChainAllocated, Acyclic, PositionsNest, PositionsCover, LiveBelowIter,
        IdleIsEmpty, LiveApart
<1> QED
  BY <1>1, <1>2, <1>3, <1>4, <1>5, <1>6, <1>7, <1>8, <1>9, <1>10, <1>11, <1>12
  DEF Next

LEMMA Inductive == Spec => []IInv
BY InitIInv, NextIInv, PTL DEF Spec

(* No two allocations in use overlap, however a parser backtracks.         *)
THEOREM AllocationsApart == Spec => []LiveApart
<1>1. IInv => LiveApart  BY DEF IInv
<1> QED  BY <1>1, Inductive, PTL

(* No allocation in use covers a pool header.                              *)
THEOREM HeadersIntact == Spec => []HeaderIntact
<1>1. IInv => HeaderIntact  BY DEF IInv, LiveBelowIter, HeaderIntact
<1> QED  BY <1>1, Inductive, PTL

(* NailArena_release reaches the pool of every allocation and position.    *)
THEOREM AllocationsReclaimable == Spec => []LiveReclaimable
<1>1. IInv => LiveReclaimable
  BY DEF IInv, LiveBelowIter, PositionsNest, LiveReclaimable
<1> QED  BY <1>1, Inductive, PTL

(* The chain of pools holds no freed pool.                                 *)
THEOREM NoFreedPoolInChain == Spec => []ChainAllocated
<1>1. IInv => ChainAllocated  BY DEF IInv
<1> QED  BY <1>1, Inductive, PTL

-----------------------------------------------------------------------------
(* Allocations leave their block only behind a first one that does.        *)

(* Of two pools in the chain of each other, there is one.                   *)
LEMMA NoWayBack ==
  ASSUME IInv, NEW p \in Reach(current), NEW q \in Chain(next, p), p \in Chain(next, q)
  PROVE  p = q
<1>1. next \in NextFcn /\ p \in Pool /\ q \in Pool
  BY ChainFacts, ChainClosed DEF IInv, TypeOK
<1>2. SUFFICES ASSUME p # q  PROVE FALSE  OBVIOUS
<1>3. q \in Chain(next, next[p])  BY <1>1, <1>2, ChainStep
<1>4. next[p] \in Pool \cup {NoPool}  BY <1>1 DEF NextFcn
<1>5. Chain(next, q) \subseteq Chain(next, next[p])  BY <1>1, <1>3, <1>4, ChainMember
<1> QED  BY <1>5 DEF IInv, Acyclic

(* The pools below one that is in use are not the current one.              *)
LEMMA BelowCurrent ==
  ASSUME IInv, current \in Pool, NEW i \in DOMAIN saved,
         NEW q \in Chain(next, saved[i].pool) \ {saved[i].pool}
  PROVE  q # current /\ q \in Reach(current)
<1>1. next \in NextFcn /\ saved[i].pool \in Reach(current) /\ current \in Reach(current)
  BY ChainFacts DEF IInv, PositionsNest, TypeOK
<1>2. q \in Reach(current)  BY <1>1, ChainMember DEF Reach
<1>3. ASSUME q = current  PROVE FALSE
  <2>1. saved[i].pool \in Chain(next, q)  BY <1>1, <1>3 DEF Reach
  <2>2. saved[i].pool = q  BY <1>1, <2>1, NoWayBack
  <2> QED  BY <2>2
<1> QED  BY <1>2, <1>3

LEMMA FitStep ==
  ASSUME IInv, IInv', IterInPool, [Next]_vars
  PROVE  IterInPool'
<1> USE ConstantsAssumption DEF ConstantsAssumption
<1>0. /\ next \in NextFcn /\ Reach(current) \subseteq Pool
      /\ iter \in [Pool -> Nat] /\ end \in [Pool -> Nat] /\ blocksize \in Nat
      /\ current \in Pool \cup {NoPool}
      /\ current \in Pool => current \in Reach(current)
      /\ Reach(current) \subseteq heap
  BY ChainFacts DEF IInv, TypeOK, ChainAllocated
<1>a. ASSUME NEW i \in DOMAIN saved
      PROVE  /\ saved[i].pool \in Reach(current)
             /\ Chain(next, saved[i].pool) \subseteq Reach(current)
  <2>1. saved[i].pool \in Reach(current)  BY DEF IInv, PositionsNest
  <2> QED  BY <1>0, <2>1, ChainMember DEF Reach
<1>1. ASSUME NEW b \in InitSize, NailArena_init(b)  PROVE IterInPool'
  <2>1. saved' = << >> /\ blocksize' = Block(b)  BY <1>1 DEF NailArena_init, IInv, IdleIsEmpty
  <2>2. PICK p \in Pool \ heap : /\ NewPool(p, Block(b), NoPool)
                                /\ iter' = [iter EXCEPT ![p] = Header]
    BY <1>1 DEF NailArena_init
  <2>3. current' = p /\ end'[p] = Block(b) /\ iter'[p] = Header /\ next'[p] = NoPool
    BY <1>0, <2>2 DEF NewPool, NextFcn
  <2>4. next' \in NextFcn  BY DEF IInv, TypeOK, NextFcn
  <2>5. Reach(current)' = {p}
    <3>1. Chain(next', p) = {p} \cup Chain(next', NoPool)  BY <2>3, <2>4, ChainStep
    <3> QED  BY <2>3, <3>1, ChainNull DEF Reach
  <2>6. Header <= Block(b)  BY DEF Block
  <2>7. DOMAIN saved' = {}  BY <2>1
  <2>8. \A q \in Reach(current)' : iter'[q] <= end'[q]  BY <2>3, <2>5, <2>6
  <2> QED  BY <2>7, <2>8 DEF IterInPool, Inside
<1>2. CASE NailArena_init_fails
  <2>1. Reach(current)' = {}  BY <1>2, ChainNull DEF NailArena_init_fails, Reach
  <2>2. saved' = << >>  BY <1>2 DEF NailArena_init_fails, IInv, IdleIsEmpty
  <2>3. DOMAIN saved' = {}  BY <2>2
  <2> QED  BY <2>1, <2>3 DEF IterInPool
<1>3. ASSUME NEW size \in Size, n_malloc(size)  PROVE IterInPool'
  <2>1. /\ UNCHANGED <<saved, blocksize, status>> /\ current \in Pool /\ size \in Nat
        /\ status = "up"
    BY <1>0, <1>3 DEF n_malloc
  <2>2. CASE ~NeedPool(size)
    <3>1. /\ iter' = [iter EXCEPT ![current] = iter[current] + size]
          /\ live \subseteq live' /\ UNCHANGED <<current, end, next>>
      BY <1>3, <2>2 DEF n_malloc, Carve
    <3>2. Reach(current)' = Reach(current)  BY <3>1 DEF Reach
    <3>3. ASSUME NEW q \in Reach(current)  PROVE Inside(iter[q], q, live)'
      <4>1. Inside(iter[q], q, live)  BY <2>1 DEF IterInPool
      <4>2. CASE iter[q] <= end[q]
        <5>1. iter'[q] <= end'[q]  BY <1>0, <2>1, <2>2, <3>1, <4>2 DEF NeedPool
        <5> QED  BY <5>1 DEF Inside
      <4>3. CASE FirstOverran(q, live)  BY <2>1, <3>1, <4>3 DEF Inside, FirstOverran
      <4> QED  BY <4>1, <4>2, <4>3 DEF Inside
    <3>4. ASSUME NEW i \in DOMAIN saved, NEW q \in Chain(next, saved[i].pool) \ {saved[i].pool}
          PROVE  Inside(iter[q], q, saved[i].live)'
      <4>1. Inside(iter[q], q, saved[i].live)  BY DEF IterInPool
      <4>2. iter'[q] = iter[q]  BY <1>0, <2>1, <3>1, BelowCurrent
      <4> QED  BY <2>1, <3>1, <4>1, <4>2 DEF Inside, FirstOverran
    <3>5. ASSUME NEW i \in DOMAIN saved  PROVE Inside(saved[i].iter, saved[i].pool, saved[i].live)'
      BY <2>1, <3>1 DEF IterInPool, Inside, FirstOverran
    <3> QED  BY <2>1, <3>1, <3>2, <3>3, <3>4, <3>5 DEF IterInPool
  <2>3. CASE NeedPool(size)
    <3>1. PICK p \in Pool \ heap : /\ NewPool(p, PoolBytes(size), current)
                                  /\ Carve(p, Header, size)
      BY <1>3, <2>3 DEF n_malloc
    <3> DEFINE r0 == [pool |-> p, lo |-> Header, hi |-> Header + size]
    <3>2. /\ iter' = [iter EXCEPT ![p] = Header + size] /\ live' = live \cup {r0}
          /\ end' = [end EXCEPT ![p] = PoolBytes(size)]
          /\ next' = [next EXCEPT ![p] = current] /\ current' = p
      BY <3>1 DEF NewPool, Carve
    <3>3. Inside(iter[p], p, live)'
      <4>1. iter'[p] = Header + size /\ end'[p] = PoolBytes(size)  BY <1>0, <3>2
      <4>2. CASE size > blocksize
        <5>1. end'[p] = size + Header  BY <4>1, <4>2 DEF PoolBytes
        <5>2. iter'[p] <= end'[p]  BY <2>1, <4>1, <5>1
        <5> QED  BY <5>2 DEF Inside
      <4>3. CASE size <= blocksize /\ Header + size > blocksize
        <5>1. end'[p] = blocksize'  BY <1>0, <2>1, <4>1, <4>3 DEF PoolBytes
        <5>2. r0 \in live' /\ r0.pool = p /\ r0.lo = Header /\ r0.hi = Header + size  BY <3>2
        <5>3. r0.hi > blocksize' /\ r0.hi <= blocksize' + Header
          BY <1>0, <2>1, <4>3, <5>2
        <5>4. \E r \in live' : r.pool = p /\ r.lo = Header /\ r.hi > blocksize'
                               /\ r.hi <= blocksize' + Header
          BY <5>2, <5>3
        <5> QED  BY <5>1, <5>4 DEF Inside, FirstOverran
      <4>4. CASE size <= blocksize /\ Header + size <= blocksize
        <5>1. end'[p] = blocksize  BY <1>0, <2>1, <4>1, <4>4 DEF PoolBytes
        <5>2. iter'[p] <= end'[p]  BY <4>1, <4>4, <5>1
        <5> QED  BY <5>2 DEF Inside
      <4> QED  BY <1>0, <2>1, <4>2, <4>3, <4>4
    <3>4. p \in Pool \ Chain(next, current)  BY <1>0, <3>1 DEF Reach
    <3>5. next' \in NextFcn /\ next'[p] = current /\ \A q \in Pool \ {p} : next'[q] = next[q]
      BY <1>0, <3>1, <3>2 DEF NextFcn
    <3>6. /\ Reach(current)' = {p} \cup Reach(current)
          /\ \A q \in Reach(current) \cup {NoPool} : Chain(next', q) = Chain(next, q)
      <4>1. /\ Chain(next', p) = {p} \cup Chain(next, current)
            /\ \A q \in Chain(next, current) \cup {NoPool} : Chain(next', q) = Chain(next, q)
        BY <1>0, <3>4, <3>5, Pushed
      <4> QED  BY <3>2, <4>1 DEF Reach
    <3>7. ASSUME NEW q \in Reach(current)
          PROVE  q \in Pool /\ q # p /\ iter'[q] = iter[q] /\ end'[q] = end[q]
      BY <1>0, <3>1, <3>2, <3>4 DEF Reach
    <3>8. ASSUME NEW q \in Reach(current)  PROVE Inside(iter[q], q, live)'
      <4>1. Inside(iter[q], q, live)  BY <2>1 DEF IterInPool
      <4>2. live \subseteq live'  BY <3>2
      <4> QED  BY <2>1, <3>7, <4>1, <4>2 DEF Inside, FirstOverran
    <3>9. ASSUME NEW i \in DOMAIN saved
          PROVE  /\ Inside(saved[i].iter, saved[i].pool, saved[i].live)'
                 /\ Chain(next', saved[i].pool) = Chain(next, saved[i].pool)
      <4>1. /\ Inside(saved[i].iter, saved[i].pool, saved[i].live)
            /\ saved[i].pool \in Reach(current)
        BY <1>a DEF IterInPool
      <4>2. end'[saved[i].pool] = end[saved[i].pool]  BY <3>7, <4>1
      <4> QED  BY <2>1, <3>6, <4>1, <4>2 DEF Inside, FirstOverran
    <3>10. ASSUME NEW i \in DOMAIN saved, NEW q \in Chain(next, saved[i].pool) \ {saved[i].pool}
           PROVE  Inside(iter[q], q, saved[i].live)'
      <4>1. Inside(iter[q], q, saved[i].live) /\ q \in Reach(current)
        BY <1>a DEF IterInPool
      <4>2. iter'[q] = iter[q] /\ end'[q] = end[q]  BY <3>7, <4>1
      <4> QED  BY <2>1, <4>1, <4>2 DEF Inside, FirstOverran
    <3> QED  BY <2>1, <3>3, <3>6, <3>8, <3>9, <3>10 DEF IterInPool
  <2> QED  BY <2>2, <2>3
<1>4. ASSUME UNCHANGED <<iter, end, next, current>>,
             \/ UNCHANGED <<saved, live, blocksize, status>>
             \/ saved' = << >> /\ status' # "up"
      PROVE  IterInPool'
  <2>1. Reach(current)' = Reach(current)  BY <1>4 DEF Reach
  <2>2. CASE UNCHANGED <<saved, live, blocksize, status>>
    BY <1>4, <2>1, <2>2 DEF IterInPool, Inside, FirstOverran
  <2>3. CASE saved' = << >> /\ status' # "up"
    <3>1. DOMAIN saved' = {}  BY <2>3
    <3> QED  BY <2>3, <3>1 DEF IterInPool
  <2> QED  BY <1>4, <2>2, <2>3
<1>5. ASSUME NEW size \in Size, n_malloc_fails(size)  PROVE IterInPool'
  BY <1>4, <1>5 DEF n_malloc_fails, poolVars
<1>6. CASE NullDereference
  <2>1. UNCHANGED <<iter, end, next, current, saved>> /\ status' # "up"
    BY <1>6 DEF NullDereference, poolVars
  <2>2. saved' = << >>
    <3>1. saved' \in Seq(Position) /\ status' # "up" /\ IdleIsEmpty'  BY <2>1 DEF IInv, TypeOK
    <3> QED  BY <3>1 DEF IdleIsEmpty
  <2> QED  BY <1>4, <2>1, <2>2
<1>7. CASE NailArena_release  BY <1>4, <1>7 DEF NailArena_release, poolVars
<1>8. CASE UNCHANGED vars
  <2>1. UNCHANGED <<iter, end, next, current, blocksize, saved, status, live>>  BY <1>8 DEF vars
  <2> QED  BY <1>4, <2>1
<1>9. CASE n_arena_save
  <2> DEFINE s0 == [pool |-> current, iter |-> iter[current], live |-> live]
             n == Len(saved)
  <2>1. /\ saved \in Seq(Position) /\ n \in Nat /\ s0 \in Position
        /\ current \in Reach(current) /\ status = "up"
    BY <1>0, <1>9 DEF IInv, TypeOK, n_arena_save, Position
  <2>2. /\ saved' = Append(saved, s0)
        /\ UNCHANGED <<iter, end, next, current, blocksize, status, live>>
    BY <1>9 DEF n_arena_save, poolVars
  <2>3. /\ DOMAIN saved = 1 .. n /\ DOMAIN saved' = 1 .. n + 1
        /\ \A i \in 1 .. n : saved'[i] = saved[i]
        /\ saved'[n + 1] = s0
    BY <2>1, <2>2
  <2>4. Reach(current)' = Reach(current)  BY <2>2 DEF Reach
  <2>5. \A q \in Reach(current) : Inside(iter[q], q, live)  BY <2>1 DEF IterInPool
  <2>6. ASSUME NEW i \in 1 .. n + 1
        PROVE  /\ Inside(saved[i].iter, saved[i].pool, saved[i].live)'
               /\ \A q \in Chain(next', saved'[i].pool) \ {saved'[i].pool} :
                    Inside(iter[q], q, saved[i].live)'
    <3>1. CASE i = n + 1
      <4>1. saved'[i].pool = current /\ saved'[i].iter = iter[current] /\ saved'[i].live = live
        BY <2>3, <3>1
      <4>2. Chain(next', saved'[i].pool) = Reach(current)  BY <2>2, <4>1 DEF Reach
      <4> QED  BY <2>1, <2>2, <2>5, <4>1, <4>2 DEF Inside, FirstOverran
    <3>2. CASE i \in 1 .. n
      <4>1. saved'[i] = saved[i] /\ i \in DOMAIN saved  BY <2>3, <3>2
      <4> QED  BY <2>2, <4>1 DEF IterInPool, Inside, FirstOverran
    <3> QED  BY <2>1, <3>1, <3>2
  <2>7. ASSUME NEW q \in Reach(current)  PROVE Inside(iter[q], q, live)'
    BY <2>2, <2>5 DEF Inside, FirstOverran
  <2> QED  BY <2>3, <2>4, <2>6, <2>7 DEF IterInPool
<1>10. CASE n_arena_restore
  <2> DEFINE n == Len(saved)
  <2>1. /\ saved \in Seq(Position) /\ n \in DOMAIN saved /\ Newest = saved[n]
        /\ Newest \in Position /\ DOMAIN saved = 1 .. n
    BY <1>10 DEF IInv, TypeOK, n_arena_restore, Newest
  <2>2. /\ current' = Newest.pool /\ live' = Newest.live
        /\ iter' = [iter EXCEPT ![Newest.pool] = Newest.iter]
        /\ UNCHANGED <<end, next, blocksize, saved, status>>
    BY <1>10 DEF n_arena_restore
  <2>3. Newest.pool \in Reach(current) /\ Newest.pool \in Pool  BY <1>0, <1>a, <2>1
  <2>4. Reach(current)' = Chain(next, Newest.pool)  BY <2>2 DEF Reach
  <2>5. /\ Inside(Newest.iter, Newest.pool, Newest.live)
        /\ \A q \in Chain(next, Newest.pool) \ {Newest.pool} : Inside(iter[q], q, Newest.live)
    BY <2>1 DEF IterInPool
  <2>6. ASSUME NEW q \in Chain(next, Newest.pool)  PROVE Inside(iter[q], q, live)'
    <3>1. q \in Pool  BY <1>0, <1>a, <2>1
    <3>2. CASE q = Newest.pool
      <4>1. iter'[q] = Newest.iter  BY <1>0, <2>2, <3>1, <3>2
      <4> QED  BY <2>2, <2>5, <3>2, <4>1 DEF Inside, FirstOverran
    <3>3. CASE q # Newest.pool
      <4>1. iter'[q] = iter[q]  BY <1>0, <2>2, <3>1, <3>3
      <4> QED  BY <2>2, <2>5, <3>3, <4>1 DEF Inside, FirstOverran
    <3> QED  BY <3>2, <3>3
  <2>7. ASSUME NEW i \in DOMAIN saved, NEW q \in Chain(next, saved[i].pool) \ {saved[i].pool}
        PROVE  Inside(iter[q], q, saved[i].live)'
    <3>1. q \in Reach(current) /\ q \in Pool  BY <1>0, <1>a
    <3>2. q # Newest.pool
      <4>1. CASE i = n  BY <2>1, <4>1
      <4>2. CASE i # n
        <5>1. saved[i].pool \in Chain(next, Newest.pool)
          BY <2>1, <4>2 DEF IInv, PositionsNest
        <5>2. ASSUME q = Newest.pool  PROVE FALSE
          <6>1. saved[i].pool = q  BY <1>a, <5>1, <5>2, NoWayBack
          <6> QED  BY <6>1
        <5> QED  BY <5>2
      <4> QED  BY <4>1, <4>2
    <3>3. iter'[q] = iter[q]  BY <1>0, <2>2, <3>1, <3>2
    <3>4. Inside(iter[q], q, saved[i].live)  BY DEF IterInPool
    <3> QED  BY <2>2, <3>3, <3>4 DEF Inside, FirstOverran
  <2>8. ASSUME NEW i \in DOMAIN saved  PROVE Inside(saved[i].iter, saved[i].pool, saved[i].live)'
    BY <2>2 DEF IterInPool, Inside, FirstOverran
  <2> QED  BY <2>2, <2>4, <2>6, <2>7, <2>8 DEF IterInPool
<1>11. CASE LeaveBlock
  <2>1. saved \in Seq(Position) /\ saved # << >>  BY <1>11 DEF IInv, TypeOK, LeaveBlock
  <2>2. /\ saved' = SubSeq(saved, 1, Len(saved) - 1)
        /\ UNCHANGED <<iter, end, next, current, blocksize, status, live>>
    BY <1>11 DEF LeaveBlock, poolVars
  <2>3. \A i \in DOMAIN saved' : i \in DOMAIN saved /\ saved'[i] = saved[i]
    BY <2>1, <2>2, DropLast
  <2>4. Reach(current)' = Reach(current)  BY <2>2 DEF Reach
  <2>5. ASSUME NEW i \in DOMAIN saved'
        PROVE  /\ Inside(saved[i].iter, saved[i].pool, saved[i].live)'
               /\ \A q \in Chain(next', saved'[i].pool) \ {saved'[i].pool} :
                    Inside(iter[q], q, saved[i].live)'
    <3>1. i \in DOMAIN saved /\ saved'[i] = saved[i]  BY <2>3
    <3> QED  BY <2>2, <3>1 DEF IterInPool, Inside, FirstOverran
  <2>6. ASSUME status = "up", NEW q \in Reach(current)  PROVE Inside(iter[q], q, live)'
    BY <2>2, <2>6 DEF IterInPool, Inside, FirstOverran
  <2> QED  BY <2>2, <2>4, <2>5, <2>6 DEF IterInPool
<1>12. CASE FreePool
  <2>1. saved' = saved /\ status' # "up" /\ saved = << >>
    BY <1>12 DEF FreePool, IInv, IdleIsEmpty
  <2>2. DOMAIN saved' = {}  BY <2>1
  <2> QED  BY <2>1, <2>2 DEF IterInPool
<1>13. CASE EndRelease
  <2>1. UNCHANGED <<iter, end, next, current>> /\ status' # "up" /\ saved' = << >>
    BY <1>13 DEF EndRelease, poolVars, IInv, IdleIsEmpty
  <2> QED  BY <1>4, <2>1
<1> QED
  BY <1>1, <1>2, <1>3, <1>5, <1>6, <1>7, <1>8, <1>9, <1>10, <1>11, <1>12, <1>13
  DEF Next

(* n_malloc leaves a block in one way only: by a first allocation that      *)
(* needed the header's share of an ordinary pool.  Nothing else in use is   *)
(* outside of its block but what lies behind such a one in its pool.        *)
THEOREM OverrunsAreFirst == Spec => []OverrunIsFirst
<1>1. Init => IterInPool
  <2>1. ASSUME Init  PROVE IterInPool
    <3>1. DOMAIN saved = {} /\ status = "raw"  BY <2>1 DEF Init
    <3> QED  BY <3>1 DEF IterInPool
  <2> QED  BY <2>1
<1>2. IInv /\ IInv' /\ IterInPool /\ [Next]_vars => IterInPool'  BY FitStep
<1>3. IInv /\ IterInPool => OverrunIsFirst
  <2>1. SUFFICES ASSUME IInv, IterInPool, NEW r \in live
                 PROVE  r.pool \in heap /\ Inside(r.hi, r.pool, live)
        BY DEF OverrunIsFirst
  <2>2. /\ r.pool \in Pool /\ r.hi \in Nat /\ iter[r.pool] \in Nat /\ end[r.pool] \in Nat
    BY <2>1 DEF IInv, TypeOK, Region
  <2>3. r.pool \in Reach(current) /\ r.hi <= iter[r.pool]  BY <2>1 DEF IInv, LiveBelowIter
  <2>4. status = "up"  BY <2>1 DEF IInv, IdleIsEmpty
  <2>5. Inside(iter[r.pool], r.pool, live)  BY <2>1, <2>3, <2>4 DEF IterInPool
  <2> QED  BY <2>1, <2>2, <2>3, <2>5 DEF IInv, ChainAllocated, Inside
<1> QED  BY <1>1, <1>2, <1>3, Inductive, PTL DEF Spec

-----------------------------------------------------------------------------
(* The arena is an implementation of Regions.                              *)

LEMMA AbstractInit == Init => Abstract!Init
BY DEF Init, Abstract!Init

LEMMA AbstractStep ==
  ASSUME IInv, IInv', [Next]_vars
  PROVE  [Abstract!Next]_(Abstract!vars)
<1> USE DEF Abstract!Next, Abstract!vars
<1>1. CASE UNCHANGED <<saved, live>>  BY <1>1
<1>2. CASE saved' = << >> /\ live' = {}
  <2>1. [i \in DOMAIN saved' |-> saved'[i].live] = << >>  BY <1>2
  <2> QED  BY <1>2, <2>1 DEF Abstract!Abandon
<1>3. ASSUME NEW size \in Size, n_malloc(size)  PROVE Abstract!Take
  <2>1. live \subseteq live' /\ saved' = saved  BY <1>3 DEF n_malloc, Carve
  <2>2. live' \subseteq Region  BY DEF IInv, TypeOK
  <2>3. \A r \in live' \ live, q \in live' : r # q => ~Abstract!Overlap(q, r)
    BY DEF IInv, LiveApart, Overlap, Abstract!Overlap
  <2> QED  BY <2>1, <2>2, <2>3 DEF Abstract!Take
<1>4. CASE n_arena_save
  <2> DEFINE s0 == [pool |-> current, iter |-> iter[current], live |-> live]
             m == [i \in DOMAIN saved |-> saved[i].live]
  <2>1. saved \in Seq(Position) /\ saved' = Append(saved, s0) /\ live' = live
    BY <1>4 DEF IInv, TypeOK, n_arena_save
  <2>2. m \in Seq(SUBSET Region)
    <3>1. \A i \in DOMAIN saved : saved[i] \in Position  BY <2>1
    <3>2. \A i \in DOMAIN saved : saved[i].live \in SUBSET Region  BY <3>1 DEF Position
    <3>3. DOMAIN saved = 1 .. Len(saved) /\ Len(saved) \in Nat  BY <2>1
    <3> QED  BY <3>2, <3>3
  <2>3. [i \in DOMAIN saved' |-> saved'[i].live] = Append(m, live)
    BY <2>1, <2>2
  <2> QED  BY <2>1, <2>3 DEF Abstract!Mark
<1>5. CASE n_arena_restore
  <2>1. /\ saved \in Seq(Position) /\ saved # << >> /\ saved' = saved
        /\ live' = saved[Len(saved)].live
    BY <1>5 DEF IInv, TypeOK, n_arena_restore, Newest
  <2> QED  BY <2>1 DEF Abstract!Undo
<1>6. CASE LeaveBlock
  <2>1. /\ saved \in Seq(Position) /\ saved # << >> /\ live' = live
        /\ saved' = SubSeq(saved, 1, Len(saved) - 1)
    BY <1>6 DEF IInv, TypeOK, LeaveBlock
  <2> QED  BY <2>1 DEF Abstract!Forget
<1>7. CASE \E b \in InitSize : NailArena_init(b)  BY <1>1, <1>7 DEF NailArena_init
<1>8. CASE NailArena_init_fails  BY <1>1, <1>8 DEF NailArena_init_fails
<1>9. CASE \E size \in Size : n_malloc_fails(size)  BY <1>2, <1>9 DEF n_malloc_fails
<1>10. CASE NullDereference  BY <1>1, <1>10 DEF NullDereference
<1>11. CASE NailArena_release  BY <1>2, <1>11 DEF NailArena_release
<1>12. CASE FreePool  BY <1>1, <1>12 DEF FreePool
<1>13. CASE EndRelease  BY <1>1, <1>13 DEF EndRelease
<1>14. CASE UNCHANGED vars  BY <1>1, <1>14 DEF vars
<1> QED
  BY <1>3, <1>4, <1>5, <1>6, <1>7, <1>8, <1>9, <1>10, <1>11, <1>12, <1>13, <1>14
  DEF Next

(* The arena only ever does what the memory of Regions may do: what it     *)
(* hands out is apart from everything live, and restoring a position gives *)
(* up exactly what was taken since.                                        *)
THEOREM Refinement == Spec => ImplementsRegions
<1>1. IInv /\ IInv' /\ [Next]_vars => [Abstract!Next]_(Abstract!vars)  BY AbstractStep
<1> QED  BY <1>1, AbstractInit, Inductive, PTL DEF Spec, ImplementsRegions, Abstract!Spec

=============================================================================
