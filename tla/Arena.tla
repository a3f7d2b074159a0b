------------------------------- MODULE Arena -------------------------------
(***************************************************************************)
(* NailArena (generator/parser_template.cc): the allocator every generated  *)
(* parser builds its result in.  Memory comes from malloc in pools; each    *)
(* pool starts with its NailArenaPool header and is filled upwards from     *)
(* iter towards end.  Backtracking saves a position (the current pool and   *)
(* its iter) and restores it when an alternative fails.                     *)
(*                                                                         *)
(* A pool is a model value, an address an offset into its pool.  The saved  *)
(* positions form a stack, because generated code keeps each one in a local *)
(* variable of the block of a choice, a repetition or an optional, and      *)
(* those blocks nest (generator/mk_directparser.cc).                        *)
(***************************************************************************)
EXTENDS Naturals, Sequences, FiniteSets

CONSTANTS Pool,       \* identities of the blocks malloc may return
          NoPool,     \* the null pointer
          Header,     \* sizeof(NailArenaPool); sizeof(NailArena) is the same, three words
          InitSize,   \* the block sizes callers ask NailArena_init for
          Size,       \* the sizes callers ask n_malloc for
          MaxMarks,   \* bound: how deep saved positions nest
          MaxIter     \* bound: how far iter runs in a pool that has overrun

ASSUME ConstantsAssumption ==
  /\ NoPool \notin Pool
  /\ Header \in Nat \ {0}
  /\ InitSize \subseteq Nat
  /\ Size \subseteq Nat
  /\ MaxMarks \in Nat /\ MaxIter \in Nat

VARIABLES status,     \* "raw", "up", "oom" (after longjmp), "releasing", "crashed"
          blocksize,  \* arena->blocksize
          current,    \* arena->current
          heap,       \* the pools malloc has returned and free has not taken back
          iter,       \* pool->iter
          end,        \* pool->end
          next,       \* pool->next
          saved,      \* saved NailArenaPos, oldest first; live is history (below)
          live        \* history: the allocations the parser may still use

poolVars == <<iter, end, next>>
vars == <<status, blocksize, current, heap, iter, end, next, saved, live>>

Statuses == {"raw", "up", "oom", "releasing", "crashed"}
Region == [pool : Pool, lo : Nat, hi : Nat]
Position == [pool : Pool, iter : Nat, live : SUBSET Region]

Init ==
  /\ status = "raw" /\ blocksize = 0 /\ current = NoPool /\ heap = {}
  /\ iter = [p \in Pool |-> 0] /\ end = [p \in Pool |-> 0]
  /\ next = [p \in Pool |-> NoPool]
  /\ saved = << >> /\ live = {}

-----------------------------------------------------------------------------
(* Mutants (names in PROJECT.json): each is the definition that follows it  *)
(* with one plausible mistake.                                             *)
NewPool_NextUnset(p, siz, below) ==
  /\ end' = [end EXCEPT ![p] = siz]
  /\ next' = [next EXCEPT ![p] = "unset"]
  /\ heap' = heap \cup {p}
  /\ current' = p
NewPool_UnlinksCurrent(p, siz, below) ==
  /\ end' = [end EXCEPT ![p] = siz]
  /\ next' = [next EXCEPT ![p] = IF below = NoPool THEN NoPool ELSE next[below]]
  /\ heap' = heap \cup {p}
  /\ current' = p
NewPool_SelfLoop(p, siz, below) ==
  /\ end' = [end EXCEPT ![p] = siz]
  /\ next' = [next EXCEPT ![p] = p]
  /\ heap' = heap \cup {p}
  /\ current' = p

(* A block of siz bytes from malloc becomes the pool p in front of below.  *)
NewPool(p, siz, below) ==
  /\ end' = [end EXCEPT ![p] = siz]
  /\ next' = [next EXCEPT ![p] = below]
  /\ heap' = heap \cup {p}
  /\ current' = p

Block(b) == IF b < 2 * Header THEN 2 * Header ELSE b

NailArena_init_IterAtHeader(b) ==
  /\ status = "raw"
  /\ \E p \in Pool \ heap :
       /\ NewPool(p, Block(b), NoPool)
       /\ iter' = [iter EXCEPT ![p] = 0]
  /\ blocksize' = Block(b)
  /\ status' = "up"
  /\ UNCHANGED <<saved, live>>

NailArena_init(b) ==
  /\ status = "raw"
  /\ \E p \in Pool \ heap :
       /\ NewPool(p, Block(b), NoPool)
       /\ iter' = [iter EXCEPT ![p] = Header]
  /\ blocksize' = Block(b)
  /\ status' = "up"
  /\ UNCHANGED <<saved, live>>

(* malloc fails: the function returns 0, no caller looks at it, and the    *)
(* arena is used with a null current.                                      *)
NailArena_init_fails ==
  /\ status = "raw"
  /\ current' = NoPool
  /\ status' = "up"
  /\ UNCHANGED <<blocksize, heap, poolVars, saved, live>>

(* end - iter is signed and size is not: once iter has run past end, the   *)
(* comparison sees a huge number and never asks for another pool.          *)
NeedPool(size) == /\ iter[current] <= end[current]
                  /\ end[current] - iter[current] <= size

PoolBytes_NoHeader(size) == IF size > blocksize THEN size ELSE blocksize

PoolBytes(size) == IF size > blocksize THEN size + Header ELSE blocksize

(* The bytes from at on in pool p are handed out and zeroed.               *)
Carve(p, at, size) ==
  /\ iter' = [iter EXCEPT ![p] = at + size]
  /\ live' = live \cup {[pool |-> p, lo |-> at, hi |-> at + size]}

n_malloc(size) ==
  /\ status = "up" /\ current # NoPool
  /\ \/ /\ ~NeedPool(size)
        /\ iter[current] > end[current] => iter[current] + size <= MaxIter
        /\ Carve(current, iter[current], size)
        /\ UNCHANGED <<current, heap, end, next>>
     \/ /\ NeedPool(size)
        /\ \E p \in Pool \ heap :
             /\ NewPool(p, PoolBytes(size), current)
             /\ Carve(p, Header, size)
  /\ UNCHANGED <<status, blocksize, saved>>

(* malloc fails inside n_malloc: longjmp leaves the parser for good.       *)
n_malloc_fails(size) ==
  /\ status = "up" /\ current # NoPool
  /\ NeedPool(size)
  /\ status' = "oom" /\ saved' = << >> /\ live' = {}
  /\ UNCHANGED <<blocksize, current, heap, poolVars>>

(* n_malloc and n_arena_save read arena->current-> first of all.           *)
NullDereference ==
  /\ status = "up" /\ current = NoPool
  /\ status' = "crashed"
  /\ UNCHANGED <<blocksize, current, heap, poolVars, saved, live>>

n_arena_save ==
  /\ status = "up" /\ current # NoPool
  /\ Len(saved) < MaxMarks
  /\ saved' = Append(saved, [pool |-> current, iter |-> iter[current], live |-> live])
  /\ UNCHANGED <<status, blocksize, current, heap, poolVars, live>>

Newest_Oldest == saved[1]

Newest == saved[Len(saved)]

n_arena_restore_EmptiesPool ==
  /\ status = "up" /\ saved # << >>
  /\ current' = Newest.pool
  /\ iter' = [iter EXCEPT ![Newest.pool] = Header]
  /\ live' = Newest.live
  /\ UNCHANGED <<status, blocksize, heap, end, next, saved>>
n_arena_restore_FreesCurrent ==
  /\ status = "up" /\ saved # << >>
  /\ heap' = heap \ {current}
  /\ current' = Newest.pool
  /\ iter' = [iter EXCEPT ![Newest.pool] = Newest.iter]
  /\ live' = Newest.live
  /\ UNCHANGED <<status, blocksize, end, next, saved>>

(* An alternative failed.  The position stays: the next alternative may    *)
(* fail too.                                                               *)
n_arena_restore ==
  /\ status = "up" /\ saved # << >>
  /\ current' = Newest.pool
  /\ iter' = [iter EXCEPT ![Newest.pool] = Newest.iter]
  /\ live' = Newest.live
  /\ UNCHANGED <<status, blocksize, heap, end, next, saved>>

(* The block that declared the newest position is left.                    *)
LeaveBlock ==
  /\ status = "up" /\ saved # << >>
  /\ saved' = SubSeq(saved, 1, Len(saved) - 1)
  /\ UNCHANGED <<status, blocksize, current, heap, poolVars, live>>

(* NailArena_release, entered by the application or its longjmp target ... *)
NailArena_release ==
  /\ status \in {"up", "oom"}
  /\ status' = "releasing" /\ saved' = << >> /\ live' = {}
  /\ UNCHANGED <<blocksize, current, heap, poolVars>>

(* ... one turn of its loop, and its end.                                  *)
FreePool ==
  /\ status = "releasing" /\ current # NoPool
  /\ current' = next[current]
  /\ heap' = heap \ {current}
  /\ UNCHANGED <<status, blocksize, poolVars, saved, live>>

EndRelease ==
  /\ status = "releasing" /\ current = NoPool
  /\ status' = "raw" /\ blocksize' = 0
  /\ UNCHANGED <<current, heap, poolVars, saved, live>>

Next ==
  \/ \E b \in InitSize : NailArena_init(b)
  \/ NailArena_init_fails
  \/ \E size \in Size : n_malloc(size) \/ n_malloc_fails(size)
  \/ NullDereference
  \/ n_arena_save \/ n_arena_restore \/ LeaveBlock
  \/ NailArena_release \/ FreePool \/ EndRelease

Spec == Init /\ [][Next]_vars

(* The release loop is straight-line sequential code: once entered, it     *)
(* runs until its condition is false.                                      *)
FairSpec == Spec /\ WF_vars(FreePool) /\ WF_vars(EndRelease)

-----------------------------------------------------------------------------
(* Type invariant of the arena's fields, the pools and the saved positions. *)
TypeOK ==
  /\ status \in Statuses
  /\ blocksize \in Nat
  /\ current \in Pool \cup {NoPool}
  /\ heap \subseteq Pool
  /\ iter \in [Pool -> Nat] /\ end \in [Pool -> Nat]
  /\ next \in [Pool -> Pool \cup {NoPool}]
  /\ saved \in Seq(Position)
  /\ live \subseteq Region

(* The pools a walk along next from p visits: the least set that holds p   *)
(* and is closed under next.  Reach is the walk of the release loop.       *)
Closed(nx, S) == \A q \in S : nx[q] \in S \cup {NoPool}
Chain(nx, p) == {q \in Pool : \A S \in SUBSET Pool :
                   p \in S \cup {NoPool} /\ Closed(nx, S) => q \in S}
Reach(p) == Chain(next, p)

Overlap(r, s) == r.pool = s.pool /\ r.lo < s.hi /\ s.lo < r.hi

(* Backtracking reuses memory: no two allocations the parser still holds   *)
(* may share a byte, whatever was saved, restored and allocated in between *)
(* (n_malloc's memset would wipe a result that is still referenced).       *)
LiveApart == \A r, s \in live : r # s => ~Overlap(r, s)

(* No allocation in use covers a pool's own header, whose next pointer the *)
(* release loop follows.                                                   *)
HeaderIntact == \A r \in live : Header <= r.lo

(* Every allocation in use lies inside the block malloc returned for it.    *)
(* The thesis promises safe interfaces for allocating memory                *)
(* (paper/thesis/design.tex:341); n_malloc gives a request that needs the   *)
(* header's share of a block an ordinary block all the same: it fails, and  *)
(* no run checks it.                                                       *)
LiveInPool == \A r \in live : r.pool \in heap /\ r.hi <= end[r.pool]

(* That is the only way out of a block, whatever was saved, restored and    *)
(* allocated: where an allocation in use leaves it, the pool is an ordinary *)
(* one whose first allocation, still in use, needed more than the header    *)
(* leaves.  A pool in which that one fits is never left.                    *)
FirstOverran(q, L) ==
  /\ end[q] = blocksize
  /\ \E r \in L : /\ r.pool = q /\ r.lo = Header
                  /\ r.hi > blocksize /\ r.hi <= blocksize + Header
Inside(at, q, L) == at <= end[q] \/ FirstOverran(q, L)
OverrunIsFirst == \A r \in live : r.pool \in heap /\ Inside(r.hi, r.pool, live)

(* n_arena_restore unlinks pools, yet never one that holds an allocation   *)
(* made before the restored position: NailArena_release will find the pool *)
(* of every allocation in use, and of every saved position.                *)
LiveReclaimable ==
  /\ \A r \in live : r.pool \in Reach(current)
  /\ \A i \in DOMAIN saved : saved[i].pool \in Reach(current)

(* The chain of pools never leads to freed memory: neither the release     *)
(* loop nor n_malloc touches a pool that free has taken back, and no pool  *)
(* is freed twice.                                                         *)
ChainAllocated == Reach(current) \subseteq heap

(* parser_template.cc:142, "memory will remain linked": a pool malloc has  *)
(* returned stays in the chain that NailArena_release frees.               *)
PoolsStayLinked == status = "up" => heap \subseteq Reach(current)

(* The release loop ends: the chain it follows has no cycle.               *)
ReleaseEnds == status = "releasing" ~> status = "raw"

-----------------------------------------------------------------------------
(* Why LiveApart and LiveReclaimable hold, as an inductive invariant.      *)

(* No pool comes back on the walk from its successor.                      *)
Acyclic == \A q \in Reach(current) : q \notin Chain(next, next[q])

(* Open positions nest: an older one lies deeper in the chain, holds fewer *)
(* allocations, and all of them are still live.                            *)
PositionsNest ==
  /\ \A i \in DOMAIN saved : /\ saved[i].pool \in Reach(current)
                             /\ saved[i].live \subseteq live
  /\ \A i, j \in DOMAIN saved : i < j =>
       /\ saved[i].pool \in Chain(next, saved[j].pool)
       /\ saved[i].live \subseteq saved[j].live

(* What a position remembers lies in its chain, below its iter.            *)
PositionsCover ==
  \A i \in DOMAIN saved :
    /\ Header <= saved[i].iter
    /\ \A r \in saved[i].live :
         /\ r.pool \in Chain(next, saved[i].pool)
         /\ r.pool = saved[i].pool => r.hi <= saved[i].iter

(* Everything live lies between the header and iter of a pool in the chain. *)
LiveBelowIter ==
  /\ \A q \in Reach(current) : Header <= iter[q]
  /\ \A r \in live : /\ r.pool \in Reach(current)
                     /\ Header <= r.lo /\ r.lo <= r.hi /\ r.hi <= iter[r.pool]

(* Outside a parse nothing is live and no position is open.                *)
IdleIsEmpty == status # "up" => live = {} /\ saved = << >>

IInv == TypeOK /\ ChainAllocated /\ Acyclic /\ PositionsNest /\ PositionsCover
          /\ LiveBelowIter /\ IdleIsEmpty /\ LiveApart

(* iter stays inside every pool in use, or the pool's first allocation is   *)
(* there to say why not: still live now, and, of the pools below an open    *)
(* position, live when that was saved, so that restoring it keeps it.       *)
IterInPool ==
  /\ status = "up" => \A q \in Reach(current) : Inside(iter[q], q, live)
  /\ \A i \in DOMAIN saved :
       /\ Inside(saved[i].iter, saved[i].pool, saved[i].live)
       /\ \A q \in Chain(next, saved[i].pool) \ {saved[i].pool} :
            Inside(iter[q], q, saved[i].live)

(* The arena implements Regions; restore is its Undo, and the pools are    *)
(* forgotten.                                                              *)
Abstract == INSTANCE Regions
              WITH marks <- [i \in DOMAIN saved |-> saved[i].live]
ImplementsRegions == Abstract!Spec
=============================================================================
