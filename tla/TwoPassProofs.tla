--------------------------- MODULE TwoPassProofs ---------------------------
(***************************************************************************)
(* The two passes of the C parser, for every grammar that is well formed    *)
(* and every input: the second pass follows the first, and neither reads    *)
(* past the end of a stream, but the first one where its check sees nothing. *)
(***************************************************************************)
EXTENDS CParser, Arithmetic, SequenceTheorems

-----------------------------------------------------------------------------
(* Sequences of whatever elements.                                         *)
IsSeq(s) == s \in Seq(Range(s))

LEMMA MakesSeq ==
  ASSUME NEW S, NEW s \in Seq(S)
  PROVE  IsSeq(s) /\ Len(s) \in Nat /\ DOMAIN s = 1..Len(s) /\ \A i \in 1..Len(s) : s[i] \in S
<1>1. Len(s) \in Nat /\ DOMAIN s = 1..Len(s) /\ \A i \in 1..Len(s) : s[i] \in S
  OBVIOUS
<1>2. s \in [1..Len(s) -> Range(s)]
  <2>1. s \in [1..Len(s) -> S]
    BY LenProperties
  <2>2. \A i \in 1..Len(s) : s[i] \in Range(s)
    BY <1>1 DEF Range
  <2> QED BY <1>1, <2>1, <2>2
<1>3. s \in Seq(Range(s))
  <2>1. Seq(Range(s)) = UNION {[1..n -> Range(s)] : n \in Nat}
    BY SeqDef
  <2> QED BY <1>1, <1>2, <2>1
<1> QED BY <1>1, <1>3 DEF IsSeq

LEMMA SeqIs ==
  ASSUME NEW s, IsSeq(s)
  PROVE  /\ Len(s) \in Nat /\ DOMAIN s = 1..Len(s) /\ (s = << >> <=> Len(s) = 0)
         /\ \A i \in 1..Len(s) : s[i] \in Range(s)
  BY DEF IsSeq

LEMMA Joined ==
  ASSUME NEW s, IsSeq(s), NEW t, IsSeq(t)
  PROVE  /\ IsSeq(s \o t) /\ Len(s \o t) = Len(s) + Len(t)
         /\ \A i \in 1..(Len(s) + Len(t)) :
              (s \o t)[i] = IF i <= Len(s) THEN s[i] ELSE t[i - Len(s)]
<1> DEFINE S == Range(s) \cup Range(t)
           u == s \o t
<1>1. s \in Seq(S) /\ t \in Seq(S)
  BY SeqMonotonic DEF IsSeq
<1> HIDE DEF S
<1>2. u \in Seq(S) /\ Len(u) = Len(s) + Len(t)
      /\ \A i \in 1..(Len(s) + Len(t)) : u[i] = IF i <= Len(s) THEN s[i] ELSE t[i - Len(s)]
  BY <1>1, ConcatProperties
<1> HIDE DEF u
<1>3. IsSeq(u)
  BY <1>2, MakesSeq
<1> QED BY <1>2, <1>3 DEF u

LEMMA Cut1 ==
  ASSUME NEW s, IsSeq(s), s # << >>
  PROVE  /\ IsSeq(SubSeq(s, 1, Len(s) - 1)) /\ Len(SubSeq(s, 1, Len(s) - 1)) = Len(s) - 1
         /\ \A i \in 1..(Len(s) - 1) : SubSeq(s, 1, Len(s) - 1)[i] = s[i]
<1>1. Len(s) \in Nat \ {0} /\ \A i \in 1..(Len(s) - 1) : s[i] \in Range(s)
  BY SeqIs
<1> DEFINE k == Len(s) - 1
           u == SubSeq(s, 1, k)
<1>2. k \in Nat
  BY <1>1
<1>3. /\ u \in Seq(Range(s)) /\ Len(u) = (IF 1 <= k THEN k - 1 + 1 ELSE 0)
      /\ \A i \in 1..(k - 1 + 1) : u[i] = s[1 + i - 1]
  <2>1. \A i \in 1..k : s[i] \in Range(s)
    BY <1>1
  <2> HIDE DEF k
  <2> QED BY <1>2, <2>1, SubSeqProperties
<1>4. /\ u \in Seq(Range(s)) /\ Len(u) = k /\ \A i \in 1..k : u[i] = s[i]
  <2> HIDE DEF u, k
  <2> QED BY <1>2, <1>3
<1> HIDE DEF u
<1>5. IsSeq(u)
  BY <1>4, MakesSeq
<1> QED BY <1>4, <1>5 DEF u

LEMMA Few ==
  ASSUME NEW a, NEW b, NEW d
  PROVE  /\ IsSeq(<< >>) /\ Len(<< >>) = 0
         /\ IsSeq(<<a>>) /\ Len(<<a>>) = 1 /\ <<a>>[1] = a
         /\ IsSeq(<<a, b>>) /\ Len(<<a, b>>) = 2 /\ <<a, b>>[1] = a /\ <<a, b>>[2] = b
         /\ IsSeq(<<a, b, d>>) /\ Len(<<a, b, d>>) = 3
         /\ <<a, b, d>>[1] = a /\ <<a, b, d>>[2] = b /\ <<a, b, d>>[3] = d
<1> DEFINE S == {a, b, d}
<1>1. a \in S /\ b \in S /\ d \in S
  OBVIOUS
<1> HIDE DEF S
<1>2. << >> \in Seq(S) /\ <<a>> \in Seq(S) /\ <<a, b>> \in Seq(S) /\ <<a, b, d>> \in Seq(S)
  BY <1>1
<1>3. IsSeq(<< >>) /\ IsSeq(<<a>>) /\ IsSeq(<<a, b>>) /\ IsSeq(<<a, b, d>>)
  <2>1. IsSeq(<< >>)
    BY <1>2, MakesSeq
  <2>2. IsSeq(<<a>>)
    BY <1>2, MakesSeq
  <2>3. IsSeq(<<a, b>>)
    BY <1>2, MakesSeq
  <2>4. IsSeq(<<a, b, d>>)
    BY <1>2, MakesSeq
  <2> QED BY <2>1, <2>2, <2>3, <2>4
<1> QED BY <1>3

-----------------------------------------------------------------------------
(* The states a pass goes through: from m turn by turn to r, as long as      *)
(* something is to do.                                                     *)
Goes(c, m, f, n) ==
  /\ f[0] = m
  /\ \A i \in 0..(n - 1) : f[i].todo # << >> /\ f[i + 1] = Turn(c, f[i])
Reaches(c, m, r) == \E n \in Nat : \E f : Goes(c, m, f, n) /\ f[n] = r

LEMMA ReachesItself == ASSUME NEW c, NEW m PROVE Reaches(c, m, m)
<1> DEFINE f == [i \in {0} |-> m]
<1>1. Goes(c, m, f, 0) /\ f[0] = m
  BY DEF Goes
<1> QED BY <1>1 DEF Reaches

LEMMA ReachesNext ==
  ASSUME NEW c, NEW m, NEW r, Reaches(c, m, r), r.todo # << >>
  PROVE  Reaches(c, m, Turn(c, r))
<1>0. PICK n \in Nat : \E f : Goes(c, m, f, n) /\ f[n] = r
  BY DEF Reaches
<1>1. PICK f : Goes(c, m, f, n) /\ f[n] = r
  BY <1>0
<1> DEFINE g == [i \in 0..(n + 1) |-> IF i = n + 1 THEN Turn(c, r) ELSE f[i]]
<1>2. g[n + 1] = Turn(c, r) /\ \A i \in 0..n : g[i] = f[i]
  OBVIOUS
<1> HIDE DEF g
<1>3. Goes(c, m, g, n + 1)
  <2>1. g[0] = m
    BY <1>1, <1>2 DEF Goes
  <2>2. ASSUME NEW i \in 0..n PROVE g[i].todo # << >> /\ g[i + 1] = Turn(c, g[i])
    <3>1. CASE i = n
      BY <1>1, <1>2, <3>1
    <3>2. CASE i < n
      <4>1. i \in 0..(n - 1) /\ i + 1 \in 0..n
        BY <3>2
      <4> QED BY <1>1, <1>2, <4>1 DEF Goes
    <3> QED BY <3>1, <3>2
  <2> QED BY <2>1, <2>2 DEF Goes
<1> QED BY <1>2, <1>3 DEF Reaches

(* Two states with nothing left to do are the same one.                     *)
LEMMA EndIsOne ==
  ASSUME NEW c, NEW m, NEW r, NEW s, Reaches(c, m, r), Reaches(c, m, s),
         r.todo = << >>, s.todo = << >>
  PROVE  r = s
<1>0. PICK n \in Nat, k \in Nat :
        (\E f : Goes(c, m, f, n) /\ f[n] = r) /\ \E g : Goes(c, m, g, k) /\ g[k] = s
  BY DEF Reaches
<1>1. PICK f : Goes(c, m, f, n) /\ f[n] = r
  BY <1>0
<1>2. PICK g : Goes(c, m, g, k) /\ g[k] = s
  BY <1>0
<1> DEFINE S == {i \in Nat : i <= n /\ i <= k => f[i] = g[i]}
<1>3. 0 \in S
  BY <1>1, <1>2 DEF Goes
<1>4. ASSUME NEW i \in S PROVE i + 1 \in S
  <2> SUFFICES ASSUME i + 1 <= n, i + 1 <= k PROVE f[i + 1] = g[i + 1]
    OBVIOUS
  <2>1. i \in 0..(n - 1) /\ i \in 0..(k - 1) /\ f[i] = g[i]
    OBVIOUS
  <2> QED BY <1>1, <1>2, <2>1 DEF Goes
<1>5. \A i \in Nat : i \in S
  <2> HIDE DEF S
  <2>1. S \in SUBSET Nat
    BY DEF S
  <2> QED BY <1>3, <1>4, <2>1, Inductive
<1>6. ~(n < k)
  <2> SUFFICES ASSUME n < k PROVE FALSE
    OBVIOUS
  <2>1. f[n] = g[n] /\ n \in 0..(k - 1)
    BY <1>5
  <2> QED BY <1>1, <1>2, <2>1 DEF Goes
<1>7. ~(k < n)
  <2> SUFFICES ASSUME k < n PROVE FALSE
    OBVIOUS
  <2>1. f[k] = g[k] /\ k \in 0..(n - 1)
    BY <1>5
  <2> QED BY <1>1, <1>2, <2>1 DEF Goes
<1>8. n = k
  BY <1>6, <1>7
<1> QED BY <1>1, <1>2, <1>5, <1>8

(* A pass reaches the state it is left in.                                  *)
LEMMA BurstReaches ==
  ASSUME NEW c, NEW m, NEW r, Reaches(c, m, r)
  PROVE  Reaches(c, m, Burst(c, r))
<1> DEFINE F(v) == IF v.todo = << >> THEN v ELSE Turn(c, v)
           Is(g, k) == g = [n \in 0..k |-> IF n = 0 THEN r ELSE F(g[n - 1])]
           S == {k \in Nat : \E g : Is(g, k)}
<1>1. 0 \in S
  <2> DEFINE g == [n \in 0..0 |-> r]
  <2>1. Is(g, 0)
    OBVIOUS
  <2> QED BY <2>1
<1>2. ASSUME NEW k \in S PROVE k + 1 \in S
  <2>1. PICK f : Is(f, k)
    OBVIOUS
  <2> DEFINE g == [n \in 0..(k + 1) |-> IF n = k + 1 THEN F(f[k]) ELSE f[n]]
  <2>2. DOMAIN g = 0..(k + 1) /\ g[k + 1] = F(f[k]) /\ \A n \in 0..k : g[n] = f[n]
    OBVIOUS
  <2>3. g = [n \in 0..(k + 1) |-> g[n]]
    OBVIOUS
  <2> HIDE DEF g, F
  <2>4. ASSUME NEW n \in 0..(k + 1) PROVE g[n] = IF n = 0 THEN r ELSE F(g[n - 1])
    <3>1. CASE n = k + 1
      BY <2>2, <3>1
    <3>2. CASE n \in 0..k
      <4>1. f[n] = IF n = 0 THEN r ELSE F(f[n - 1])
        BY <2>1, <3>2
      <4>2. n # 0 => n - 1 \in 0..k
        BY <3>2
      <4> QED BY <2>2, <3>2, <4>1, <4>2
    <3> QED BY <3>1, <3>2
  <2>5. Is(g, k + 1)
    BY <2>3, <2>4
  <2> QED BY <2>5
<1>3. \A k \in Nat : k \in S
  <2>1. S \in SUBSET Nat
    OBVIOUS
  <2> HIDE DEF S
  <2> QED BY <1>1, <1>2, <2>1, Inductive
<1> DEFINE after == CHOOSE g : Is(g, Turns)
<1>4. Is(after, Turns)
  <2>1. Turns \in S
    BY <1>3, TurnsAssumption
  <2> QED BY <2>1
<1>5. Burst(c, r) = after[Turns]
  BY DEF Burst, Repeat
<1> HIDE DEF after
<1> DEFINE T == {k \in Nat : k <= Turns => Reaches(c, m, after[k])}
<1>6. 0 \in T
  <2>1. after[0] = r
    BY <1>4, TurnsAssumption
  <2> QED BY <2>1
<1>7. ASSUME NEW k \in T PROVE k + 1 \in T
  <2> SUFFICES ASSUME k + 1 <= Turns PROVE Reaches(c, m, after[k + 1])
    OBVIOUS
  <2>1. Reaches(c, m, after[k])
    BY TurnsAssumption
  <2>2. after[k + 1] = F(after[k])
    <3>1. k + 1 \in 0..Turns /\ k + 1 # 0 /\ (k + 1) - 1 = k
      BY TurnsAssumption
    <3> HIDE DEF F
    <3> QED BY <1>4, <3>1
  <2>3. CASE after[k].todo = << >>
    BY <2>1, <2>2, <2>3
  <2>4. CASE after[k].todo # << >>
    <3>1. after[k + 1] = Turn(c, after[k])
      BY <2>2, <2>4
    <3> QED BY <2>1, <2>4, <3>1, ReachesNext
  <2> QED BY <2>3, <2>4
<1>8. Turns \in T
  <2>1. T \in SUBSET Nat
    OBVIOUS
  <2> HIDE DEF T
  <2> QED BY <1>6, <1>7, <2>1, Inductive, TurnsAssumption
<1> QED BY <1>5, <1>8, TurnsAssumption

LEMMA RoundReaches ==
  ASSUME NEW c, NEW m, NEW r, Reaches(c, m, r)
  PROVE  Reaches(c, m, Round(c, r))
<1> DEFINE F(v) == IF v.todo = << >> THEN v ELSE Burst(c, v)
           Is(g, k) == g = [n \in 0..k |-> IF n = 0 THEN r ELSE F(g[n - 1])]
           S == {k \in Nat : \E g : Is(g, k)}
<1>1. 0 \in S
  <2> DEFINE g == [n \in 0..0 |-> r]
  <2>1. Is(g, 0)
    OBVIOUS
  <2> QED BY <2>1
<1>2. ASSUME NEW k \in S PROVE k + 1 \in S
  <2>1. PICK f : Is(f, k)
    OBVIOUS
  <2> DEFINE g == [n \in 0..(k + 1) |-> IF n = k + 1 THEN F(f[k]) ELSE f[n]]
  <2>2. DOMAIN g = 0..(k + 1) /\ g[k + 1] = F(f[k]) /\ \A n \in 0..k : g[n] = f[n]
    OBVIOUS
  <2>3. g = [n \in 0..(k + 1) |-> g[n]]
    OBVIOUS
  <2> HIDE DEF g, F
  <2>4. ASSUME NEW n \in 0..(k + 1) PROVE g[n] = IF n = 0 THEN r ELSE F(g[n - 1])
    <3>1. CASE n = k + 1
      BY <2>2, <3>1
    <3>2. CASE n \in 0..k
      <4>1. f[n] = IF n = 0 THEN r ELSE F(f[n - 1])
        BY <2>1, <3>2
      <4>2. n # 0 => n - 1 \in 0..k
        BY <3>2
      <4> QED BY <2>2, <3>2, <4>1, <4>2
    <3> QED BY <3>1, <3>2
  <2>5. Is(g, k + 1)
    BY <2>3, <2>4
  <2> QED BY <2>5
<1>3. \A k \in Nat : k \in S
  <2>1. S \in SUBSET Nat
    OBVIOUS
  <2> HIDE DEF S
  <2> QED BY <1>1, <1>2, <2>1, Inductive
<1> DEFINE after == CHOOSE g : Is(g, Turns)
<1>4. Is(after, Turns)
  <2>1. Turns \in S
    BY <1>3, TurnsAssumption
  <2> QED BY <2>1
<1>5. Round(c, r) = after[Turns]
  BY DEF Round, Repeat
<1> HIDE DEF after
<1> DEFINE T == {k \in Nat : k <= Turns => Reaches(c, m, after[k])}
<1>6. 0 \in T
  <2>1. after[0] = r
    BY <1>4, TurnsAssumption
  <2> QED BY <2>1
<1>7. ASSUME NEW k \in T PROVE k + 1 \in T
  <2> SUFFICES ASSUME k + 1 <= Turns PROVE Reaches(c, m, after[k + 1])
    OBVIOUS
  <2>1. Reaches(c, m, after[k])
    BY TurnsAssumption
  <2>2. after[k + 1] = F(after[k])
    <3>1. k + 1 \in 0..Turns /\ k + 1 # 0 /\ (k + 1) - 1 = k
      BY TurnsAssumption
    <3> HIDE DEF F
    <3> QED BY <1>4, <3>1
  <2>3. CASE after[k].todo = << >>
    BY <2>1, <2>2, <2>3
  <2>4. CASE after[k].todo # << >>
    <3>1. after[k + 1] = Burst(c, after[k])
      BY <2>2, <2>4
    <3> QED BY <2>1, <2>4, <3>1, BurstReaches
  <2> QED BY <2>3, <2>4
<1>8. Turns \in T
  <2>1. T \in SUBSET Nat
    OBVIOUS
  <2> HIDE DEF T
  <2> QED BY <1>6, <1>7, <2>1, Inductive, TurnsAssumption
<1> QED BY <1>5, <1>8, TurnsAssumption

LEMMA RunReaches ==
  ASSUME NEW c, NEW m, NEW r, Reaches(c, m, r)
  PROVE  Reaches(c, m, Run(c, r))
<1> DEFINE F(v) == IF v.todo = << >> THEN v ELSE Round(c, v)
           Is(g, k) == g = [n \in 0..k |-> IF n = 0 THEN r ELSE F(g[n - 1])]
           S == {k \in Nat : \E g : Is(g, k)}
<1>1. 0 \in S
  <2> DEFINE g == [n \in 0..0 |-> r]
  <2>1. Is(g, 0)
    OBVIOUS
  <2> QED BY <2>1
<1>2. ASSUME NEW k \in S PROVE k + 1 \in S
  <2>1. PICK f : Is(f, k)
    OBVIOUS
  <2> DEFINE g == [n \in 0..(k + 1) |-> IF n = k + 1 THEN F(f[k]) ELSE f[n]]
  <2>2. DOMAIN g = 0..(k + 1) /\ g[k + 1] = F(f[k]) /\ \A n \in 0..k : g[n] = f[n]
    OBVIOUS
  <2>3. g = [n \in 0..(k + 1) |-> g[n]]
    OBVIOUS
  <2> HIDE DEF g, F
  <2>4. ASSUME NEW n \in 0..(k + 1) PROVE g[n] = IF n = 0 THEN r ELSE F(g[n - 1])
    <3>1. CASE n = k + 1
      BY <2>2, <3>1
    <3>2. CASE n \in 0..k
      <4>1. f[n] = IF n = 0 THEN r ELSE F(f[n - 1])
        BY <2>1, <3>2
      <4>2. n # 0 => n - 1 \in 0..k
        BY <3>2
      <4> QED BY <2>2, <3>2, <4>1, <4>2
    <3> QED BY <3>1, <3>2
  <2>5. Is(g, k + 1)
    BY <2>3, <2>4
  <2> QED BY <2>5
<1>3. \A k \in Nat : k \in S
  <2>1. S \in SUBSET Nat
    OBVIOUS
  <2> HIDE DEF S
  <2> QED BY <1>1, <1>2, <2>1, Inductive
<1> DEFINE after == CHOOSE g : Is(g, Turns)
<1>4. Is(after, Turns)
  <2>1. Turns \in S
    BY <1>3, TurnsAssumption
  <2> QED BY <2>1
<1>5. Run(c, r) = after[Turns]
  BY DEF Run, Repeat
<1> HIDE DEF after
<1> DEFINE T == {k \in Nat : k <= Turns => Reaches(c, m, after[k])}
<1>6. 0 \in T
  <2>1. after[0] = r
    BY <1>4, TurnsAssumption
  <2> QED BY <2>1
<1>7. ASSUME NEW k \in T PROVE k + 1 \in T
  <2> SUFFICES ASSUME k + 1 <= Turns PROVE Reaches(c, m, after[k + 1])
    OBVIOUS
  <2>1. Reaches(c, m, after[k])
    BY TurnsAssumption
  <2>2. after[k + 1] = F(after[k])
    <3>1. k + 1 \in 0..Turns /\ k + 1 # 0 /\ (k + 1) - 1 = k
      BY TurnsAssumption
    <3> HIDE DEF F
    <3> QED BY <1>4, <3>1
  <2>3. CASE after[k].todo = << >>
    BY <2>1, <2>2, <2>3
  <2>4. CASE after[k].todo # << >>
    <3>1. after[k + 1] = Round(c, after[k])
      BY <2>2, <2>4
    <3> QED BY <2>1, <2>4, <3>1, RoundReaches
  <2> QED BY <2>3, <2>4
<1>8. Turns \in T
  <2>1. T \in SUBSET Nat
    OBVIOUS
  <2> HIDE DEF T
  <2> QED BY <1>6, <1>7, <2>1, Inductive, TurnsAssumption
<1> QED BY <1>5, <1>8, TurnsAssumption

-----------------------------------------------------------------------------
(* Streams.  A position is within the stream, or inside a byte: a fragment   *)
(* of no bytes may be cut where no byte begins.  a is behind b on the same   *)
(* stream.                                                                 *)
Places(s) == {p \in Nat : p % PerByte = 0 => p <= s.size}
IsStream(s) ==
  /\ s = [data |-> s.data, base |-> s.base, size |-> s.size, pos |-> s.pos]
  /\ s.base \in Int /\ s.size \in Nat /\ s.pos \in Places(s)
Alike(a, b) ==
  /\ IsStream(a) /\ IsStream(b)
  /\ a.data = b.data /\ a.base = b.base /\ a.size = b.size
Behind(a, b) == Alike(a, b) /\ a.pos <= b.pos

LEMMA PosIsNat == ASSUME NEW s, IsStream(s) PROVE s.pos \in Nat /\ s.base \in Int /\ s.size \in Nat
  BY DEF IsStream, Places

LEMMA BehindItself == ASSUME NEW a, IsStream(a) PROVE Behind(a, a)
  BY PosIsNat DEF Behind, Alike

LEMMA BehindTrans ==
  ASSUME NEW a, NEW b, NEW d, Behind(a, b), Behind(b, d)
  PROVE  Behind(a, d)
  BY PosIsNat DEF Behind, Alike

LEMMA Moved ==
  ASSUME NEW a, NEW b, Alike(a, b), NEW p \in Places(b)
  PROVE  LET r == Reposition(a, p)
         IN IsStream(r) /\ r.pos = p /\ Alike(r, b) /\ (p = b.pos => r = b)
<1> DEFINE r == Reposition(a, p)
<1>1. r = [data |-> a.data, base |-> a.base, size |-> a.size, pos |-> p]
  BY DEF Alike, IsStream, Reposition
<1>2. IsStream(r) /\ r.pos = p /\ Alike(r, b)
  <2>1. r.data = a.data /\ r.base = a.base /\ r.size = a.size /\ r.pos = p
    BY <1>1
  <2>2. p \in Places(r)
    BY <2>1 DEF Alike, Places
  <2> QED BY <1>1, <2>1, <2>2 DEF Alike, IsStream
<1>3. p = b.pos => r = b
  BY <1>1 DEF Alike, IsStream
<1> QED BY <1>2, <1>3

LEMMA Forwarded ==
  ASSUME NEW a, IsStream(a), NEW n \in Nat, a.pos + n <= a.size
  PROVE  LET r == Forward(a, n)
         IN IsStream(r) /\ Alike(r, a) /\ r.pos = a.pos + n /\ Behind(a, r)
<1> DEFINE r == Forward(a, n)
<1>1. r = [data |-> a.data, base |-> a.base, size |-> a.size, pos |-> a.pos + n]
  BY DEF IsStream, Forward
<1>2. a.pos \in Nat
  BY PosIsNat
<1>3. r.data = a.data /\ r.base = a.base /\ r.size = a.size /\ r.pos = a.pos + n
  BY <1>1
<1>4. r.pos \in Places(r)
  BY <1>2, <1>3 DEF Places
<1>5. IsStream(r)
  BY <1>1, <1>3, <1>4 DEF IsStream
<1> QED BY <1>2, <1>3, <1>5 DEF Alike, Behind

LEMMA Window ==
  ASSUME NEW s, IsStream(s), NEW x \in Int, NEW y \in Nat, NEW z \in Nat, z % PerByte = 0 => z <= y
  PROVE  IsStream([s EXCEPT !.base = x, !.size = y, !.pos = z])
<1> DEFINE r1 == [s EXCEPT !.base = x]
           r2 == [r1 EXCEPT !.size = y]
           r3 == [r2 EXCEPT !.pos = z]
<1>1. s = [data |-> s.data, base |-> s.base, size |-> s.size, pos |-> s.pos]
  BY DEF IsStream
<1>2. r1 = [data |-> s.data, base |-> x, size |-> s.size, pos |-> s.pos]
  BY <1>1
<1> HIDE DEF r1
<1>3. r2 = [data |-> s.data, base |-> x, size |-> y, pos |-> s.pos]
  BY <1>2
<1> HIDE DEF r2
<1>4. r3 = [data |-> s.data, base |-> x, size |-> y, pos |-> z]
  BY <1>3
<1>5. [s EXCEPT !.base = x, !.size = y, !.pos = z] = r3
  BY DEF r1, r2
<1> HIDE DEF r3
<1>6. r3.data = s.data /\ r3.base = x /\ r3.size = y /\ r3.pos = z
  BY <1>4
<1>7. IsStream(r3)
  <2>1. r3.pos \in Places(r3)
    BY <1>6 DEF Places
  <2> QED BY <1>4, <1>6, <2>1 DEF IsStream
<1> QED BY <1>5, <1>7

LEMMA WindowAtStart ==
  ASSUME NEW s, IsStream(s), NEW x \in Int, NEW y \in Nat
  PROVE  IsStream([s EXCEPT !.base = x, !.size = y, !.pos = 0])
<1>1. PICK z \in Nat : z = 0
  OBVIOUS
<1>2. z % PerByte = 0 => z <= y
  BY <1>1
<1>3. IsStream([s EXCEPT !.base = x, !.size = y, !.pos = z])
  BY <1>2, Window
<1> QED BY <1>1, <1>3

(* Where a byte begins, no more is left of the stream than there is.        *)
LEMMA LeftOver ==
  ASSUME NEW s, IsStream(s), Aligned(s)
  PROVE  s.size - s.pos \in Nat
  BY PosIsNat DEF IsStream, Places, Aligned
LEMMA InBytes ==
  ASSUME NEW n \in Nat
  PROVE  BytesOf(n) \in Nat /\ n * PerByte \in Nat /\ n % PerByte \in Nat
         /\ (n % PerByte) % PerByte = n % PerByte /\ 0 % PerByte = 0
         /\ \E x \in Nat : x = BytesOf(n) * PerByte /\ n = x + (n % PerByte)
<1>1. n = (n \div PerByte) * PerByte + (n % PerByte) /\ n \div PerByte \in Nat /\ n % PerByte \in 0..(PerByte - 1)
  BY WholeAndRest, PerByteAssumption
<1>2. (n % PerByte) % PerByte = n % PerByte /\ 0 % PerByte = 0
  <2>1. \A r \in 0..(PerByte - 1) : (0 * PerByte + r) % PerByte = r
    BY PlaceOf, PerByteAssumption
  <2>2. \A r \in 0..(PerByte - 1) : 0 * PerByte + r = r
    BY PerByteAssumption
  <2>3. \A r \in 0..(PerByte - 1) : r % PerByte = r
    BY <2>1, <2>2
  <2> QED BY <1>1, <2>3, PerByteAssumption
<1>3. n * PerByte \in Nat /\ (n \div PerByte) * PerByte \in Nat
  BY <1>1, PerByteAssumption
<1>4. PICK x \in Nat : x = (n \div PerByte) * PerByte /\ n = x + (n % PerByte)
  BY <1>1, <1>3
<1> QED BY <1>1, <1>2, <1>3, <1>4 DEF BytesOf

(* The transforms of a well-formed grammar only move on.                    *)
Forwards == {"size_u32", "size", "offset", "offset_u32", "tail"}
LEMMA TransformGoesOn ==
  ASSUME NEW s, IsStream(s), NEW n \in Nat, NEW fn \in Forwards
  PROVE  LET t == Transform(fn, s, n)
         IN t.ok \in BOOLEAN /\ (t.ok => Behind(s, t.cur) /\ IsStream(t.out))
<1>0. n * PerByte \in Nat /\ s.pos \in Nat /\ s.base \in Int /\ s.size \in Nat /\ 0 % PerByte = 0
  BY InBytes, PosIsNat
<1>1. CASE fn = "size_u32"
  <2>1. Transform(fn, s, n) = size_u32_parse(s, n)
    BY <1>1 DEF Transform
  <2> DEFINE over == BytesOf(s.pos) + n > BytesOf(s.size)
  <2>2. CASE over
    BY <2>1, <2>2 DEF size_u32_parse, NoCut
  <2>3. CASE ~over
    <3>1. Transform(fn, s, n) =
            Cut([s EXCEPT !.base = @ + BytesOf(s.pos) * PerByte, !.size = n * PerByte,
                          !.pos = @ % PerByte], s)
      BY <2>1, <2>3 DEF size_u32_parse
    <3>2. PICK x \in Int, z \in Nat : /\ x = s.base + BytesOf(s.pos) * PerByte
                                      /\ z = s.pos % PerByte /\ z % PerByte = z
      <4>1. BytesOf(s.pos) \in Nat /\ s.pos % PerByte \in Nat /\ (s.pos % PerByte) % PerByte = s.pos % PerByte
        BY <1>0, InBytes
      <4>2. BytesOf(s.pos) * PerByte \in Nat
        BY <4>1, InBytes
      <4> QED BY <1>0, <4>1, <4>2
    <3>3. z % PerByte = 0 => z <= n * PerByte
      BY <1>0, <3>2
    <3>4. IsStream([s EXCEPT !.base = x, !.size = n * PerByte, !.pos = z])
      BY <1>0, <3>3, Window
    <3>5. Transform(fn, s, n) = Cut([s EXCEPT !.base = x, !.size = n * PerByte, !.pos = z], s)
      BY <3>1, <3>2
    <3> QED BY <3>4, <3>5, BehindItself DEF Cut
  <2> QED BY <2>2, <2>3
<1>2. CASE fn = "size"
  <2>1. Transform(fn, s, n) = size_parse(s, n)
    BY <1>2 DEF Transform
  <2> DEFINE over == ~Aligned(s) \/ n * PerByte > s.size - s.pos
  <2>2. CASE over
    <3>1. Transform(fn, s, n) = NoCut
      BY <2>1, <2>2 DEF size_parse
    <3> QED BY <3>1 DEF NoCut
  <2>3. CASE ~over
    <3>1. Transform(fn, s, n) =
            Cut([s EXCEPT !.base = @ + s.pos, !.size = n * PerByte, !.pos = 0], Forward(s, n * PerByte))
      BY <2>1, <2>3 DEF size_parse
    <3>2. IsStream([s EXCEPT !.base = @ + s.pos, !.size = n * PerByte, !.pos = 0])
      <4>1. s.base + s.pos \in Int
        BY <1>0
      <4> QED BY <1>0, <4>1, WindowAtStart
    <3>3. Behind(s, Forward(s, n * PerByte))
      <4>1. s.pos + n * PerByte <= s.size
        BY <1>0, <2>3
      <4> QED BY <1>0, <4>1, Forwarded
    <3> QED BY <3>1, <3>2, <3>3 DEF Cut
  <2> QED BY <2>2, <2>3
<1>3. CASE fn \in {"offset", "offset_u32"}
  <2>1. Transform(fn, s, n) = offset_parse(s, n)
    BY <1>3 DEF Transform
  <2>2. CASE n * PerByte > s.size
    <3>1. Transform(fn, s, n) = NoCut
      BY <2>1, <2>2 DEF offset_parse
    <3> QED BY <3>1 DEF NoCut
  <2>3. CASE ~(n * PerByte > s.size)
    <3>1. Transform(fn, s, n) =
            Cut([s EXCEPT !.base = @ + n * PerByte, !.size = @ - n * PerByte, !.pos = 0], s)
      BY <2>1, <2>3 DEF offset_parse
    <3>2. IsStream([s EXCEPT !.base = @ + n * PerByte, !.size = @ - n * PerByte, !.pos = 0])
      <4>1. s.base + n * PerByte \in Int /\ s.size - n * PerByte \in Nat
        BY <1>0, <2>3
      <4> QED BY <1>0, <4>1, WindowAtStart
    <3> QED BY <3>1, <3>2, BehindItself DEF Cut
  <2> QED BY <2>2, <2>3
<1>4. CASE fn = "tail"
  <2>1. Transform(fn, s, n) = tail_parse(s)
    BY <1>4 DEF Transform
  <2>2. CASE ~Aligned(s)
    BY <2>1, <2>2 DEF tail_parse, NoCut
  <2>3. CASE Aligned(s)
    <3>1. Transform(fn, s, n) =
            Cut([s EXCEPT !.base = @ + s.pos, !.size = @ - s.pos, !.pos = 0], Reposition(s, s.size))
      BY <2>1, <2>3 DEF tail_parse
    <3>2. s.size - s.pos \in Nat
      BY <2>3, LeftOver
    <3>3. IsStream([s EXCEPT !.base = @ + s.pos, !.size = @ - s.pos, !.pos = 0])
      <4>1. s.base + s.pos \in Int
        BY <1>0
      <4> QED BY <1>0, <3>2, <4>1, WindowAtStart
    <3>4. Behind(s, Reposition(s, s.size))
      <4>1. Alike(s, s)
        BY DEF Alike
      <4>2. s.size \in Places(s)
        BY <1>0 DEF Places
      <4>3. /\ IsStream(Reposition(s, s.size)) /\ Reposition(s, s.size).pos = s.size
            /\ Alike(Reposition(s, s.size), s)
        BY <4>1, <4>2, Moved
      <4> QED BY <1>0, <3>2, <4>3 DEF Behind, Alike
    <3> QED BY <3>1, <3>3, <3>4 DEF Cut
  <2> QED BY <2>2, <2>3
<1> QED BY <1>1, <1>2, <1>3, <1>4 DEF Forwards

-----------------------------------------------------------------------------
(* What the first pass keeps true.                                         *)

IsPeg(m) ==
  /\ m = [ok |-> m.ok, over |-> m.over, s |-> m.s, str |-> m.str, dep |-> m.dep, tr |-> m.tr,
          match |-> m.match, todo |-> m.todo]
  /\ m.ok \in BOOLEAN /\ m.over \in Nat
IsBind(b) ==
  /\ b = [s |-> b.s, ti |-> b.ti, vals |-> b.vals, lost |-> b.lost, over |-> b.over, todo |-> b.todo]
  /\ b.ti \in Nat /\ b.lost = FALSE /\ b.over = FALSE /\ IsSeq(b.todo)

(* An item of todo: something to do, or a frame.                            *)
ToDo(f) ==
  \/ f.do = "parse" /\ f.p \in Parsers
  \/ f.do = "constant" /\ f.k \in Constants
  \/ f.do = "constants" /\ f.ks \in Seq(Constants) /\ f.i \in Nat \ {0}
  \/ /\ f.do = "fields" /\ f.i \in Nat \ {0} /\ IsSeq(f.fs)
     /\ \A i \in 1..Len(f.fs) : WellFormedField(f.fs[i])
  \/ f.do = "times" /\ f.p \in Parsers
  \/ f.do = "dependency" /\ f.f[3].op = "integer" /\ Width(f.f[3]) /\ f.f[3].set \subseteq Nat
  \/ f.do = "transform" /\ f.f[2] \in Forwards
IsFrame(f) ==
  \/ f.do = "recorded"
  \/ /\ f.do = "alternative" /\ f.p \in Parsers /\ f.p.op \in {"choice", "nunion"}
     /\ f.i \in 1..Len(f.p.ps) /\ f.back \in Nat /\ f.at \in Nat
  \/ f.do = "more" /\ f.p \in Parsers /\ f.p.op = "array" /\ f.i \in Nat \ {0} /\ f.at \in Nat
  \/ f.do = "counted" /\ f.p \in Parsers /\ f.p.op = "length" /\ f.at \in Nat
  \/ f.do = "maybe" /\ f.p \in Parsers /\ f.p.op = "optional" /\ f.at \in Nat
  \/ f.do \in {"leave", "return"} /\ IsStream(f.s)

(* What is still to be matched of a constant.                              *)
Matchable(x) ==
  \/ x.do \in {"match", "again"} /\ x.k \in Constants
  \/ x.do = "symbols" /\ Width(x.k)
  \/ x.do = "matches" /\ x.ks \in Seq(Constants) /\ x.i \in Nat \ {0}
  \/ x.do = "either" /\ x.ks \in Seq(Constants) /\ x.i \in 1..Len(x.ks)

(* The cells a frame is going to fill in, counted from 1.                   *)
Own(f) ==
  IF f.do \in {"alternative", "more", "counted"} THEN {f.at + 1, f.at + 2}
  ELSE IF f.do = "maybe" THEN {f.at + 1} ELSE {}

Sound(m) ==
  /\ IsPeg(m) /\ IsSeq(m.todo) /\ IsSeq(m.tr) /\ IsSeq(m.match) /\ IsStream(m.s)
  /\ \A x \in DOMAIN m.dep : m.dep[x] \in Nat
  /\ \A x \in DOMAIN m.str : IsStream(m.str[x])
  /\ \A j \in 1..Len(m.todo) : ToDo(m.todo[j]) \/ IsFrame(m.todo[j])
  /\ \A j \in 1..Len(m.match) : Matchable(m.match[j])
  /\ m.over # 0 => m.todo = << >> /\ m.match = << >> /\ ~m.ok /\ Unseen(m.s, m.over)
  /\ m.match # << >> => m.todo # << >> /\ Top(m).do = "recorded"

(* Frames have cells of their own, later ones later cells.                  *)
Owned(m) ==
  /\ \A j \in 1..Len(m.todo) : Own(m.todo[j]) \subseteq 1..Len(m.tr)
  /\ \A j, k \in 1..Len(m.todo) :
       j < k => \A x \in Own(m.todo[j]), y \in Own(m.todo[k]) : x < y

(* Each item has a stream, lv, that was the current one, or behind it, when  *)
(* the item was left there, or when the attempt its frame stands for began. *)
Under(a, f, b) ==
  /\ f.do \in {"leave", "return"} => Behind(a, f.s)
  /\ f.do # "leave" => Behind(a, b)
From(a, b) == {p \in Places(b) : a.pos <= p}
Chain(m, lv) ==
  /\ \A j \in 1..Len(m.todo) : IsStream(lv[j])
  /\ \A j \in 1..(Len(m.todo) - 1) : Under(lv[j], m.todo[j + 1], lv[j + 1])
  /\ m.todo # << >> => Behind(lv[Len(m.todo)], m.s)
  /\ \A j \in 1..Len(m.todo) : m.todo[j].do = "alternative" => m.todo[j].back = lv[j].pos
  /\ \A j \in 1..Len(m.match) :
       m.match[j].do = "either" => m.match[j].back \in From(lv[Len(m.todo)], m.s)

(* The second pass's item for one of the first one's.                       *)
Mirrors(g, f) ==
  \/ ToDo(f) /\ g = f
  \/ f.do = "recorded" /\ g.do = "constant"
  \/ f.do = "alternative" /\ g = Picked(f.p, f.i)
  \/ f.do \in {"more", "counted"} /\ g = Elements(f.p, f.i, f.at)
  \/ f.do = "maybe" /\ g = Present(f.p)
  \/ f.do = "leave" /\ g.do = "back" /\ Behind(g.s, f.s)
  \/ f.do = "return" /\ g = Returned
Mirrored(b, todo, n) == \A j \in 1..n : Mirrors(b.todo[j], todo[j])

(* A trace q that may still become the one the first pass leaves: of n      *)
(* cells those that are filled in for good, and, for each frame, what it    *)
(* would fill in if all went well.                                         *)
Led(q) == [pass |-> "bind", defs |-> Defs, tr |-> q]
Agrees(q, m, n, cells) ==
  /\ Len(q) \in Nat /\ Len(q) >= cells
  /\ \A i \in 1..cells : q[i] = m.tr[i] \/ \E j \in 1..n : i \in Own(m.todo[j])
Suits(q, f) ==
  /\ f.do = "alternative" => q[f.at + 1] = f.p.tags[f.i] /\ q[f.at + 2] = f.from
  /\ f.do = "more" => q[f.at + 1] \in Int /\ q[f.at + 1] >= f.i
  /\ f.do = "counted" => q[f.at + 1] = f.n
  /\ f.do = "maybe" => q[f.at + 1] = -1
Fits(q, m) ==
  /\ Agrees(q, m, Len(m.todo), Len(m.tr))
  /\ \A j \in 1..Len(m.todo) : Suits(q, m.todo[j])

(* Led by any such trace the second pass gets to where the first one is.     *)
Stands(b, m) ==
  /\ IsBind(b) /\ b.ti = Len(m.tr)
  /\ Len(b.todo) = Len(m.todo) /\ Mirrored(b, m.todo, Len(m.todo))
  /\ Alike(b.s, m.s)
  /\ (m.todo # << >> => Top(m).do # "recorded") => Behind(b.s, m.s)
Followed(o, m) ==
  \A q : Fits(q, m) => \E b : Reaches(Led(q), o, b) /\ Stands(b, m)

(* And to where an attempt that may still fail began: an alternative, an    *)
(* element, an optional's body.  That depends on cells up to x only.        *)
Handles(f) == f.do \in {"alternative", "more", "maybe"}
Tries(q, m, i, x) ==
  /\ Agrees(q, m, i, x)
  /\ \A j \in 1..(i - 1) : Suits(q, m.todo[j])
  /\ m.todo[i].do = "more" => q[m.todo[i].at + 1] \in Int /\ q[m.todo[i].at + 1] >= m.todo[i].i - 1
StandsAt(b, todo, i, s) ==
  /\ IsBind(b) /\ Len(b.todo) = i /\ Mirrored(b, todo, i - 1) /\ Behind(b.s, s)
  /\ todo[i].do \in {"alternative", "maybe"} =>
       b.ti = todo[i].at /\ b.todo[i].do = "parse" /\ b.todo[i].p = todo[i].p
  /\ todo[i].do = "more" => b.todo[i] = Elements(todo[i].p, todo[i].i - 1, todo[i].at)
Level(o, m, i, s) ==
  \E x \in 0..Len(m.tr) :
    /\ \A j \in (i + 1)..Len(m.todo) : \A y \in Own(m.todo[j]) : y > x
    /\ \A q : Tries(q, m, i, x) => \E b : Reaches(Led(q), o, b) /\ StandsAt(b, m.todo, i, s)
Levels(o, m, lv) ==
  \A i \in 1..Len(m.todo) : Handles(m.todo[i]) => Level(o, m, i, lv[i])

Good(o, m, lv) ==
  /\ Sound(m) /\ Owned(m) /\ Chain(m, lv) /\ Levels(o, m, lv)
  /\ m.ok \/ m.match # << >> => Followed(o, m)

-----------------------------------------------------------------------------
(* What is below the top stays as it is.                                   *)

(* The trace grows, and changes only in the cells of the top frame.         *)
Patched(m, n) ==
  /\ Len(n.tr) \in Nat /\ Len(n.tr) >= Len(m.tr)
  /\ \A i \in 1..Len(m.tr) : n.tr[i] = m.tr[i] \/ i \in Own(Top(m))

LEMMA LevelKept ==
  ASSUME NEW o, NEW m, NEW n, Sound(m), Owned(m), m.todo # << >>, Patched(m, n),
         NEW i \in 1..(Len(m.todo) - 1), NEW s, Level(o, m, i, s),
         Len(n.todo) \in Nat,
         \A j \in 1..(Len(m.todo) - 1) : n.todo[j] = m.todo[j],
         \A j \in Len(m.todo)..Len(n.todo) : \A y \in Own(n.todo[j]) : y \in Int /\ (y > Len(m.tr) \/ y \in Own(Top(m)))
  PROVE  Level(o, n, i, s)
<1> DEFINE L == Len(m.todo)
<1>1. L \in Nat \ {0} /\ Len(m.tr) \in Nat
  BY SeqIs DEF Sound
<1>2. PICK x \in 0..Len(m.tr) :
        /\ \A j \in (i + 1)..L : \A y \in Own(m.todo[j]) : y > x
        /\ \A q : Tries(q, m, i, x) => \E b : Reaches(Led(q), o, b) /\ StandsAt(b, m.todo, i, s)
  BY DEF Level
<1>3. x \in 0..Len(n.tr)
  BY <1>1 DEF Patched
<1>4. \A y \in Own(Top(m)) : y > x
  BY <1>1, <1>2 DEF Top
<1>5. \A j \in (i + 1)..Len(n.todo) : \A y \in Own(n.todo[j]) : y > x
  <2> TAKE j \in (i + 1)..Len(n.todo)
  <2> TAKE y \in Own(n.todo[j])
  <2>1. CASE j < L
    BY <1>1, <1>2, <2>1
  <2>2. CASE j >= L
    <3>1. y \in Int /\ (y > Len(m.tr) \/ y \in Own(Top(m)))
      BY <1>1, <2>2
    <3> QED BY <1>1, <1>4, <3>1
  <2> QED BY <1>1, <2>1, <2>2
<1>6. \A c \in 1..x : n.tr[c] = m.tr[c]
  BY <1>1, <1>4 DEF Patched
<1>7. \A j \in 1..i : n.todo[j] = m.todo[j]
  BY <1>1
<1>8. ASSUME NEW q, Tries(q, n, i, x)
      PROVE  \E b : Reaches(Led(q), o, b) /\ StandsAt(b, n.todo, i, s)
  <2>1. Tries(q, m, i, x)
    <3>1. Agrees(q, m, i, x)
      BY <1>6, <1>7, <1>8 DEF Tries, Agrees
    <3>2. \A j \in 1..(i - 1) : Suits(q, m.todo[j])
      BY <1>7, <1>8 DEF Tries
    <3>3. m.todo[i].do = "more" => q[m.todo[i].at + 1] \in Int /\ q[m.todo[i].at + 1] >= m.todo[i].i - 1
      BY <1>7, <1>8 DEF Tries
    <3> QED BY <3>1, <3>2, <3>3 DEF Tries
  <2>2. PICK b : Reaches(Led(q), o, b) /\ StandsAt(b, m.todo, i, s)
    BY <1>2, <2>1
  <2>3. StandsAt(b, n.todo, i, s)
    <3>1. n.todo[i] = m.todo[i]
      BY <1>7
    <3>2. Mirrored(b, n.todo, i - 1)
      <4>1. Mirrored(b, m.todo, i - 1)
        BY <2>2 DEF StandsAt
      <4>2. \A j \in 1..(i - 1) : n.todo[j] = m.todo[j]
        BY <1>1, <1>7
      <4> QED BY <4>1, <4>2 DEF Mirrored
    <3> QED BY <2>2, <3>1, <3>2 DEF StandsAt
  <2> QED BY <2>2, <2>3
<1> QED BY <1>3, <1>5, <1>8 DEF Level

(* A turn: items take the place of the top one, on a stream sv.  The first   *)
(* of them may be a frame.                                                 *)
Starts(o, m, lv, n, items, sv) ==
  /\ IsStream(sv) /\ Behind(sv, n.s)
  /\ \A y \in Own(items[1]) : y \in 1..Len(n.tr) /\ (y > Len(m.tr) \/ y \in Own(Top(m)))
  /\ Len(m.todo) > 1 => Under(lv[Len(m.todo) - 1], items[1], sv)
  /\ items[1].do = "alternative" => items[1].back = sv.pos
  /\ Handles(items[1]) => Level(o, n, Len(m.todo), sv)
  /\ \A k \in 2..Len(items) : ToDo(items[k])
  /\ ToDo(items[1]) \/ IsFrame(items[1])
  /\ n.match # << >> => /\ Len(items) = 1 /\ items[1].do = "recorded"
                        /\ \A j \in 1..Len(n.match) : n.match[j].do # "either" /\ Matchable(n.match[j])
Typed(n) ==
  /\ IsPeg(n) /\ IsSeq(n.tr) /\ IsSeq(n.match) /\ IsStream(n.s)
  /\ \A x \in DOMAIN n.dep : n.dep[x] \in Nat
  /\ \A x \in DOMAIN n.str : IsStream(n.str[x])
  /\ n.over = 0

LEMMA OwnsNothing == ASSUME NEW f, ToDo(f) PROVE Own(f) = {} /\ ~Handles(f) /\ f.do \notin {"alternative", "leave", "return", "recorded"}
  BY DEF ToDo, Own, Handles

Replaced(todo, items) == SubSeq(todo, 1, Len(todo) - 1) \o items
LEMMA Put ==
  ASSUME NEW todo, IsSeq(todo), todo # << >>, NEW items, IsSeq(items)
  PROVE  /\ IsSeq(Replaced(todo, items)) /\ Len(Replaced(todo, items)) = Len(todo) - 1 + Len(items)
         /\ \A j \in 1..(Len(todo) - 1) : Replaced(todo, items)[j] = todo[j]
         /\ \A j \in Len(todo)..Len(Replaced(todo, items)) :
              /\ j - Len(todo) + 1 \in 1..Len(items) /\ items # << >>
              /\ Replaced(todo, items)[j] = items[j - Len(todo) + 1]
<1> DEFINE new == Replaced(todo, items)
<1>0. PICK L, K : L = Len(todo) /\ K = Len(items)
  OBVIOUS
<1>1. L \in Nat \ {0} /\ K \in Nat /\ (items = << >> <=> K = 0)
  BY <1>0, SeqIs
<1>2. PICK front : /\ IsSeq(front) /\ Len(front) = L - 1 /\ \A j \in 1..(L - 1) : front[j] = todo[j]
                   /\ front = SubSeq(todo, 1, L - 1)
  BY <1>0, Cut1
<1>3. /\ IsSeq(new) /\ Len(new) = L - 1 + K
      /\ \A i \in 1..(L - 1 + K) : new[i] = IF i <= L - 1 THEN front[i] ELSE items[i - (L - 1)]
  <2>1. new = front \o items
    BY <1>0, <1>2 DEF Replaced
  <2>2. /\ IsSeq(front \o items) /\ Len(front \o items) = Len(front) + Len(items)
        /\ \A i \in 1..(Len(front) + Len(items)) :
             (front \o items)[i] = IF i <= Len(front) THEN front[i] ELSE items[i - Len(front)]
    BY <1>2, Joined
  <2> QED BY <1>0, <1>2, <2>1, <2>2
<1> HIDE DEF new
<1>4. ASSUME NEW j \in 1..(L - 1) PROVE new[j] = todo[j]
  <2>1. j \in 1..(L - 1 + K) /\ j <= L - 1
    BY <1>1
  <2> QED BY <1>2, <1>3, <2>1
<1>5. ASSUME NEW j \in L..Len(new)
      PROVE  j - L + 1 \in 1..K /\ items # << >> /\ new[j] = items[j - L + 1]
  BY <1>1, <1>3
<1>6. /\ IsSeq(new) /\ Len(new) = Len(todo) - 1 + Len(items)
      /\ \A j \in 1..(Len(todo) - 1) : new[j] = todo[j]
      /\ \A j \in Len(todo)..Len(new) :
           /\ j - Len(todo) + 1 \in 1..Len(items) /\ items # << >>
           /\ new[j] = items[j - Len(todo) + 1]
  BY <1>0, <1>3, <1>4, <1>5
<1> QED BY <1>6 DEF new

LEMMA PutLen ==
  ASSUME NEW todo, IsSeq(todo), todo # << >>, NEW items, IsSeq(items), NEW new, new = Replaced(todo, items)
  PROVE  /\ IsSeq(new) /\ Len(new) = Len(todo) - 1 + Len(items)
         /\ \A j \in 1..(Len(todo) - 1) : new[j] = todo[j]
         /\ \A j \in Len(todo)..Len(new) :
              /\ j - Len(todo) + 1 \in 1..Len(items) /\ items # << >>
              /\ new[j] = items[j - Len(todo) + 1]
  BY Put

LEMMA TurnMade ==
  ASSUME NEW o, NEW m, NEW lv, Good(o, m, lv), m.todo # << >>,
         NEW n, Typed(n), Patched(m, n),
         NEW items, IsSeq(items), n.todo = SubSeq(m.todo, 1, Len(m.todo) - 1) \o items,
         NEW sv,
         items = << >> => n.match = << >> /\ (Len(m.todo) > 1 => Behind(lv[Len(m.todo) - 1], n.s)),
         items # << >> => Starts(o, m, lv, n, items, sv),
         n.ok \/ n.match # << >> => Followed(o, n)
  PROVE  \E lw : Good(o, n, lw)
<1>0. PICK L, K : L = Len(m.todo) /\ K = Len(items)
  OBVIOUS
<1>1. /\ L \in Nat \ {0} /\ K \in Nat /\ Len(m.tr) \in Nat /\ Len(n.tr) \in Nat
      /\ (items = << >> <=> K = 0)
  BY <1>0, SeqIs DEF Good, Sound, Typed
<1>12. /\ IsSeq(n.todo) /\ Len(n.todo) = Len(m.todo) - 1 + Len(items)
       /\ \A j \in 1..(Len(m.todo) - 1) : n.todo[j] = m.todo[j]
       /\ \A j \in Len(m.todo)..Len(n.todo) :
            /\ j - Len(m.todo) + 1 \in 1..Len(items) /\ items # << >>
            /\ n.todo[j] = items[j - Len(m.todo) + 1]
  <2>1. IsSeq(m.todo)
    BY DEF Good, Sound
  <2>2. n.todo = Replaced(m.todo, items)
    BY DEF Replaced
  <2> DEFINE new == Replaced(m.todo, items)
  <2>3. /\ IsSeq(new) /\ Len(new) = Len(m.todo) - 1 + Len(items)
        /\ \A j \in 1..(Len(m.todo) - 1) : new[j] = m.todo[j]
        /\ \A j \in Len(m.todo)..Len(new) :
             /\ j - Len(m.todo) + 1 \in 1..Len(items) /\ items # << >>
             /\ new[j] = items[j - Len(m.todo) + 1]
    BY <2>1, Put
  <2> QED BY <2>2, <2>3
<1>2. /\ IsSeq(n.todo) /\ Len(n.todo) = L - 1 + K
      /\ \A j \in 1..(L - 1) : n.todo[j] = m.todo[j]
  BY <1>0, <1>12
<1>3. \A j \in L..Len(n.todo) : j - L + 1 \in 1..K /\ n.todo[j] = items[j - L + 1] /\ items # << >>
  BY <1>0, <1>12
<1> DEFINE lw == [j \in 1..(L - 1 + K) |-> IF j < L THEN lv[j] ELSE sv]
<1>4. /\ \A j \in 1..(L - 1) : lw[j] = lv[j]
      /\ \A j \in L..Len(n.todo) : lw[j] = sv
  BY <1>1, <1>2
<1>5. \A j \in 1..Len(n.todo) : j \in 1..(L - 1) \/ j = L \/ (j \in (L + 1)..Len(n.todo) /\ ToDo(n.todo[j]))
  <2> TAKE j \in 1..Len(n.todo)
  <2> SUFFICES ASSUME j > L PROVE ToDo(n.todo[j])
    BY <1>1, <1>2
  <2>1. j - L + 1 \in 2..K /\ n.todo[j] = items[j - L + 1] /\ items # << >>
    <3>1. j \in L..Len(n.todo) /\ j - L + 1 # 1
      BY <1>1, <1>2
    <3>2. j - L + 1 \in 1..K /\ n.todo[j] = items[j - L + 1] /\ items # << >>
      BY <1>3, <3>1
    <3> QED BY <1>1, <3>1, <3>2
  <2> QED BY <1>0, <2>1 DEF Starts
<1> HIDE DEF lw
<1>6. /\ \A j \in 1..L : ToDo(m.todo[j]) \/ IsFrame(m.todo[j])
      /\ \A j \in 1..(L - 1) : \A y \in Own(m.todo[j]) : y \in 1..Len(m.tr) /\ \A z \in Own(Top(m)) : y < z
      /\ \A z \in Own(Top(m)) : z \in 1..Len(m.tr)
  <2>1. Owned(m) /\ Sound(m)
    BY DEF Good
  <2>2. L \in 1..L /\ Top(m) = m.todo[L] /\ \A j \in 1..(L - 1) : j \in 1..L /\ j < L
    BY <1>0, <1>1 DEF Top
  <2>3. \A j \in 1..L : Own(m.todo[j]) \subseteq 1..Len(m.tr)
    BY <1>0, <2>1 DEF Owned
  <2>4. \A j \in 1..(L - 1) : \A y \in Own(m.todo[j]), z \in Own(m.todo[L]) : y < z
    BY <1>0, <2>1, <2>2 DEF Owned
  <2>5. \A j \in 1..L : ToDo(m.todo[j]) \/ IsFrame(m.todo[j])
    BY <1>0, <2>1 DEF Sound
  <2> QED BY <2>2, <2>3, <2>4, <2>5
<1>7. L \in 1..Len(n.todo) => n.todo[L] = items[1] /\ items # << >> /\ lw[L] = sv
  <2> SUFFICES ASSUME L \in 1..Len(n.todo) PROVE n.todo[L] = items[1] /\ items # << >> /\ lw[L] = sv
    OBVIOUS
  <2>1. L \in L..Len(n.todo) /\ L - L + 1 = 1
    BY <1>1
  <2>2. n.todo[L] = items[L - L + 1] /\ items # << >>
    BY <1>3, <2>1
  <2>3. lw[L] = sv
    BY <1>4, <2>1
  <2> QED BY <2>1, <2>2, <2>3
<1>8. Sound(n)
  <2>1. \A j \in 1..Len(n.todo) : ToDo(n.todo[j]) \/ IsFrame(n.todo[j])
    <3> TAKE j \in 1..Len(n.todo)
    <3>1. CASE j \in 1..(L - 1)
      <4>1. j \in 1..L
        BY <1>1, <3>1
      <4> QED BY <1>2, <1>6, <3>1, <4>1
    <3>2. CASE j = L
      BY <1>7, <3>2 DEF Starts
    <3> QED BY <1>5, <3>1, <3>2
  <2>2. n.match # << >> => n.todo # << >> /\ Top(n).do = "recorded"
    <3> SUFFICES ASSUME n.match # << >> PROVE n.todo # << >> /\ Top(n).do = "recorded"
      OBVIOUS
    <3>1. K = 1 /\ items[1].do = "recorded" /\ items # << >>
      BY <1>0, <1>1 DEF Starts
    <3>2. Len(n.todo) = L /\ L \in 1..Len(n.todo)
      BY <1>1, <1>2, <3>1
    <3>3. n.todo[L] = items[1]
      BY <1>7, <3>2
    <3> QED BY <1>1, <1>2, <3>1, <3>2, <3>3, SeqIs DEF Top
  <2>3. \A j \in 1..Len(n.match) : Matchable(n.match[j])
    <3>1. CASE n.match = << >>
      BY <3>1, Few
    <3>2. CASE n.match # << >>
      BY <3>2 DEF Starts
    <3> QED BY <3>1, <3>2
  <2> QED BY <1>2, <2>1, <2>2, <2>3 DEF Sound, Typed
<1>9. Owned(n)
  <2>1. ASSUME NEW j \in 1..Len(n.todo) PROVE Own(n.todo[j]) \subseteq 1..Len(n.tr)
    <3>1. CASE j \in 1..(L - 1)
      <4>1. n.todo[j] = m.todo[j] /\ Own(m.todo[j]) \subseteq 1..Len(m.tr)
        BY <1>2, <1>6, <3>1
      <4>2. Len(n.tr) >= Len(m.tr)
        BY DEF Patched
      <4> QED BY <1>1, <4>1, <4>2
    <3>2. CASE j = L
      BY <1>7, <3>2 DEF Starts
    <3>3. CASE j \in (L + 1)..Len(n.todo) /\ ToDo(n.todo[j])
      BY <3>3, OwnsNothing
    <3> QED BY <1>5, <3>1, <3>2, <3>3
  <2>2. ASSUME NEW j \in 1..Len(n.todo), NEW k \in 1..Len(n.todo), j < k,
               NEW x \in Own(n.todo[j]), NEW y \in Own(n.todo[k])
        PROVE  x < y
    <3>1. CASE k \in 1..(L - 1)
      <4>1. j \in 1..(L - 1) /\ j \in 1..L /\ k \in 1..L
        BY <1>1, <1>2, <2>2, <3>1
      <4>2. x \in Own(m.todo[j]) /\ y \in Own(m.todo[k])
        BY <1>2, <3>1, <4>1
      <4>3. Owned(m)
        BY DEF Good
      <4>4. \A xx \in Own(m.todo[j]), yy \in Own(m.todo[k]) : xx < yy
        BY <1>0, <2>2, <4>1, <4>3 DEF Owned
      <4> QED BY <4>2, <4>4
    <3>2. CASE k = L
      <4>1. j \in 1..(L - 1)
        BY <1>1, <3>2, <2>2
      <4>2. x \in 1..Len(m.tr) /\ \A z \in Own(Top(m)) : x < z
        BY <1>2, <1>6, <4>1
      <4>3. y \in 1..Len(n.tr) /\ (y > Len(m.tr) \/ y \in Own(Top(m)))
        BY <1>7, <3>2 DEF Starts
      <4> QED BY <1>1, <4>2, <4>3
    <3>3. CASE k \in (L + 1)..Len(n.todo) /\ ToDo(n.todo[k])
      BY <3>3, OwnsNothing
    <3> QED BY <1>5, <3>1, <3>2, <3>3
  <2> QED BY <2>1, <2>2 DEF Owned
<1>10. Chain(n, lw)
  <2>1. Chain(m, lv)
    BY DEF Good
  <2>2. \A j \in 1..Len(n.todo) : IsStream(lw[j])
    <3>1. \A j \in 1..(L - 1) : IsStream(lw[j])
      BY <1>0, <1>1, <1>4, <2>1 DEF Chain
    <3>2. \A j \in L..Len(n.todo) : IsStream(lw[j])
      BY <1>3, <1>4 DEF Starts
    <3> QED BY <1>1, <3>1, <3>2
  <2>3. ASSUME NEW j \in 1..(Len(n.todo) - 1) PROVE Under(lw[j], n.todo[j + 1], lw[j + 1])
    <3>1. CASE j + 1 < L
      <4>1. j \in 1..(L - 1) /\ j + 1 \in 1..(L - 1)
        BY <1>1, <1>2, <3>1
      <4>2. Under(lv[j], m.todo[j + 1], lv[j + 1])
        BY <1>0, <2>1, <4>1 DEF Chain
      <4> QED BY <1>2, <1>4, <4>1, <4>2
    <3>2. CASE j + 1 = L
      <4>1. L > 1 /\ j \in 1..(L - 1) /\ j = L - 1 /\ L \in 1..Len(n.todo)
        BY <1>1, <1>2, <3>2
      <4>2. Under(lv[L - 1], items[1], sv)
        BY <1>0, <1>7, <4>1 DEF Starts
      <4> QED BY <1>4, <1>7, <3>2, <4>1, <4>2
    <3>3. CASE j + 1 > L
      <4>1. j \in L..Len(n.todo) /\ j + 1 \in (L + 1)..Len(n.todo) /\ j + 1 \in 1..Len(n.todo)
            /\ j + 1 \in L..Len(n.todo) /\ j + 1 \notin 1..(L - 1) /\ j + 1 # L
        <5>1. L \in Nat /\ Len(n.todo) \in Nat /\ j \in Nat
          BY <1>1, <1>2
        <5>2. j >= 1 /\ j + 1 <= Len(n.todo) /\ j >= L
          BY <3>3, <5>1
        <5> QED BY <5>1, <5>2
      <4>2. ToDo(n.todo[j + 1])
        BY <1>5, <4>1
      <4>3. lw[j] = sv /\ lw[j + 1] = sv /\ IsStream(sv)
        BY <1>3, <1>4, <4>1 DEF Starts
      <4>4. Behind(lw[j], lw[j + 1])
        BY <4>3, BehindItself
      <4>5. n.todo[j + 1].do \notin {"leave", "return"}
        BY <4>2, OwnsNothing
      <4> QED BY <4>4, <4>5 DEF Under
    <3>4. j + 1 < L \/ j + 1 = L \/ j + 1 > L
      BY <1>1, <1>2
    <3> QED BY <3>1, <3>2, <3>3, <3>4
  <2>4. n.todo # << >> => Behind(lw[Len(n.todo)], n.s)
    <3> SUFFICES ASSUME n.todo # << >> PROVE Behind(lw[Len(n.todo)], n.s)
      OBVIOUS
    <3>0. Len(n.todo) # 0
      BY <1>2, SeqIs
    <3>1. CASE K = 0
      <4>1. items = << >> /\ L > 1 /\ Len(n.todo) = L - 1 /\ lw[L - 1] = lv[L - 1]
        BY <1>1, <1>2, <1>4, <3>0, <3>1
      <4> QED BY <1>0, <4>1
    <3>2. CASE K > 0
      <4>1. items # << >> /\ lw[Len(n.todo)] = sv
        BY <1>1, <1>2, <1>4, <3>2
      <4> QED BY <4>1 DEF Starts
    <3> QED BY <1>1, <3>1, <3>2
  <2>5. ASSUME NEW j \in 1..Len(n.todo), n.todo[j].do = "alternative" PROVE n.todo[j].back = lw[j].pos
    <3>1. CASE j \in 1..(L - 1)
      <4>1. j \in 1..L /\ n.todo[j] = m.todo[j] /\ lw[j] = lv[j]
        BY <1>1, <1>2, <1>4, <3>1
      <4> QED BY <1>0, <2>1, <2>5, <4>1 DEF Chain
    <3>2. CASE j = L
      BY <1>7, <2>5, <3>2 DEF Starts
    <3>3. CASE j \in (L + 1)..Len(n.todo) /\ ToDo(n.todo[j])
      BY <2>5, <3>3, OwnsNothing
    <3> QED BY <1>5, <3>1, <3>2, <3>3
  <2>6. \A j \in 1..Len(n.match) : n.match[j].do # "either"
    <3>1. CASE n.match = << >>
      BY <3>1, Few
    <3>2. CASE n.match # << >>
      BY <3>2 DEF Starts
    <3> QED BY <3>1, <3>2
  <2> QED BY <2>2, <2>3, <2>4, <2>5, <2>6 DEF Chain
<1>11. Levels(o, n, lw)
  <2> SUFFICES ASSUME NEW i \in 1..Len(n.todo), Handles(n.todo[i]) PROVE Level(o, n, i, lw[i])
    BY DEF Levels
  <2>1. CASE i \in 1..(L - 1)
    <3>1. Handles(m.todo[i]) /\ i \in 1..L
      BY <1>1, <1>2, <2>1
    <3>2. Level(o, m, i, lv[i])
      BY <1>0, <3>1 DEF Good, Levels
    <3>3. \A j \in L..Len(n.todo) : \A y \in Own(n.todo[j]) : y \in Int /\ (y > Len(m.tr) \/ y \in Own(Top(m)))
      <4> TAKE j \in L..Len(n.todo)
      <4>1. CASE j = L
        <5>1. j \in 1..Len(n.todo) /\ n.todo[j] = items[1] /\ items # << >>
          BY <1>1, <1>7, <4>1
        <5> QED BY <5>1 DEF Starts
      <4>2. CASE j # L
        <5>1. j \in 1..Len(n.todo) /\ j \notin 1..(L - 1)
          BY <1>1, <4>2
        <5> QED BY <1>5, <4>2, <5>1, OwnsNothing
      <4> QED BY <4>1, <4>2
    <3>4. Level(o, n, i, lv[i])
      <4>1. Sound(m) /\ Owned(m) /\ Len(n.todo) \in Nat
        BY <1>2, SeqIs DEF Good
      <4> QED BY <1>0, <1>2, <2>1, <3>2, <3>3, <4>1, LevelKept
    <3> QED BY <1>4, <2>1, <3>4
  <2>2. CASE i = L
    BY <1>0, <1>7, <2>2 DEF Starts
  <2>3. CASE i \in (L + 1)..Len(n.todo) /\ ToDo(n.todo[i])
    BY <2>3, OwnsNothing
  <2> QED BY <1>5, <2>1, <2>2, <2>3
<1> QED BY <1>8, <1>9, <1>10, <1>11 DEF Good

-----------------------------------------------------------------------------
(* What is known of the item on top.                                       *)
(* A state of the first pass that has not read past an end.                 *)
Plain(m) ==
  m = [ok |-> m.ok, over |-> 0, s |-> m.s, str |-> m.str, dep |-> m.dep, tr |-> m.tr,
       match |-> m.match, todo |-> m.todo]
Has(m, ok, s, str, dep, tr, match, todo) ==
  /\ Plain(m) /\ m.ok = ok /\ m.s = s /\ m.str = str /\ m.dep = dep /\ m.tr = tr
  /\ m.match = match /\ m.todo = todo

LEMMA TopIs ==
  ASSUME NEW o, NEW m, NEW lv, Good(o, m, lv), m.todo # << >>
  PROVE  /\ Len(m.todo) \in Nat \ {0} /\ Len(m.tr) \in Nat /\ IsSeq(m.todo) /\ IsSeq(m.tr)
         /\ Plain(m) /\ m.ok \in BOOLEAN
         /\ Top(m) = m.todo[Len(m.todo)] /\ (ToDo(Top(m)) \/ IsFrame(Top(m)))
         /\ IsStream(m.s) /\ IsStream(lv[Len(m.todo)]) /\ Behind(lv[Len(m.todo)], m.s)
         /\ Len(m.todo) > 1 => Under(lv[Len(m.todo) - 1], Top(m), lv[Len(m.todo)])
         /\ Own(Top(m)) \subseteq 1..Len(m.tr)
         /\ \A j \in 1..(Len(m.todo) - 1) : \A y \in Own(m.todo[j]) :
              y \in 1..Len(m.tr) /\ y \notin Own(Top(m))
<1>0. PICK L : L = Len(m.todo)
  OBVIOUS
<1>1. Sound(m) /\ Owned(m) /\ Chain(m, lv)
  BY DEF Good
<1>2. IsSeq(m.todo) /\ IsSeq(m.tr) /\ L \in Nat \ {0} /\ Len(m.tr) \in Nat
  BY <1>0, <1>1, SeqIs DEF Sound
<1>3. m.ok \in BOOLEAN /\ m.over = 0
  BY <1>1 DEF Sound, IsPeg
<1>4. Plain(m)
  BY <1>1, <1>3 DEF Sound, IsPeg, Plain
<1>5. L \in 1..L /\ Top(m) = m.todo[L]
  BY <1>0, <1>2 DEF Top
<1>6. ToDo(Top(m)) \/ IsFrame(Top(m))
  BY <1>0, <1>1, <1>5 DEF Sound
<1>7. IsStream(m.s) /\ IsStream(lv[L]) /\ Behind(lv[L], m.s)
  BY <1>0, <1>1, <1>5 DEF Sound, Chain
<1>8. L > 1 => Under(lv[L - 1], Top(m), lv[L])
  <2> SUFFICES ASSUME L > 1 PROVE Under(lv[L - 1], Top(m), lv[L])
    OBVIOUS
  <2>1. L - 1 \in 1..(L - 1) /\ (L - 1) + 1 = L
    BY <1>2
  <2>2. \A j \in 1..(L - 1) : Under(lv[j], m.todo[j + 1], lv[j + 1])
    BY <1>0, <1>1 DEF Chain
  <2>3. Under(lv[L - 1], m.todo[(L - 1) + 1], lv[(L - 1) + 1])
    BY <2>1, <2>2
  <2> QED BY <1>5, <2>1, <2>3
<1>9. Own(Top(m)) \subseteq 1..Len(m.tr)
  BY <1>0, <1>1, <1>5 DEF Owned
<1>10. ASSUME NEW j \in 1..(L - 1), NEW y \in Own(m.todo[j])
       PROVE  y \in 1..Len(m.tr) /\ y \notin Own(Top(m))
  <2>1. j \in 1..L /\ j < L
    BY <1>2
  <2>2. y \in 1..Len(m.tr)
    BY <1>0, <1>1, <2>1 DEF Owned
  <2>3. \A x \in Own(m.todo[j]), z \in Own(m.todo[L]) : x < z
    BY <1>0, <1>1, <1>5, <2>1 DEF Owned
  <2>4. ASSUME y \in Own(Top(m)) PROVE FALSE
    BY <1>5, <2>2, <2>3, <2>4
  <2> QED BY <2>2, <2>4
<1> QED BY <1>0, <1>2, <1>3, <1>4, <1>5, <1>6, <1>7, <1>8, <1>9, <1>10

LEMMA TypedPeg ==
  ASSUME NEW n, NEW ok \in BOOLEAN, NEW s, IsStream(s), NEW str, \A x \in DOMAIN str : IsStream(str[x]),
         NEW dep, \A x \in DOMAIN dep : dep[x] \in Nat, NEW tr, IsSeq(tr),
         NEW match, IsSeq(match), NEW todo, Has(n, ok, s, str, dep, tr, match, todo)
  PROVE  Typed(n)
<1>0. n = [ok |-> n.ok, over |-> 0, s |-> n.s, str |-> n.str, dep |-> n.dep, tr |-> n.tr,
           match |-> n.match, todo |-> n.todo]
      /\ n.ok \in BOOLEAN
  BY DEF Has, Plain
<1>1. n.over = 0
  BY <1>0
<1>2. IsPeg(n)
  BY <1>0, <1>1 DEF IsPeg
<1> QED BY <1>1, <1>2 DEF Typed, Has

(* Behind a body that is over, or in place of one.                          *)
LEMMA StillBehind ==
  ASSUME NEW o, NEW m, NEW lv, Good(o, m, lv), m.todo # << >>, Top(m).do # "leave"
  PROVE  Len(m.todo) > 1 =>
           Behind(lv[Len(m.todo) - 1], m.s) /\ Behind(lv[Len(m.todo) - 1], lv[Len(m.todo)])
<1> SUFFICES ASSUME Len(m.todo) > 1
             PROVE  Behind(lv[Len(m.todo) - 1], m.s) /\ Behind(lv[Len(m.todo) - 1], lv[Len(m.todo)])
  OBVIOUS
<1>1. PICK L : L = Len(m.todo)
  OBVIOUS
<1>2. Under(lv[L - 1], Top(m), lv[L]) /\ Behind(lv[L], m.s)
  BY <1>1, TopIs
<1>3. Behind(lv[L - 1], lv[L])
  BY <1>2 DEF Under
<1>4. Behind(lv[L - 1], m.s)
  BY <1>2, <1>3, BehindTrans
<1> QED BY <1>1, <1>3, <1>4

-----------------------------------------------------------------------------
(* A trace that suits the state after a turn suits the one before, if it     *)
(* suits the item that was done.                                           *)
Keeps(m, n, items) ==
  /\ Patched(m, n) /\ IsSeq(items) /\ n.todo = Replaced(m.todo, items)
  /\ \A k \in 1..Len(items) : \A y \in Own(items[k]) :
       y \in Int /\ (y > Len(m.tr) \/ y \in Own(Top(m)))

LEMMA KeptBelow ==
  ASSUME NEW o, NEW m, NEW lv, Good(o, m, lv), m.todo # << >>, NEW n, NEW items, Keeps(m, n, items)
  PROVE  /\ IsSeq(n.todo) /\ Len(n.todo) = Len(m.todo) - 1 + Len(items)
         /\ \A j \in 1..(Len(m.todo) - 1) : n.todo[j] = m.todo[j]
         /\ \A k \in 1..Len(items) : n.todo[Len(m.todo) - 1 + k] = items[k]
         /\ \A j \in Len(m.todo)..Len(n.todo) : \A y \in Own(n.todo[j]) :
              y \in Int /\ (y > Len(m.tr) \/ y \in Own(Top(m)))
<1>0. PICK L, K : L = Len(m.todo) /\ K = Len(items)
  OBVIOUS
<1>1. IsSeq(m.todo) /\ L \in Nat \ {0} /\ IsSeq(items) /\ K \in Nat
  BY <1>0, TopIs, SeqIs DEF Keeps
<1>2. PICK todo, new : todo = m.todo /\ new = Replaced(todo, items)
  OBVIOUS
<1>3. /\ IsSeq(new) /\ Len(new) = L - 1 + K
      /\ \A j \in 1..(L - 1) : new[j] = m.todo[j]
      /\ \A j \in L..Len(new) :
           j - L + 1 \in 1..K /\ items # << >> /\ new[j] = items[j - L + 1]
  <2>1. IsSeq(todo) /\ IsSeq(items) /\ todo # << >> /\ new = Replaced(todo, items)
    BY <1>1, <1>2
  <2>2. IsSeq(new) /\ Len(new) = Len(todo) - 1 + Len(items)
    BY <2>1, PutLen
  <2>3. \A j \in 1..(Len(todo) - 1) : new[j] = todo[j]
    BY <2>1, PutLen
  <2>4. \A j \in Len(todo)..Len(new) :
          j - Len(todo) + 1 \in 1..Len(items) /\ items # << >> /\ new[j] = items[j - Len(todo) + 1]
    BY <2>1, PutLen
  <2>5. Len(todo) = L /\ Len(items) = K /\ todo = m.todo
    BY <1>0, <1>2
  <2> QED BY <2>2, <2>3, <2>4, <2>5
<1>4. n.todo = new
  BY <1>2 DEF Keeps, Replaced
<1>5. ASSUME NEW k \in 1..K PROVE new[L - 1 + k] = items[k]
  <2>1. L - 1 + k \in L..Len(new) /\ (L - 1 + k) - L + 1 = k
    BY <1>1, <1>3
  <2> QED BY <1>3, <2>1
<1>6. ASSUME NEW j \in L..Len(new), NEW y \in Own(new[j])
      PROVE  y \in Int /\ (y > Len(m.tr) \/ y \in Own(Top(m)))
  <2>1. j - L + 1 \in 1..K /\ new[j] = items[j - L + 1]
    BY <1>3
  <2> QED BY <1>0, <2>1 DEF Keeps
<1> QED BY <1>0, <1>3, <1>4, <1>5, <1>6

LEMMA AgreesBefore ==
  ASSUME NEW o, NEW m, NEW lv, Good(o, m, lv), m.todo # << >>, NEW n, NEW items, Keeps(m, n, items),
         NEW q, NEW k \in 0..Len(n.todo), NEW x \in 0..Len(m.tr), NEW z, z >= x, z \in Nat,
         Agrees(q, n, k, z)
  PROVE  Agrees(q, m, Len(m.todo), x)
<1>0. PICK L : L = Len(m.todo)
  OBVIOUS
<1>1. L \in Nat \ {0} /\ Len(m.tr) \in Nat /\ Top(m) = m.todo[L]
  BY <1>0, TopIs
<1>2. Len(n.todo) \in Nat
  BY KeptBelow, SeqIs
<1>3. Len(q) \in Nat /\ Len(q) >= x
  BY <1>1 DEF Agrees
<1>4. ASSUME NEW i \in 1..x PROVE q[i] = m.tr[i] \/ \E j \in 1..L : i \in Own(m.todo[j])
  <2>0. i \in 1..z /\ i \in 1..Len(m.tr)
    BY <1>1
  <2>1. CASE q[i] = n.tr[i]
    <3>1. n.tr[i] = m.tr[i] \/ i \in Own(Top(m))
      BY <2>0 DEF Keeps, Patched
    <3> QED BY <1>1, <2>1, <3>1
  <2>2. CASE \E j \in 1..k : i \in Own(n.todo[j])
    <3>1. PICK j \in 1..k : i \in Own(n.todo[j])
      BY <2>2
    <3>2. CASE j < L
      <4>1. j \in 1..(L - 1)
        BY <1>1, <1>2, <3>2
      <4>2. n.todo[j] = m.todo[j]
        BY <1>0, <4>1, KeptBelow
      <4> QED BY <1>1, <3>1, <4>1, <4>2
    <3>3. CASE j >= L
      <4>1. j \in L..Len(n.todo)
        BY <1>1, <1>2, <3>3
      <4>2. i > Len(m.tr) \/ i \in Own(Top(m))
        BY <1>0, <3>1, <4>1, KeptBelow
      <4> QED BY <1>1, <2>0, <4>2
    <3> QED BY <1>1, <1>2, <3>2, <3>3
  <2> QED BY <2>0, <2>1, <2>2 DEF Agrees
<1> QED BY <1>0, <1>3, <1>4 DEF Agrees

LEMMA FitsBefore ==
  ASSUME NEW o, NEW m, NEW lv, Good(o, m, lv), m.todo # << >>, NEW n, NEW items, Keeps(m, n, items),
         NEW q, NEW k \in 0..Len(n.todo), Agrees(q, n, k, Len(n.tr)),
         \A j \in 1..(Len(m.todo) - 1) : Suits(q, n.todo[j]), Suits(q, Top(m))
  PROVE  Fits(q, m)
<1>0. PICK L : L = Len(m.todo)
  OBVIOUS
<1>1. L \in Nat \ {0} /\ Len(m.tr) \in Nat /\ Top(m) = m.todo[L]
  BY <1>0, TopIs
<1>2. Agrees(q, m, L, Len(m.tr))
  <2>1. Len(n.tr) \in Nat /\ Len(n.tr) >= Len(m.tr) /\ Len(m.tr) \in 0..Len(m.tr)
    BY <1>1 DEF Keeps, Patched
  <2> QED BY <1>0, <2>1, AgreesBefore
<1>3. ASSUME NEW j \in 1..L PROVE Suits(q, m.todo[j])
  <2>1. CASE j = L
    BY <1>1, <2>1
  <2>2. CASE j \in 1..(L - 1)
    <3>1. n.todo[j] = m.todo[j]
      BY <1>0, <2>2, KeptBelow
    <3> QED BY <1>0, <2>2, <3>1
  <2> QED BY <1>1, <2>1, <2>2
<1> QED BY <1>0, <1>2, <1>3 DEF Fits

(* What a trace that suits has in the cells no frame owns.                  *)
LEMMA Told ==
  ASSUME NEW o, NEW m, NEW lv, Good(o, m, lv), m.todo # << >>, NEW n, NEW items, Keeps(m, n, items),
         NEW q, Fits(q, n), NEW c \in 1..Len(n.tr),
         \A k \in 1..Len(items) : c \notin Own(items[k]),
         c \in Own(Top(m)) \/ c > Len(m.tr)
  PROVE  q[c] = n.tr[c] /\ Len(q) \in Nat /\ Len(q) >= Len(n.tr)
<1>0. PICK L, K : L = Len(m.todo) /\ K = Len(items)
  OBVIOUS
<1>1. L \in Nat \ {0} /\ Len(m.tr) \in Nat /\ IsSeq(items) /\ K \in Nat
  BY <1>0, TopIs, SeqIs DEF Keeps
<1>2. Agrees(q, n, Len(n.todo), Len(n.tr))
  BY DEF Fits
<1>3. ASSUME NEW j \in 1..Len(n.todo), c \in Own(n.todo[j]) PROVE FALSE
  <2>1. CASE j < L
    <3>1. j \in 1..(L - 1)
      BY <1>1, <2>1
    <3>2. n.todo[j] = m.todo[j]
      BY <1>0, <3>1, KeptBelow
    <3>3. c \in 1..Len(m.tr) /\ c \notin Own(Top(m))
      BY <1>0, <1>3, <3>1, <3>2, TopIs
    <3> QED BY <1>1, <3>3
  <2>2. CASE j >= L
    <3>1. PICK k : k = j - L + 1
      OBVIOUS
    <3>2. Len(n.todo) = L - 1 + K
      BY <1>0, KeptBelow
    <3>3. k \in 1..K /\ j = L - 1 + k
      BY <1>1, <2>2, <3>1, <3>2
    <3>4. n.todo[L - 1 + k] = items[k]
      BY <1>0, <3>3, KeptBelow
    <3> QED BY <1>0, <1>3, <3>3, <3>4
  <2> QED BY <1>1, <2>1, <2>2
<1> QED BY <1>2, <1>3 DEF Agrees

-----------------------------------------------------------------------------
(* The second pass goes a turn further, to where the first one is after its *)
(* own: at b, whose last item reads the cells of q.                         *)
IsB(b) ==
  b = [s |-> b.s, ti |-> b.ti, vals |-> b.vals, lost |-> b.lost, over |-> b.over, todo |-> b.todo]
HasB(b, s, ti, vals, lost, over, todo) ==
  /\ IsB(b) /\ b.s = s /\ b.ti = ti /\ b.vals = vals /\ b.lost = lost /\ b.over = over
  /\ b.todo = todo
Steps(q, b, n, items) ==
  /\ ~Loses(Led(q), b, Top(b)) /\ ~ReadsOver(b, Top(b))
  /\ \E s, new :
       /\ HasB(BindItem(Led(q), b, Top(b)), s, Len(n.tr), b.vals, b.lost, b.over, Replaced(b.todo, new))
       /\ Behind(s, n.s) /\ IsSeq(new) /\ Len(new) = Len(items)
       /\ \A k \in 1..Len(items) : Mirrors(new[k], items[k])

LEMMA OneMore ==
  ASSUME NEW o, NEW q, NEW b, Reaches(Led(q), o, b), IsBind(b), NEW todo, IsSeq(todo), todo # << >>,
         Len(b.todo) = Len(todo), Mirrored(b, todo, Len(todo) - 1),
         NEW n, NEW items, IsSeq(items), n.todo = Replaced(todo, items), Len(n.tr) \in Nat,
         Steps(q, b, n, items)
  PROVE  \E d : Reaches(Led(q), o, d) /\ Stands(d, n) /\ Behind(d.s, n.s)
<1>0. PICK L, K : L = Len(todo) /\ K = Len(items)
  OBVIOUS
<1>1. L \in Nat \ {0} /\ K \in Nat /\ IsSeq(b.todo) /\ b.todo # << >>
  BY <1>0, SeqIs, Few DEF IsBind
<1>2. PICK s, new :
        /\ HasB(BindItem(Led(q), b, Top(b)), s, Len(n.tr), b.vals, b.lost, b.over, Replaced(b.todo, new))
        /\ Behind(s, n.s) /\ IsSeq(new) /\ Len(new) = Len(items)
        /\ \A k \in 1..Len(items) : Mirrors(new[k], items[k])
  BY DEF Steps
<1> DEFINE d == Turn(Led(q), b)
<1>3. d.s = s /\ d.ti = Len(n.tr) /\ d.todo = Replaced(b.todo, new) /\ d.lost = FALSE /\ d.over = FALSE
      /\ d = [s |-> d.s, ti |-> d.ti, vals |-> d.vals, lost |-> d.lost, over |-> d.over, todo |-> d.todo]
  <2>1. d = BindTurn(Led(q), b)
    BY DEF Turn, Led
  <2>2. ~Loses(Led(q), b, Top(b)) /\ ~ReadsOver(b, Top(b))
    BY DEF Steps
  <2>3. PICK v : v = BindValue(Led(q), b, Top(b))
    OBVIOUS
  <2>4. PICK r : r = BindItem(Led(q), b, Top(b))
    OBVIOUS
  <2>5. b.lost = FALSE /\ b.over = FALSE
    BY DEF IsBind
  <2>6. d = [r EXCEPT !.vals = v, !.lost = @ \/ Loses(Led(q), b, Top(b)), !.over = @ \/ ReadsOver(b, Top(b))]
    BY <2>1, <2>3, <2>4 DEF BindTurn
  <2>7. r = [s |-> s, ti |-> Len(n.tr), vals |-> b.vals, lost |-> FALSE, over |-> FALSE,
             todo |-> Replaced(b.todo, new)]
    BY <1>2, <2>4, <2>5 DEF HasB, IsB
  <2>8. PICK x, y : x = (r.lost \/ Loses(Led(q), b, Top(b))) /\ y = (r.over \/ ReadsOver(b, Top(b)))
    OBVIOUS
  <2>9. x = FALSE /\ y = FALSE
    BY <2>2, <2>7, <2>8
  <2>10. d = [r EXCEPT !.vals = v, !.lost = x, !.over = y]
    BY <2>6, <2>8
  <2> HIDE DEF d
  <2> QED BY <2>7, <2>9, <2>10
<1>4. Reaches(Led(q), o, d)
  BY <1>1, ReachesNext
<1> HIDE DEF d
<1>5. /\ IsSeq(d.todo) /\ Len(d.todo) = L - 1 + K
      /\ \A j \in 1..(L - 1) : d.todo[j] = b.todo[j]
      /\ \A j \in L..Len(d.todo) : j - L + 1 \in 1..K /\ d.todo[j] = new[j - L + 1]
  <2> DEFINE nd == Replaced(b.todo, new)
  <2>1. /\ IsSeq(nd) /\ Len(nd) = Len(b.todo) - 1 + Len(new)
        /\ \A j \in 1..(Len(b.todo) - 1) : nd[j] = b.todo[j]
        /\ \A j \in Len(b.todo)..Len(nd) :
             /\ j - Len(b.todo) + 1 \in 1..Len(new) /\ new # << >>
             /\ nd[j] = new[j - Len(b.todo) + 1]
    BY <1>1, <1>2, Put
  <2>2. d.todo = nd /\ Len(b.todo) = L /\ Len(new) = K
    BY <1>0, <1>2, <1>3
  <2> HIDE DEF nd
  <2> QED BY <2>1, <2>2
<1>6. /\ IsSeq(n.todo) /\ Len(n.todo) = L - 1 + K
      /\ \A j \in 1..(L - 1) : n.todo[j] = todo[j]
      /\ \A j \in L..Len(n.todo) : n.todo[j] = items[j - L + 1]
  <2> DEFINE nd == Replaced(todo, items)
  <2>1. /\ IsSeq(nd) /\ Len(nd) = Len(todo) - 1 + Len(items)
        /\ \A j \in 1..(Len(todo) - 1) : nd[j] = todo[j]
        /\ \A j \in Len(todo)..Len(nd) :
             /\ j - Len(todo) + 1 \in 1..Len(items) /\ items # << >>
             /\ nd[j] = items[j - Len(todo) + 1]
    BY Put
  <2> HIDE DEF nd
  <2>2. n.todo = nd
    BY DEF nd
  <2> QED BY <1>0, <2>1, <2>2
<1>7. Mirrored(d, n.todo, Len(n.todo))
  <2> SUFFICES ASSUME NEW j \in 1..Len(n.todo) PROVE Mirrors(d.todo[j], n.todo[j])
    BY DEF Mirrored
  <2>1. CASE j \in 1..(L - 1)
    BY <1>0, <1>5, <1>6, <2>1 DEF Mirrored
  <2>2. CASE j \in L..Len(n.todo)
    <3>1. j - L + 1 \in 1..K /\ d.todo[j] = new[j - L + 1] /\ n.todo[j] = items[j - L + 1]
      BY <1>5, <1>6, <2>2
    <3> QED BY <1>0, <1>2, <3>1
  <2> QED BY <1>1, <1>6, <2>1, <2>2
<1>8. IsBind(d)
  BY <1>3, <1>5 DEF IsBind
<1>9. Stands(d, n)
  BY <1>2, <1>3, <1>5, <1>6, <1>7, <1>8 DEF Stands, Behind
<1> QED BY <1>2, <1>3, <1>4, <1>9

LEMMA StandsTop ==
  ASSUME NEW o, NEW m, NEW lv, Good(o, m, lv), m.todo # << >>, NEW b, Stands(b, m)
  PROVE  /\ IsBind(b) /\ IsSeq(b.todo) /\ b.todo # << >> /\ b.ti = Len(m.tr) /\ Len(b.todo) = Len(m.todo)
         /\ Top(b) = b.todo[Len(m.todo)] /\ Mirrors(Top(b), Top(m))
         /\ Mirrored(b, m.todo, Len(m.todo) - 1) /\ Alike(b.s, m.s) /\ b.lost = FALSE /\ b.over = FALSE
         /\ IsB(b)
         /\ Top(m).do # "recorded" => Behind(b.s, m.s)
<1>0. PICK L : L = Len(m.todo)
  OBVIOUS
<1>1. L \in Nat \ {0} /\ Top(m) = m.todo[L]
  BY <1>0, TopIs
<1>2. IsBind(b) /\ b.ti = Len(m.tr) /\ Len(b.todo) = L /\ Mirrored(b, m.todo, L) /\ Alike(b.s, m.s)
      /\ (Top(m).do # "recorded" => Behind(b.s, m.s))
  BY <1>0 DEF Stands
<1>3. b.todo # << >> /\ Top(b) = b.todo[L] /\ IsSeq(b.todo)
  BY <1>1, <1>2, Few DEF Top, IsBind
<1>4. Mirrors(Top(b), Top(m)) /\ Mirrored(b, m.todo, L - 1)
  BY <1>1, <1>2, <1>3 DEF Mirrored
<1>5. b.lost = FALSE /\ b.over = FALSE /\ IsB(b)
  BY <1>2 DEF IsBind, IsB
<1> QED BY <1>0, <1>1, <1>2, <1>3, <1>4, <1>5

(* One turn of each.                                                       *)
LEMMA FollowsOn ==
  ASSUME NEW o, NEW m, NEW lv, Good(o, m, lv), m.todo # << >>, m.ok,
         NEW n, NEW items, Keeps(m, n, items),
         \A q : Fits(q, n) => Suits(q, Top(m)),
         \A q, b : Fits(q, n) /\ Fits(q, m) /\ Stands(b, m) => Steps(q, b, n, items)
  PROVE  Followed(o, n)
<1> SUFFICES ASSUME NEW q, Fits(q, n) PROVE \E d : Reaches(Led(q), o, d) /\ Stands(d, n)
  BY DEF Followed
<1>1. Fits(q, m)
  <2>0. PICK L, K : L = Len(n.todo) /\ K = Len(m.todo)
    OBVIOUS
  <2>1. L \in Nat /\ K \in Nat \ {0} /\ L >= K - 1 /\ \A j \in 1..L : Suits(q, n.todo[j])
    <3>1. IsSeq(n.todo) /\ Len(n.todo) = Len(m.todo) - 1 + Len(items) /\ IsSeq(items) /\ K \in Nat \ {0}
      <4>1. IsSeq(items)
        BY DEF Keeps
      <4> QED BY <2>0, <4>1, KeptBelow, TopIs
    <3>2. L \in Nat /\ Len(items) \in Nat
      BY <2>0, <3>1, SeqIs
    <3> QED BY <2>0, <3>1, <3>2 DEF Fits
  <2>2. \A j \in 1..(K - 1) : Suits(q, n.todo[j])
    BY <2>1
  <2>3. Agrees(q, n, L, Len(n.tr)) /\ L \in 0..L
    BY <2>0, <2>1 DEF Fits
  <2> QED BY <2>0, <2>2, <2>3, FitsBefore
<1>2. PICK b : Reaches(Led(q), o, b) /\ Stands(b, m)
  BY <1>1 DEF Good, Followed
<1>3. Steps(q, b, n, items)
  BY <1>1, <1>2
<1>4. IsSeq(m.todo) /\ IsSeq(items) /\ n.todo = Replaced(m.todo, items) /\ Len(n.tr) \in Nat
  BY TopIs DEF Keeps, Patched
<1>5. IsBind(b) /\ Len(b.todo) = Len(m.todo) /\ Mirrored(b, m.todo, Len(m.todo) - 1)
  BY <1>2, StandsTop
<1> QED BY <1>2, <1>3, <1>4, <1>5, OneMore

-----------------------------------------------------------------------------
(* The turns of the first pass.                                            *)
Pegs == [pass |-> "peg", defs |-> Defs, tr |-> << >>]

LEMMA Forms ==
  ASSUME NEW m, Plain(m)
  PROVE  /\ \A items : Has(Then(m, items), m.ok, m.s, m.str, m.dep, m.tr, m.match, Replaced(m.todo, items))
         /\ \A cells : Has(Push(m, cells), m.ok, m.s, m.str, m.dep, m.tr \o cells, m.match, m.todo)
         /\ \A r : Has([m EXCEPT !.s = r], m.ok, r, m.str, m.dep, m.tr, m.match, m.todo)
         /\ \A r : Has([m EXCEPT !.ok = r], r, m.s, m.str, m.dep, m.tr, m.match, m.todo)
         /\ \A r : Has([m EXCEPT !.str = r], m.ok, m.s, r, m.dep, m.tr, m.match, m.todo)
         /\ \A r : Has([m EXCEPT !.dep = r], m.ok, m.s, m.str, r, m.tr, m.match, m.todo)
         /\ \A r : Has([m EXCEPT !.match = r], m.ok, m.s, m.str, m.dep, m.tr, r, m.todo)
         /\ \A at, v : Has(SetCell(m, at, v), m.ok, m.s, m.str, m.dep, [m.tr EXCEPT ![at + 1] = v], m.match, m.todo)
<1>0. PICK ok, s, str, dep, tr, match, todo :
        m = [ok |-> ok, over |-> 0, s |-> s, str |-> str, dep |-> dep, tr |-> tr, match |-> match,
             todo |-> todo]
  BY DEF Plain
<1>00. m.ok = ok /\ m.s = s /\ m.str = str /\ m.dep = dep /\ m.tr = tr /\ m.match = match /\ m.todo = todo
  BY <1>0
<1>1. ASSUME NEW items PROVE Has(Then(m, items), m.ok, m.s, m.str, m.dep, m.tr, m.match, Replaced(m.todo, items))
  <2>1. PICK n : n = Then(m, items)
    OBVIOUS
  <2>2. n = [ok |-> ok, over |-> 0, s |-> s, str |-> str, dep |-> dep, tr |-> tr, match |-> match, todo |-> Replaced(todo, items)]
    BY <1>0, <2>1 DEF Then, Replaced
  <2> QED BY <1>00, <2>1, <2>2 DEF Has, Plain
<1>2. ASSUME NEW cells PROVE Has(Push(m, cells), m.ok, m.s, m.str, m.dep, m.tr \o cells, m.match, m.todo)
  <2>1. PICK n : n = Push(m, cells)
    OBVIOUS
  <2>2. n = [ok |-> ok, over |-> 0, s |-> s, str |-> str, dep |-> dep, tr |-> tr \o cells, match |-> match, todo |-> todo]
    BY <1>0, <2>1 DEF Push
  <2> QED BY <1>00, <2>1, <2>2 DEF Has, Plain
<1>3. ASSUME NEW r PROVE Has([m EXCEPT !.s = r], m.ok, r, m.str, m.dep, m.tr, m.match, m.todo)
  <2>1. PICK n : n = [m EXCEPT !.s = r]
    OBVIOUS
  <2>2. n = [ok |-> ok, over |-> 0, s |-> r, str |-> str, dep |-> dep, tr |-> tr, match |-> match, todo |-> todo]
    BY <1>0, <2>1
  <2> QED BY <1>00, <2>1, <2>2 DEF Has, Plain
<1>4. ASSUME NEW r PROVE Has([m EXCEPT !.ok = r], r, m.s, m.str, m.dep, m.tr, m.match, m.todo)
  <2>1. PICK n : n = [m EXCEPT !.ok = r]
    OBVIOUS
  <2>2. n = [ok |-> r, over |-> 0, s |-> s, str |-> str, dep |-> dep, tr |-> tr, match |-> match, todo |-> todo]
    BY <1>0, <2>1
  <2> QED BY <1>00, <2>1, <2>2 DEF Has, Plain
<1>5. ASSUME NEW r PROVE Has([m EXCEPT !.str = r], m.ok, m.s, r, m.dep, m.tr, m.match, m.todo)
  <2>1. PICK n : n = [m EXCEPT !.str = r]
    OBVIOUS
  <2>2. n = [ok |-> ok, over |-> 0, s |-> s, str |-> r, dep |-> dep, tr |-> tr, match |-> match, todo |-> todo]
    BY <1>0, <2>1
  <2> QED BY <1>00, <2>1, <2>2 DEF Has, Plain
<1>6. ASSUME NEW r PROVE Has([m EXCEPT !.dep = r], m.ok, m.s, m.str, r, m.tr, m.match, m.todo)
  <2>1. PICK n : n = [m EXCEPT !.dep = r]
    OBVIOUS
  <2>2. n = [ok |-> ok, over |-> 0, s |-> s, str |-> str, dep |-> r, tr |-> tr, match |-> match, todo |-> todo]
    BY <1>0, <2>1
  <2> QED BY <1>00, <2>1, <2>2 DEF Has, Plain
<1>7. ASSUME NEW r PROVE Has([m EXCEPT !.match = r], m.ok, m.s, m.str, m.dep, m.tr, r, m.todo)
  <2>1. PICK n : n = [m EXCEPT !.match = r]
    OBVIOUS
  <2>2. n = [ok |-> ok, over |-> 0, s |-> s, str |-> str, dep |-> dep, tr |-> tr, match |-> r, todo |-> todo]
    BY <1>0, <2>1
  <2> QED BY <1>00, <2>1, <2>2 DEF Has, Plain
<1>8. ASSUME NEW at, NEW v PROVE Has(SetCell(m, at, v), m.ok, m.s, m.str, m.dep, [m.tr EXCEPT ![at + 1] = v], m.match, m.todo)
  <2>1. PICK n : n = SetCell(m, at, v)
    OBVIOUS
  <2>2. n = [ok |-> ok, over |-> 0, s |-> s, str |-> str, dep |-> dep, tr |-> [tr EXCEPT ![at + 1] = v], match |-> match, todo |-> todo]
    BY <1>0, <2>1 DEF SetCell
  <2> QED BY <1>00, <2>1, <2>2 DEF Has, Plain
<1> QED BY <1>1, <1>2, <1>3, <1>4, <1>5, <1>6, <1>7, <1>8

LEMMA BindForms ==
  ASSUME NEW b, IsB(b)
  PROVE  /\ \A items : HasB(Then(b, items), b.s, b.ti, b.vals, b.lost, b.over, Replaced(b.todo, items))
         /\ \A x : HasB([b EXCEPT !.s = x], x, b.ti, b.vals, b.lost, b.over, b.todo)
         /\ \A x : HasB([b EXCEPT !.ti = x], b.s, x, b.vals, b.lost, b.over, b.todo)
         /\ \A x, y : HasB([b EXCEPT !.s = x, !.ti = y], x, y, b.vals, b.lost, b.over, b.todo)
<1>0. PICK s, ti, vals, lost, over, todo :
        b = [s |-> s, ti |-> ti, vals |-> vals, lost |-> lost, over |-> over, todo |-> todo]
  BY DEF IsB
<1>1. b.s = s /\ b.ti = ti /\ b.vals = vals /\ b.lost = lost /\ b.over = over /\ b.todo = todo
  BY <1>0
<1>2. ASSUME NEW items PROVE HasB(Then(b, items), b.s, b.ti, b.vals, b.lost, b.over, Replaced(b.todo, items))
  <2>1. PICK n : n = Then(b, items)
    OBVIOUS
  <2>2. n = [s |-> s, ti |-> ti, vals |-> vals, lost |-> lost, over |-> over, todo |-> Replaced(todo, items)]
    BY <1>0, <2>1 DEF Then, Replaced
  <2> QED BY <1>1, <2>1, <2>2 DEF HasB, IsB
<1>3. ASSUME NEW x PROVE HasB([b EXCEPT !.s = x], x, b.ti, b.vals, b.lost, b.over, b.todo)
  <2>1. PICK n : n = [b EXCEPT !.s = x]
    OBVIOUS
  <2>2. n = [s |-> x, ti |-> ti, vals |-> vals, lost |-> lost, over |-> over, todo |-> todo]
    BY <1>0, <2>1
  <2> QED BY <1>1, <2>1, <2>2 DEF HasB, IsB
<1>4. ASSUME NEW x PROVE HasB([b EXCEPT !.ti = x], b.s, x, b.vals, b.lost, b.over, b.todo)
  <2>1. PICK n : n = [b EXCEPT !.ti = x]
    OBVIOUS
  <2>2. n = [s |-> s, ti |-> x, vals |-> vals, lost |-> lost, over |-> over, todo |-> todo]
    BY <1>0, <2>1
  <2> QED BY <1>1, <2>1, <2>2 DEF HasB, IsB
<1>5. ASSUME NEW x, NEW y PROVE HasB([b EXCEPT !.s = x, !.ti = y], x, y, b.vals, b.lost, b.over, b.todo)
  <2>1. PICK e : e = [b EXCEPT !.s = x]
    OBVIOUS
  <2>2. e = [s |-> x, ti |-> ti, vals |-> vals, lost |-> lost, over |-> over, todo |-> todo]
    BY <1>0, <2>1
  <2>3. PICK n : n = [e EXCEPT !.ti = y]
    OBVIOUS
  <2>4. n = [s |-> x, ti |-> y, vals |-> vals, lost |-> lost, over |-> over, todo |-> todo]
    BY <2>2, <2>3
  <2>5. n = [b EXCEPT !.s = x, !.ti = y]
    BY <2>1, <2>3
  <2> QED BY <1>1, <2>4, <2>5 DEF HasB, IsB
<1> QED BY <1>2, <1>3, <1>4, <1>5

(* Nothing or only things to do take the place of the item.                 *)
LEMMA TurnPlain ==
  ASSUME NEW o, NEW m, NEW lv, Good(o, m, lv), m.todo # << >>, Top(m).do # "leave",
         NEW n, Typed(n), n.match = << >>, NEW items, Keeps(m, n, items),
         \A k \in 1..Len(items) : ToDo(items[k]), Behind(m.s, n.s),
         n.ok => Followed(o, n)
  PROVE  \E lw : Good(o, n, lw)
<1>0. PICK L : L = Len(m.todo)
  OBVIOUS
<1>1. /\ IsStream(lv[L]) /\ Behind(lv[L], m.s)
      /\ L > 1 => Behind(lv[L - 1], m.s) /\ Behind(lv[L - 1], lv[L])
  BY <1>0, TopIs, StillBehind
<1>2. Patched(m, n) /\ IsSeq(items) /\ n.todo = SubSeq(m.todo, 1, Len(m.todo) - 1) \o items
  BY DEF Keeps, Replaced
<1>3. Behind(lv[L], n.s) /\ (L > 1 => Behind(lv[L - 1], n.s))
  BY <1>1, BehindTrans
<1>4. ASSUME items # << >> PROVE Starts(o, m, lv, n, items, lv[L])
  <2>1. Len(items) \in Nat \ {0}
    BY <1>2, <1>4, SeqIs
  <2>2. ToDo(items[1]) /\ \A k \in 2..Len(items) : ToDo(items[k])
    BY <2>1
  <2>3. /\ Own(items[1]) = {} /\ ~Handles(items[1])
        /\ items[1].do \notin {"alternative", "leave", "return", "recorded"}
    BY <2>2, OwnsNothing
  <2>4. L > 1 => Under(lv[L - 1], items[1], lv[L])
    BY <1>1, <2>3 DEF Under
  <2> QED BY <1>0, <1>1, <1>3, <2>2, <2>3, <2>4 DEF Starts
<1>5. items = << >> => n.match = << >> /\ (Len(m.todo) > 1 => Behind(lv[Len(m.todo) - 1], n.s))
  BY <1>0, <1>3
<1>6. n.ok \/ n.match # << >> => Followed(o, n)
  OBVIOUS
<1> QED BY <1>2, <1>4, <1>5, <1>6, TurnMade

LEMMA TurnOver ==
  ASSUME NEW o, NEW m, NEW lv, Good(o, m, lv), m.todo # << >>,
         NEW n, Typed(n), n.match = << >>, Patched(m, n), n.todo = Replaced(m.todo, << >>),
         Len(m.todo) > 1 => Behind(lv[Len(m.todo) - 1], n.s),
         n.ok => Followed(o, n)
  PROVE  \E lw : Good(o, n, lw)
<1>1. IsSeq(<< >>) /\ n.todo = SubSeq(m.todo, 1, Len(m.todo) - 1) \o << >>
  BY Few DEF Replaced
<1>2. n.ok \/ n.match # << >> => Followed(o, n)
  OBVIOUS
<1> QED BY <1>1, <1>2, TurnMade

(* A frame, and things to do inside it.                                    *)
LEMMA TurnFramed ==
  ASSUME NEW o, NEW m, NEW lv, Good(o, m, lv), m.todo # << >>,
         NEW n, Typed(n), n.match = << >>, NEW items, Keeps(m, n, items), items # << >>,
         IsFrame(items[1]), \A k \in 2..Len(items) : ToDo(items[k]),
         NEW sv, Behind(sv, n.s), Own(items[1]) \subseteq 1..Len(n.tr),
         Len(m.todo) > 1 => Under(lv[Len(m.todo) - 1], items[1], sv),
         items[1].do = "alternative" => items[1].back = sv.pos,
         Handles(items[1]) => Level(o, n, Len(m.todo), sv),
         n.ok => Followed(o, n)
  PROVE  \E lw : Good(o, n, lw)
<1>1. Patched(m, n) /\ IsSeq(items) /\ n.todo = SubSeq(m.todo, 1, Len(m.todo) - 1) \o items
  BY DEF Keeps, Replaced
<1>2. Len(items) \in Nat \ {0}
  BY <1>1, SeqIs
<1>3. \A y \in Own(items[1]) : y \in 1..Len(n.tr) /\ (y > Len(m.tr) \/ y \in Own(Top(m)))
  BY <1>2 DEF Keeps
<1>4. IsStream(sv)
  BY DEF Behind, Alike
<1>5. Starts(o, m, lv, n, items, sv)
  BY <1>3, <1>4 DEF Starts
<1>6. n.ok \/ n.match # << >> => Followed(o, n)
  OBVIOUS
<1> QED BY <1>1, <1>5, <1>6, TurnMade

LEMMA SameItem == ASSUME NEW f, ToDo(f), NEW g, Mirrors(g, f) PROVE g = f
  BY DEF ToDo, Mirrors

-----------------------------------------------------------------------------
(* What both passes walk alike.                                            *)
LEMMA WalkToDo ==
  ASSUME NEW f, ToDo(f), Walks(f), NEW c, c.defs = Defs
  PROVE  /\ IsSeq(Walk(c, f)) /\ \A k \in 1..Len(Walk(c, f)) : ToDo(Walk(c, f)[k])
         /\ Walk(c, f) = Walk(Pegs, f)
<1> DEFINE Fine(s) == IsSeq(s) /\ \A k \in 1..Len(s) : ToDo(s[k])
<1>0. Fine(<< >>)
  <2>1. IsSeq(<< >>) /\ Len(<< >>) = 0
    BY Few
  <2> QED BY <2>1
<1>1. ASSUME NEW x, ToDo(x) PROVE Fine(<<x>>)
  <2>1. PICK s : s = <<x>>
    OBVIOUS
  <2>2. IsSeq(s) /\ Len(s) = 1 /\ s[1] = x
    BY <2>1, Few
  <2>3. Fine(s)
    BY <1>1, <2>2
  <2> QED BY <2>1, <2>3
<1>2. ASSUME NEW x, ToDo(x), NEW y, ToDo(y) PROVE Fine(<<x, y>>)
  <2>1. PICK s : s = <<x, y>>
    OBVIOUS
  <2>2. IsSeq(s) /\ Len(s) = 2 /\ s[1] = x /\ s[2] = y
    BY <2>1, Few
  <2>3. \A k \in 1..2 : k = 1 \/ k = 2
    OBVIOUS
  <2>4. Fine(s)
    BY <1>2, <2>2, <2>3
  <2> QED BY <2>1, <2>4
<1>3. ASSUME NEW x, ToDo(x), NEW y, ToDo(y), NEW z, ToDo(z) PROVE Fine(<<x, y, z>>)
  <2>1. PICK s : s = <<x, y, z>>
    OBVIOUS
  <2>2. IsSeq(s) /\ Len(s) = 3 /\ s[1] = x /\ s[2] = y /\ s[3] = z
    BY <2>1, Few
  <2>3. \A k \in 1..3 : k = 1 \/ k = 2 \/ k = 3
    OBVIOUS
  <2>4. Fine(s)
    BY <1>3, <2>2, <2>3
  <2> QED BY <2>1, <2>4
<1> HIDE DEF Fine
<1>4. /\ \A ks \in Seq(Constants), i \in Nat \ {0} : ToDo(EachConstant(ks, i))
      /\ \A k \in Constants : ToDo(Constant(k))
  BY DEF ToDo, EachConstant, Constant
<1>5. \A p \in Parsers : ToDo(Parse(p)) /\ WellFormed(p)
  BY CParserAssumption DEF ToDo, Parse
<1>6. CASE f.do = "parse"
  <2>0. f.p \in Parsers /\ f.p.op \in Walked /\ Walk(c, f) = WalkParser(c, f.p)
        /\ Walk(Pegs, f) = WalkParser(Pegs, f.p)
    BY <1>6 DEF ToDo, Walks, Walk
  <2> PICK p \in Parsers : p = f.p
    BY <2>0
  <2>1. CASE p.op = "structure"
    <3>1. WalkParser(c, p) = <<EachField(p.fields, 1)>> /\ WalkParser(Pegs, p) = <<EachField(p.fields, 1)>>
      BY <2>1 DEF WalkParser
    <3>2. p.fields \in Seq({p.fields[i] : i \in DOMAIN p.fields})
          /\ \A i \in DOMAIN p.fields : WellFormedField(p.fields[i])
      BY <1>5, <2>1 DEF WellFormed
    <3>3. IsSeq(p.fields) /\ DOMAIN p.fields = 1..Len(p.fields)
      BY <3>2, MakesSeq
    <3>4. ToDo(EachField(p.fields, 1))
      BY <3>2, <3>3 DEF ToDo, EachField
    <3> QED BY <1>1, <2>0, <3>1, <3>4 DEF Fine
  <2>2. CASE p.op = "wrap"
    <3>1. /\ WalkParser(c, p) = <<EachConstant(p.after, 1), Parse(p.p), EachConstant(p.before, 1)>>
          /\ WalkParser(Pegs, p) = <<EachConstant(p.after, 1), Parse(p.p), EachConstant(p.before, 1)>>
      BY <2>2 DEF WalkParser
    <3>2. p.p \in Parsers /\ p.before \in Seq(Constants) /\ p.after \in Seq(Constants)
      BY <1>5, <2>2 DEF WellFormed
    <3>3. ToDo(EachConstant(p.after, 1)) /\ ToDo(EachConstant(p.before, 1))
      BY <1>4, <3>2
    <3> QED BY <1>3, <1>5, <2>0, <3>1, <3>2, <3>3 DEF Fine
  <2>3. CASE p.op = "fixedarray"
    <3>1. /\ WalkParser(c, p) = <<EachTime(p.n, p.p, 1)>>
          /\ WalkParser(Pegs, p) = <<EachTime(p.n, p.p, 1)>>
      BY <2>3 DEF WalkParser
    <3>2. p.p \in Parsers
      BY <1>5, <2>3 DEF WellFormed
    <3>3. ToDo(EachTime(p.n, p.p, 1))
      BY <3>2 DEF ToDo, EachTime
    <3> QED BY <1>1, <2>0, <3>1, <3>3 DEF Fine
  <2>4. CASE p.op \in {"name", "ref"}
    <3>1. /\ WalkParser(c, p) = <<Parse(c.defs[p.def])>>
          /\ WalkParser(Pegs, p) = <<Parse(Pegs.defs[p.def])>>
      BY <2>4 DEF WalkParser
    <3>2. Defs[p.def] \in Parsers /\ c.defs = Defs /\ Pegs.defs = Defs
      BY <1>5, <2>4 DEF WellFormed, Pegs
    <3>3. ToDo(Parse(Defs[p.def]))
      BY <1>5, <3>2
    <3> QED BY <1>1, <2>0, <3>1, <3>2, <3>3 DEF Fine
  <2> QED BY <2>0, <2>1, <2>2, <2>3, <2>4 DEF Walked
<1>7. CASE f.do = "constants"
  <2>0. f.ks \in Seq(Constants) /\ f.i \in Nat \ {0} /\ Len(f.ks) \in Nat
    BY <1>7 DEF ToDo
  <2>1. \A d : Walk(d, f) = IF f.i > Len(f.ks) THEN << >> ELSE <<EachConstant(f.ks, f.i + 1), Constant(f.ks[f.i])>>
    BY <1>7 DEF Walk
  <2>2. CASE f.i > Len(f.ks)
    BY <1>0, <2>1, <2>2 DEF Fine
  <2>3. CASE ~(f.i > Len(f.ks))
    <3>1. \A d : Walk(d, f) = <<EachConstant(f.ks, f.i + 1), Constant(f.ks[f.i])>>
      BY <2>1, <2>3
    <3>2. f.i \in 1..Len(f.ks) /\ f.i + 1 \in Nat \ {0}
      BY <2>0, <2>3
    <3>3. f.ks[f.i] \in Constants
      BY <2>0, <3>2
    <3>4. ToDo(EachConstant(f.ks, f.i + 1)) /\ ToDo(Constant(f.ks[f.i]))
      BY <1>4, <2>0, <3>2, <3>3
    <3> QED BY <1>2, <3>1, <3>4 DEF Fine
  <2> QED BY <2>2, <2>3
<1>8. CASE f.do = "fields"
  <2>0. f.i \in Nat \ {0} /\ IsSeq(f.fs) /\ \A i \in 1..Len(f.fs) : WellFormedField(f.fs[i])
    BY <1>8 DEF ToDo
  <2>1. \A d : Walk(d, f) = IF f.i > Len(f.fs) THEN << >> ELSE <<EachField(f.fs, f.i + 1), FieldItem(f.fs[f.i])>>
    BY <1>8 DEF Walk
  <2>2. CASE f.i > Len(f.fs)
    BY <1>0, <2>1, <2>2 DEF Fine
  <2>3. CASE ~(f.i > Len(f.fs))
    <3>1. f.i \in 1..Len(f.fs)
      BY <2>0, <2>3, SeqIs
    <3>2. PICK e : e = f.fs[f.i]
      OBVIOUS
    <3>3. WellFormedField(e)
      BY <2>0, <3>1, <3>2
    <3>4. ToDo(FieldItem(e))
      <4>1. CASE e[1] = "constant"
        BY <1>4, <3>3, <4>1 DEF FieldItem, WellFormedField
      <4>2. CASE e[1] = "field"
        BY <1>5, <3>3, <4>2 DEF FieldItem, WellFormedField
      <4>3. CASE e[1] = "dependency"
        <5>1. FieldItem(e) = [do |-> e[1], f |-> e]
          BY <4>3 DEF FieldItem
        <5> QED BY <3>3, <4>3, <5>1 DEF ToDo, WellFormedField
      <4>4. CASE e[1] = "transform"
        <5>1. FieldItem(e) = [do |-> e[1], f |-> e]
          BY <4>4 DEF FieldItem
        <5> QED BY <3>3, <4>4, <5>1 DEF ToDo, WellFormedField, Forwards
      <4> QED BY <3>3, <4>1, <4>2, <4>3, <4>4 DEF WellFormedField
    <3>5. ToDo(EachField(f.fs, f.i + 1))
      BY <2>0 DEF ToDo, EachField
    <3>6. \A d : Walk(d, f) = <<EachField(f.fs, f.i + 1), FieldItem(e)>>
      BY <2>1, <2>3, <3>2
    <3> QED BY <1>2, <3>4, <3>5, <3>6 DEF Fine
  <2> QED BY <2>2, <2>3
<1>9. CASE f.do = "times"
  <2>0. f.p \in Parsers
    BY <1>9 DEF ToDo
  <2>1. \A d : Walk(d, f) = IF f.i > f.n THEN << >> ELSE <<EachTime(f.n, f.p, f.i + 1), Parse(f.p)>>
    BY <1>9 DEF Walk
  <2>2. CASE f.i > f.n
    BY <1>0, <2>1, <2>2 DEF Fine
  <2>3. CASE ~(f.i > f.n)
    <3>1. \A d : Walk(d, f) = <<EachTime(f.n, f.p, f.i + 1), Parse(f.p)>>
      BY <2>1, <2>3
    <3>2. ToDo(EachTime(f.n, f.p, f.i + 1))
      BY <2>0 DEF ToDo, EachTime
    <3> QED BY <1>2, <1>5, <2>0, <3>1, <3>2 DEF Fine
  <2> QED BY <2>2, <2>3
<1> QED BY <1>6, <1>7, <1>8, <1>9 DEF Walks

(* A turn that leaves the trace alone and puts things to do in its place.   *)
LEMMA KeepsTrace ==
  ASSUME NEW o, NEW m, NEW lv, Good(o, m, lv), m.todo # << >>, NEW n, n.tr = m.tr,
         NEW items, IsSeq(items), n.todo = Replaced(m.todo, items),
         \A k \in 1..Len(items) : Own(items[k]) = {}
  PROVE  Keeps(m, n, items)
<1>1. Patched(m, n)
  BY TopIs DEF Patched
<1> QED BY <1>1 DEF Keeps

LEMMA Parts ==
  ASSUME NEW o, NEW m, NEW lv, Good(o, m, lv)
  PROVE  /\ IsStream(m.s) /\ \A x \in DOMAIN m.str : IsStream(m.str[x])
         /\ \A x \in DOMAIN m.dep : m.dep[x] \in Nat
         /\ IsSeq(m.tr) /\ IsSeq(m.match) /\ m.ok \in BOOLEAN
  BY DEF Good, Sound, IsPeg

LEMMA TurnIs ==
  ASSUME NEW m, m.match = << >>
  PROVE  Turn(Pegs, m) = IF m.ok THEN PegGoesOn(Pegs, m, Top(m)) ELSE PegBacksOut(m, Top(m))
<1>1. Turn(Pegs, m) = PegTurn(Pegs, m)
  BY DEF Turn, Pegs
<1> QED BY <1>1 DEF PegTurn

LEMMA WalkTurn ==
  ASSUME NEW o, NEW m, NEW lv, Good(o, m, lv), m.todo # << >>, m.ok, m.match = << >>,
         ToDo(Top(m)), Walks(Top(m))
  PROVE  \E lw : Good(o, Turn(Pegs, m), lw)
<1> DEFINE f == Top(m)
           items == Walk(Pegs, f)
           n == Then(m, items)
<1>1. Turn(Pegs, m) = n
  <2>1. PegGoesOn(Pegs, m, f) = Then(m, Walk(Pegs, f))
    BY DEF PegGoesOn, Walks
  <2> QED BY <2>1, TurnIs
<1>2. IsSeq(items) /\ \A k \in 1..Len(items) : ToDo(items[k])
  <2>1. Pegs.defs = Defs
    BY DEF Pegs
  <2> QED BY <2>1, WalkToDo
<1>3. Has(n, m.ok, m.s, m.str, m.dep, m.tr, m.match, Replaced(m.todo, items))
  BY TopIs, Forms
<1> HIDE DEF items, n
<1>4. /\ Typed(n) /\ n.ok = m.ok /\ n.s = m.s /\ n.tr = m.tr /\ n.match = << >>
      /\ n.todo = Replaced(m.todo, items)
  BY <1>3, TypedPeg, Parts DEF Has
<1>5. \A k \in 1..Len(items) : Own(items[k]) = {}
  BY <1>2, OwnsNothing
<1>6. Keeps(m, n, items)
  BY <1>2, <1>4, <1>5, KeepsTrace
<1>7. f.do \notin {"alternative", "leave", "return", "recorded", "more", "counted", "maybe"}
  BY DEF ToDo
<1>8. \A q : Suits(q, f)
  BY <1>7 DEF Suits
<1>9. ASSUME NEW q, NEW b, Stands(b, m) PROVE Steps(q, b, n, items)
  <2>1. Top(b) = f /\ b.ti = Len(m.tr) /\ Behind(b.s, m.s)
        /\ IsB(b)
    BY <1>7, <1>9, StandsTop, SameItem
  <2>2. BindItem(Led(q), b, f) = Then(b, Walk(Led(q), f))
    BY DEF BindItem, Walks
  <2>3. Walk(Led(q), f) = items
    <3>1. Led(q).defs = Defs
      BY DEF Led
    <3> QED BY <3>1, WalkToDo DEF items
  <2>4. HasB(Then(b, items), b.s, b.ti, b.vals, b.lost, b.over, Replaced(b.todo, items))
    BY <2>1, BindForms
  <2>5. Cells(f) = 0 /\ f.do # "elements" /\ ~(f.do = "parse" /\ f.p.op \in {"choice", "nunion", "integer"})
    BY DEF Walks, Walked, Cells
  <2>6. ~Loses(Led(q), b, f) /\ ~ReadsOver(b, f)
    BY <2>5 DEF Loses, ReadsOver
  <2>7. \A k \in 1..Len(items) : Mirrors(items[k], items[k])
    BY <1>2 DEF Mirrors
  <2> QED BY <1>2, <1>4, <2>1, <2>2, <2>3, <2>4, <2>6, <2>7 DEF Steps
<1>10. Followed(o, n)
  BY <1>6, <1>8, <1>9, FollowsOn
<1>11. Behind(m.s, n.s)
  BY <1>4, BehindItself, Parts
<1>12. \E lw : Good(o, n, lw)
  BY <1>2, <1>4, <1>6, <1>7, <1>10, <1>11, TurnPlain
<1> QED BY <1>1, <1>12

-----------------------------------------------------------------------------
(* Symbols.  Nothing is left to do, or no more than before.                 *)
LEMMA SameShape ==
  ASSUME NEW o, NEW m, NEW lv, Good(o, m, lv), m.todo # << >>,
         NEW n, Typed(n), n.todo = m.todo, n.tr = m.tr, Behind(lv[Len(m.todo)], n.s),
         n.match # << >> => Top(m).do = "recorded",
         \A j \in 1..Len(n.match) :
           /\ Matchable(n.match[j])
           /\ n.match[j].do = "either" => n.match[j].back \in From(lv[Len(m.todo)], n.s),
         n.ok \/ n.match # << >> => Followed(o, n)
  PROVE  Good(o, n, lv)
<1>1. Sound(m) /\ Owned(m) /\ Chain(m, lv) /\ Levels(o, m, lv)
  BY DEF Good
<1>2. Sound(n)
  <2>1. Top(n) = Top(m)
    BY DEF Top
  <2> QED BY <1>1, <2>1 DEF Sound, Typed
<1>3. Owned(n)
  BY <1>1 DEF Owned
<1>4. Chain(n, lv)
  BY <1>1 DEF Chain
<1>5. \A i, s : Level(o, m, i, s) => Level(o, n, i, s)
  <2>1. \A q, i, x : Tries(q, n, i, x) => Tries(q, m, i, x)
    BY DEF Tries, Agrees
  <2> QED BY <2>1 DEF Level
<1>6. Levels(o, n, lv)
  BY <1>1, <1>5 DEF Levels
<1> QED BY <1>2, <1>3, <1>4, <1>6 DEF Good

Failed(m, r) == Has(r, FALSE, m.s, m.str, m.dep, m.tr, m.match, m.todo)
ReadOver(m, r, w) ==
  /\ IsPeg(r) /\ r.ok = FALSE /\ r.over = w /\ r.s = m.s /\ r.str = m.str /\ r.dep = m.dep
  /\ r.tr = m.tr /\ r.match = << >> /\ r.todo = << >> /\ Unseen(m.s, w)
ReadOne(m, r, p, set) ==
  /\ Has(r, m.ok, Forward(m.s, p.w), m.str, m.dep, m.tr, m.match, m.todo)
  /\ IntegerAt(m.s, p) \in set /\ ~Past(m.s, p.w)
  /\ IsStream(Forward(m.s, p.w)) /\ Behind(m.s, Forward(m.s, p.w))

(* What the check lets through past the end of a stream.                    *)
LEMMA LetThrough ==
  ASSUME NEW s, IsStream(s), NEW w \in Nat \ {0}, ChecksOut(s, w), Past(s, w)
  PROVE  Unseen(s, w)
<1> SUFFICES ASSUME ~(BytesOf(w) > BytesOf(s.size)), w % PerByte = 0, Aligned(s) PROVE FALSE
  BY DEF Unseen
<1>0. s.pos \in Nat /\ s.size \in Nat /\ PerByte \in Nat \ {0}
  BY PosIsNat, PerByteAssumption
<1>1. PICK a \in Nat : a = BytesOf(s.pos) /\ s.pos = a * PerByte
  <2>1. s.pos % PerByte = 0
    BY DEF Aligned
  <2>2. BytesOf(s.pos) \in Nat /\ \E x \in Nat : x = BytesOf(s.pos) * PerByte /\ s.pos = x + (s.pos % PerByte)
    BY <1>0, InBytes
  <2> QED BY <2>1, <2>2
<1>2. PICK b \in Nat : b = BytesOf(w) /\ w = b * PerByte
  <2>1. BytesOf(w) \in Nat /\ \E x \in Nat : x = BytesOf(w) * PerByte /\ w = x + (w % PerByte)
    BY InBytes
  <2> QED BY <2>1
<1>3. PICK c \in Nat, x \in Nat : c = BytesOf(s.size) /\ s.size = c * PerByte + x
  <2>1. /\ BytesOf(s.size) \in Nat /\ s.size % PerByte \in Nat
        /\ \E x \in Nat : x = BytesOf(s.size) * PerByte /\ s.size = x + (s.size % PerByte)
    BY <1>0, InBytes
  <2> QED BY <2>1
<1>4. a <= c - b
  BY <1>1, <1>2, <1>3 DEF ChecksOut
<1>5. PICK d \in Nat : c = a + b + d
  <2>1. c - b - a \in Nat /\ c = a + b + (c - b - a)
    BY <1>4
  <2> QED BY <2>1
<1>6. c * PerByte = a * PerByte + b * PerByte + d * PerByte /\ d * PerByte \in Nat
  BY <1>0, <1>5
<1>7. s.pos + w <= s.size
  <2>1. PICK u \in Int, v \in Int : u = a * PerByte /\ v = b * PerByte
    BY <1>0
  <2> QED BY <1>1, <1>2, <1>3, <1>6, <2>1
<1> QED BY <1>0, <1>7 DEF Past

LEMMA ReadsInteger ==
  ASSUME NEW m, Plain(m), IsStream(m.s), m.ok \in BOOLEAN, NEW p, Width(p), NEW set
  PROVE  LET r == PegInt(m, p, set)
         IN Failed(m, r) \/ ReadOver(m, r, p.w) \/ (r.ok = m.ok /\ ReadOne(m, r, p, set))
<1> DEFINE r == PegInt(m, p, set)
<1>0. m.s.size \in Nat /\ m.s.pos \in Nat
  BY PosIsNat
<1>1. Has(Fail(m), FALSE, m.s, m.str, m.dep, m.tr, m.match, m.todo)
  BY Forms DEF Fail
<1>2. CASE ~ChecksOut(m.s, p.w)
  BY <1>1, <1>2 DEF PegInt, Failed
<1>3. CASE ChecksOut(m.s, p.w) /\ Past(m.s, p.w)
  <2>0. PICK w \in Nat \ {0} : w = p.w
    BY DEF Width
  <2>1. r = [m EXCEPT !.ok = FALSE, !.over = w, !.match = << >>, !.todo = << >>]
    BY <1>3, <2>0 DEF PegInt, PegOver
  <2>2. Unseen(m.s, w)
    BY <1>3, <2>0, LetThrough
  <2>3. PICK ok, s, str, dep, tr, match, todo :
          m = [ok |-> ok, over |-> 0, s |-> s, str |-> str, dep |-> dep, tr |-> tr,
               match |-> match, todo |-> todo]
    BY DEF Plain
  <2>4. m.ok = ok /\ m.s = s /\ m.str = str /\ m.dep = dep /\ m.tr = tr /\ m.match = match /\ m.todo = todo
    BY <2>3
  <2>5. PICK n1 : n1 = [m EXCEPT !.ok = FALSE]
    OBVIOUS
  <2>6. n1 = [ok |-> FALSE, over |-> 0, s |-> s, str |-> str, dep |-> dep, tr |-> tr,
              match |-> match, todo |-> todo]
    BY <2>3, <2>5
  <2>7. PICK n2 : n2 = [n1 EXCEPT !.over = w]
    OBVIOUS
  <2>8. n2 = [ok |-> FALSE, over |-> w, s |-> s, str |-> str, dep |-> dep, tr |-> tr,
              match |-> match, todo |-> todo]
    BY <2>6, <2>7
  <2>9. PICK n3 : n3 = [n2 EXCEPT !.match = << >>]
    OBVIOUS
  <2>10. n3 = [ok |-> FALSE, over |-> w, s |-> s, str |-> str, dep |-> dep, tr |-> tr,
               match |-> << >>, todo |-> todo]
    BY <2>8, <2>9
  <2>11. PICK n4 : n4 = [n3 EXCEPT !.todo = << >>]
    OBVIOUS
  <2>12. n4 = [ok |-> FALSE, over |-> w, s |-> s, str |-> str, dep |-> dep, tr |-> tr,
               match |-> << >>, todo |-> << >>]
    BY <2>10, <2>11
  <2>13. r = n4
    BY <2>1, <2>5, <2>7, <2>9, <2>11
  <2>14. r.ok = FALSE /\ r.over = w /\ r.s = s /\ r.str = str /\ r.dep = dep /\ r.tr = tr
         /\ r.match = << >> /\ r.todo = << >>
    BY <2>12, <2>13
  <2>15. IsPeg(r)
    BY <2>12, <2>13, <2>14 DEF IsPeg
  <2>16. ReadOver(m, r, w)
    BY <2>2, <2>4, <2>14, <2>15 DEF ReadOver
  <2> QED BY <2>0, <2>16
<1>4. CASE ChecksOut(m.s, p.w) /\ ~Past(m.s, p.w) /\ IntegerAt(m.s, p) \notin set
  BY <1>1, <1>4 DEF PegInt, Failed
<1>5. CASE ChecksOut(m.s, p.w) /\ ~Past(m.s, p.w) /\ IntegerAt(m.s, p) \in set
  <2>1. r = [m EXCEPT !.s = Forward(m.s, p.w)]
    BY <1>5 DEF PegInt
  <2>2. Has(r, m.ok, Forward(m.s, p.w), m.str, m.dep, m.tr, m.match, m.todo)
    BY <2>1, Forms
  <2>3. m.s.pos + p.w <= m.s.size /\ p.w \in Nat
    BY <1>0, <1>5 DEF Past, Width
  <2>4. IsStream(Forward(m.s, p.w)) /\ Behind(m.s, Forward(m.s, p.w))
    BY <2>3, Forwarded
  <2> QED BY <1>5, <2>2, <2>4 DEF ReadOne, Has
<1> QED BY <1>2, <1>3, <1>4, <1>5

LEMMA FailedGood ==
  ASSUME NEW o, NEW m, NEW lv, Good(o, m, lv), m.todo # << >>, m.match = << >>, NEW r, Failed(m, r)
  PROVE  Good(o, r, lv)
<1>1. Typed(r)
  BY TypedPeg, Parts DEF Failed
<1>2. r.todo = m.todo /\ r.tr = m.tr /\ r.s = m.s /\ r.match = << >> /\ r.ok = FALSE
  BY DEF Failed, Has
<1>3. Behind(lv[Len(m.todo)], r.s)
  BY <1>2, TopIs
<1>4. \A j \in 1..Len(r.match) :
        /\ Matchable(r.match[j])
        /\ r.match[j].do = "either" => r.match[j].back \in From(lv[Len(m.todo)], r.s)
  <2>1. Len(<< >>) = 0
    BY Few
  <2>2. 1..0 = {}
    OBVIOUS
  <2> QED BY <1>2, <2>1, <2>2
<1> QED BY <1>1, <1>2, <1>3, <1>4, SameShape

LEMMA ReadOverGood ==
  ASSUME NEW o, NEW m, NEW lv, Good(o, m, lv), NEW r, NEW w, ReadOver(m, r, w)
  PROVE  Good(o, r, lv)
<1>1. Len(r.todo) = 0 /\ IsSeq(r.todo) /\ IsSeq(r.match) /\ Len(r.match) = 0
  BY Few DEF ReadOver
<1>2. Sound(r)
  BY <1>1, Parts DEF ReadOver, Sound
<1>3. Owned(r) /\ Chain(r, lv) /\ Levels(o, r, lv)
  BY <1>1 DEF Owned, Chain, Levels, ReadOver
<1> QED BY <1>2, <1>3 DEF Good, ReadOver

-----------------------------------------------------------------------------
(* Integers, dependencies, transforms, constants.                          *)
LEMMA Extended ==
  ASSUME NEW g, NEW x, NEW v
  PROVE  \A y \in DOMAIN Named(g, x, v) :
           Named(g, x, v)[y] = v \/ (y \in DOMAIN g /\ Named(g, x, v)[y] = g[y])
  BY DEF Named

Later(m, items) ==
  \A k \in 1..Len(items) : \A y \in Own(items[k]) : y \in Int /\ y > Len(m.tr)
Longer(m, n, cells) == n.tr = m.tr \o cells
LEMMA KeepsLonger ==
  ASSUME NEW o, NEW m, NEW lv, Good(o, m, lv), m.todo # << >>, NEW cells, IsSeq(cells),
         NEW n, Longer(m, n, cells), NEW items, IsSeq(items), n.todo = Replaced(m.todo, items),
         Later(m, items)
  PROVE  /\ Keeps(m, n, items) /\ IsSeq(n.tr) /\ Len(n.tr) = Len(m.tr) + Len(cells) /\ Len(cells) \in Nat
         /\ \A j \in 1..Len(cells) : n.tr[Len(m.tr) + j] = cells[j]
<1>0. PICK k, c : k = Len(m.tr) /\ c = Len(cells)
  OBVIOUS
<1>1. IsSeq(m.tr) /\ k \in Nat /\ c \in Nat
  BY <1>0, TopIs, SeqIs
<1>2. /\ IsSeq(n.tr) /\ Len(n.tr) = k + c
      /\ \A i \in 1..(k + c) : n.tr[i] = IF i <= k THEN m.tr[i] ELSE cells[i - k]
  <2> DEFINE u == m.tr \o cells
  <2>1. /\ IsSeq(u) /\ Len(u) = Len(m.tr) + Len(cells)
        /\ \A i \in 1..(Len(m.tr) + Len(cells)) :
             u[i] = IF i <= Len(m.tr) THEN m.tr[i] ELSE cells[i - Len(m.tr)]
    BY <1>1, Joined
  <2>2. n.tr = u
    BY DEF Longer
  <2> HIDE DEF u
  <2> QED BY <1>0, <2>1, <2>2
<1>3. Patched(m, n)
  <2>1. \A i \in 1..k : n.tr[i] = m.tr[i]
    BY <1>1, <1>2
  <2> QED BY <1>0, <1>1, <1>2, <2>1 DEF Patched
<1>4. Keeps(m, n, items)
  BY <1>3 DEF Keeps, Later
<1>5. ASSUME NEW j \in 1..c PROVE n.tr[k + j] = cells[j]
  <2>1. k + j \in 1..(k + c) /\ ~(k + j <= k) /\ (k + j) - k = j
    BY <1>1
  <2> QED BY <1>2, <2>1
<1> QED BY <1>0, <1>1, <1>2, <1>4, <1>5

LEMMA BehindForward ==
  ASSUME NEW a, NEW b, Behind(a, b), NEW w \in Nat, ~Past(b, w)
  PROVE  Behind(Forward(a, w), Forward(b, w)) /\ ~Past(a, w)
<1>1. a.data = b.data /\ a.base = b.base /\ a.size = b.size /\ a.pos <= b.pos /\ IsStream(a) /\ IsStream(b)
  BY DEF Behind, Alike
<1>2. a.pos \in Nat /\ b.pos \in Nat /\ a.size \in Nat /\ b.size \in Nat
  BY <1>1, PosIsNat
<1>3. a.pos + w <= a.size /\ b.pos + w <= b.size
  BY <1>1, <1>2 DEF Past
<1> DEFINE x == Forward(a, w)
           y == Forward(b, w)
<1>4. IsStream(x) /\ Alike(x, a) /\ x.pos = a.pos + w
  BY <1>1, <1>3, Forwarded
<1>5. IsStream(y) /\ Alike(y, b) /\ y.pos = b.pos + w
  BY <1>1, <1>3, Forwarded
<1> HIDE DEF x, y
<1>6. Behind(x, y)
  BY <1>1, <1>2, <1>4, <1>5 DEF Behind, Alike
<1>7. ~Past(a, w)
  BY <1>2, <1>3 DEF Past
<1> QED BY <1>6, <1>7 DEF x, y

LEMMA IntegerTurn ==
  ASSUME NEW o, NEW m, NEW lv, Good(o, m, lv), m.todo # << >>, m.ok, m.match = << >>,
         ToDo(Top(m)), Top(m).do = "parse", Top(m).p.op = "integer"
  PROVE  \E lw : Good(o, Turn(Pegs, m), lw)
<1> DEFINE f == Top(m)
           r == PegInt(m, f.p, f.p.set)
           n == Done(r)
<1>1. Turn(Pegs, m) = IF r.ok THEN n ELSE r
  <2>1. PegGoesOn(Pegs, m, f) = PegParser(Pegs, m, f.p)
    BY DEF PegGoesOn, Walks, Walked
  <2>2. PegParser(Pegs, m, f.p) = PegInteger(m, f.p)
    BY DEF PegParser
  <2>3. Turn(Pegs, m) = PegGoesOn(Pegs, m, f)
    BY TurnIs
  <2> QED BY <2>1, <2>2, <2>3 DEF PegInteger
<1>0. Width(f.p) /\ f.p.w \in Nat
  <2>1. f.p \in Parsers
    BY DEF ToDo
  <2>2. WellFormed(f.p)
    BY <2>1, CParserAssumption
  <2> QED BY <2>2 DEF WellFormed, Width
<1>2. Failed(m, r) \/ ReadOver(m, r, f.p.w) \/ (r.ok = m.ok /\ ReadOne(m, r, f.p, f.p.set))
  BY <1>0, ReadsInteger, TopIs
<1> HIDE DEF r, n
<1>3. CASE Failed(m, r)
  <2>1. Good(o, r, lv) /\ r.ok = FALSE
    BY <1>3, FailedGood DEF Failed, Has
  <2> QED BY <1>1, <2>1
<1>4. CASE ReadOver(m, r, f.p.w)
  <2>1. Good(o, r, lv) /\ r.ok = FALSE
    BY <1>4, ReadOverGood DEF ReadOver
  <2> QED BY <1>1, <2>1
<1>5. CASE r.ok = m.ok /\ ReadOne(m, r, f.p, f.p.set)
  <2>1. Has(r, m.ok, Forward(m.s, f.p.w), m.str, m.dep, m.tr, m.match, m.todo)
    BY <1>5 DEF ReadOne
  <2>2. Has(n, m.ok, Forward(m.s, f.p.w), m.str, m.dep, m.tr, m.match, Replaced(m.todo, << >>))
    <3>1. Has(n, r.ok, r.s, r.str, r.dep, r.tr, r.match, Replaced(r.todo, << >>))
      <4>1. Plain(r)
        BY <2>1 DEF Has
      <4> QED BY <4>1, Forms DEF n, Done
    <3> QED BY <2>1, <3>1 DEF Has
  <2>3. /\ Typed(n) /\ n.ok = m.ok /\ n.s = Forward(m.s, f.p.w) /\ n.tr = m.tr /\ n.match = << >>
        /\ n.todo = Replaced(m.todo, << >>)
    BY <1>5, <2>2, TypedPeg, Parts DEF Has, ReadOne
  <2>4. IsSeq(<< >>) /\ Len(<< >>) = 0
    BY Few
  <2>5. Keeps(m, n, << >>)
    BY <2>3, <2>4, KeepsTrace
  <2>6. \A q : Suits(q, f)
    BY DEF Suits
  <2>7. ASSUME NEW q, NEW b, Stands(b, m) PROVE Steps(q, b, n, << >>)
    <3>1. Top(b) = f /\ b.ti = Len(m.tr) /\ Behind(b.s, m.s)
          /\ IsB(b)
      BY <2>7, StandsTop, SameItem
    <3>2. BindItem(Led(q), b, f) = BindParser(Led(q), b, f.p)
      BY DEF BindItem, Walks, Walked
    <3>3. BindParser(Led(q), b, f.p) = [Done(b) EXCEPT !.s = Forward(@, f.p.w)]
      BY DEF BindParser
    <3>4. PICK x, e : x = Forward(b.s, f.p.w) /\ e = Done(b)
      OBVIOUS
    <3>5. HasB(e, b.s, b.ti, b.vals, b.lost, b.over, Replaced(b.todo, << >>))
      BY <3>1, <3>4, BindForms DEF Done
    <3>6. HasB([Done(b) EXCEPT !.s = Forward(@, f.p.w)], x, b.ti, b.vals, b.lost, b.over, Replaced(b.todo, << >>))
      <4>1. e.s = b.s /\ IsB(e)
        BY <3>5 DEF HasB
      <4>2. HasB([e EXCEPT !.s = x], x, e.ti, e.vals, e.lost, e.over, e.todo)
        BY <4>1, BindForms
      <4>3. [Done(b) EXCEPT !.s = Forward(@, f.p.w)] = [e EXCEPT !.s = x]
        BY <3>4, <4>1
      <4> QED BY <3>5, <4>2, <4>3 DEF HasB
    <3>7. Behind(x, n.s) /\ ~Past(b.s, f.p.w)
      BY <1>0, <1>5, <2>3, <3>1, <3>4, BehindForward DEF ReadOne
    <3>8. ~Loses(Led(q), b, f) /\ ~ReadsOver(b, f)
      BY <3>7 DEF Loses, ReadsOver, Cells
    <3> QED BY <2>3, <2>4, <3>1, <3>2, <3>3, <3>6, <3>7, <3>8 DEF Steps
  <2>8. Followed(o, n)
    BY <2>5, <2>6, <2>7, FollowsOn
  <2>9. Behind(m.s, n.s)
    BY <1>5, <2>3 DEF ReadOne
  <2>10. \E lw : Good(o, n, lw)
    BY <2>3, <2>4, <2>5, <2>8, <2>9, TurnPlain
  <2> QED BY <1>1, <1>5, <2>10
<1> QED BY <1>2, <1>3, <1>4, <1>5

(* One cell is recorded, and read.                                         *)
LEMMA OneCell ==
  ASSUME NEW o, NEW m, NEW lv, Good(o, m, lv), m.todo # << >>, m.ok,
         Top(m).do \notin {"leave", "alternative", "more", "counted", "maybe"},
         NEW n, NEW cell, Typed(n), n.match = << >>, n.tr = m.tr \o <<cell>>,
         n.todo = Replaced(m.todo, << >>), Behind(m.s, n.s),
         \A q, b : /\ Stands(b, m) /\ q[b.ti + 1] = cell /\ Len(n.tr) = b.ti + 1
                   /\ Len(q) \in Nat /\ Len(q) >= b.ti + 1
                   => Steps(q, b, n, << >>)
  PROVE  \E lw : Good(o, n, lw)
<1>0. PICK none : none = << >>
  OBVIOUS
<1>1. IsSeq(none) /\ Len(none) = 0
  BY <1>0, Few
<1>11. \A k \in 1..Len(none) : FALSE
  BY <1>1
<1>2. PICK cells : cells = <<cell>>
  OBVIOUS
<1>3. IsSeq(cells) /\ Len(cells) = 1 /\ cells[1] = cell
  BY <1>2, Few
<1>4. Keeps(m, n, none) /\ IsSeq(n.tr) /\ Len(n.tr) = Len(m.tr) + 1
      /\ n.tr[Len(m.tr) + 1] = cell
  <2>1. Longer(m, n, cells) /\ n.todo = Replaced(m.todo, none)
    BY <1>0, <1>2 DEF Longer
  <2>2. Later(m, none)
    BY <1>11 DEF Later
  <2>3. Keeps(m, n, none) /\ IsSeq(n.tr)
    BY <1>1, <1>3, <2>1, <2>2, KeepsLonger
  <2>5. Len(n.tr) = Len(m.tr) + Len(cells)
    BY <1>1, <1>3, <2>1, <2>2, KeepsLonger
  <2>6. \A j \in 1..Len(cells) : n.tr[Len(m.tr) + j] = cells[j]
    BY <1>1, <1>3, <2>1, <2>2, KeepsLonger
  <2>4. 1 \in 1..Len(cells)
    BY <1>3
  <2> QED BY <1>3, <2>3, <2>4, <2>5, <2>6
<1>5. Len(m.tr) \in Nat
  BY TopIs
<1>6. \A q : Suits(q, Top(m))
  BY DEF Suits
<1>7. ASSUME NEW q, NEW b, Fits(q, n), Stands(b, m) PROVE Steps(q, b, n, none)
  <2>1. PICK c : c = Len(m.tr) + 1
    OBVIOUS
  <2>2. c \in 1..Len(n.tr) /\ c > Len(m.tr)
    BY <1>4, <1>5, <2>1
  <2>4. q[c] = n.tr[c] /\ Len(q) \in Nat /\ Len(q) >= Len(n.tr)
    BY <1>11, <1>4, <1>7, <2>2, Told
  <2>5. b.ti = Len(m.tr)
    BY <1>7 DEF Stands
  <2> QED BY <1>0, <1>4, <1>5, <1>7, <2>1, <2>4, <2>5
<1>8. Followed(o, n)
  BY <1>4, <1>6, <1>7, FollowsOn
<1> QED BY <1>11, <1>4, <1>8, TurnPlain

LEMMA BindCell ==
  ASSUME NEW b, IsB(b), NEW c
  PROVE  /\ HasB(BindConst(c, b), Reposition(b.s, Cell(c, b)), b.ti + 1, b.vals, b.lost, b.over,
                 Replaced(b.todo, << >>))
         /\ HasB([Done(b) EXCEPT !.s = Cell(c, b), !.ti = @ + 1], Cell(c, b), b.ti + 1, b.vals,
                 b.lost, b.over, Replaced(b.todo, << >>))
<1>1. PICK e : e = Done(b)
  OBVIOUS
<1>2. HasB(e, b.s, b.ti, b.vals, b.lost, b.over, Replaced(b.todo, << >>))
  BY <1>1, BindForms DEF Done
<1>3. e.s = b.s /\ e.ti = b.ti /\ IsB(e)
  BY <1>2 DEF HasB
<1>4. HasB(BindConst(c, b), Reposition(b.s, Cell(c, b)), b.ti + 1, b.vals, b.lost, b.over,
           Replaced(b.todo, << >>))
  <2>1. PICK x, y : x = Reposition(b.s, Cell(c, b)) /\ y = b.ti + 1
    OBVIOUS
  <2>2. HasB([e EXCEPT !.s = x, !.ti = y], x, y, e.vals, e.lost, e.over, e.todo)
    BY <1>3, BindForms
  <2>3. BindConst(c, b) = [e EXCEPT !.s = x, !.ti = y]
    BY <1>1, <1>3, <2>1 DEF BindConst
  <2> QED BY <1>2, <2>1, <2>2, <2>3 DEF HasB
<1>5. HasB([Done(b) EXCEPT !.s = Cell(c, b), !.ti = @ + 1], Cell(c, b), b.ti + 1, b.vals,
           b.lost, b.over, Replaced(b.todo, << >>))
  <2>1. PICK x, y : x = Cell(c, b) /\ y = b.ti + 1
    OBVIOUS
  <2>2. HasB([e EXCEPT !.s = x, !.ti = y], x, y, e.vals, e.lost, e.over, e.todo)
    BY <1>3, BindForms
  <2>3. [Done(b) EXCEPT !.s = Cell(c, b), !.ti = @ + 1] = [e EXCEPT !.s = x, !.ti = y]
    BY <1>1, <1>3, <2>1
  <2> QED BY <1>2, <2>1, <2>2, <2>3 DEF HasB
<1> QED BY <1>4, <1>5

(* Back to a recorded position.                                            *)
LEMMA StepsToPosition ==
  ASSUME NEW o, NEW m, NEW lv, Good(o, m, lv), m.todo # << >>, NEW n,
         NEW q, NEW b, Stands(b, m), Top(b).do \in {"constant", "dependency"},
         IsStream(n.s), Alike(b.s, n.s), q[b.ti + 1] = n.s.pos,
         Len(n.tr) = b.ti + 1, Len(q) \in Nat, Len(q) >= b.ti + 1
  PROVE  Steps(q, b, n, << >>)
<1>1. IsB(b)
  BY StandsTop
<1>2. BindItem(Led(q), b, Top(b)) = BindConst(Led(q), b)
  BY DEF BindItem, Walks
<1>3. Cell(Led(q), b) = n.s.pos
  BY DEF Cell, Led
<1>4. HasB(BindConst(Led(q), b), Reposition(b.s, n.s.pos), b.ti + 1, b.vals, b.lost, b.over,
           Replaced(b.todo, << >>))
  BY <1>1, <1>3, BindCell
<1>5. Reposition(b.s, n.s.pos) = n.s
  <2>1. n.s.pos \in Places(n.s)
    BY DEF IsStream
  <2> QED BY <2>1, Moved
<1>6. Behind(n.s, n.s)
  BY BehindItself
<1>7. ~Loses(Led(q), b, Top(b)) /\ ~ReadsOver(b, Top(b))
  <2>1. Cells(Top(b)) = 1 /\ b.ti \in Nat
    BY DEF Cells, Stands, IsBind
  <2> QED BY <2>1 DEF Loses, ReadsOver, Led
<1>8. IsSeq(<< >>) /\ Len(<< >>) = 0
  BY Few
<1> QED BY <1>2, <1>4, <1>5, <1>6, <1>7, <1>8 DEF Steps

LEMMA RecordedTurn ==
  ASSUME NEW o, NEW m, NEW lv, Good(o, m, lv), m.todo # << >>, m.ok, m.match = << >>,
         Top(m).do = "recorded"
  PROVE  \E lw : Good(o, Turn(Pegs, m), lw)
<1> DEFINE f == Top(m)
           d == Done(m)
           n == Push(d, <<m.s.pos>>)
<1>1. Turn(Pegs, m) = n
  <2>1. PegGoesOn(Pegs, m, f) = n
    BY DEF PegGoesOn, Walks
  <2> QED BY <2>1, TurnIs
<1>2. Has(d, m.ok, m.s, m.str, m.dep, m.tr, m.match, Replaced(m.todo, << >>))
  BY TopIs, Forms DEF Done
<1>3. Has(n, m.ok, m.s, m.str, m.dep, m.tr \o <<m.s.pos>>, m.match, Replaced(m.todo, << >>))
  <2>1. Plain(d)
    BY <1>2 DEF Has
  <2>2. Has(n, d.ok, d.s, d.str, d.dep, d.tr \o <<m.s.pos>>, d.match, d.todo)
    BY <2>1, Forms
  <2> HIDE DEF d, n
  <2> QED BY <1>2, <2>2 DEF Has
<1> HIDE DEF d, n
<1>4. PICK cell : cell = m.s.pos
  OBVIOUS
<1>5. IsSeq(m.tr \o <<cell>>)
  BY TopIs, Few, Joined
<1>6. /\ Typed(n) /\ n.s = m.s /\ n.tr = m.tr \o <<cell>> /\ n.match = << >>
      /\ n.todo = Replaced(m.todo, << >>)
  BY <1>3, <1>4, <1>5, TypedPeg, Parts DEF Has
<1>7. ASSUME NEW q, NEW b, Stands(b, m), q[b.ti + 1] = cell, Len(n.tr) = b.ti + 1,
             Len(q) \in Nat, Len(q) >= b.ti + 1
      PROVE  Steps(q, b, n, << >>)
  <2>1. Mirrors(Top(b), f) /\ Alike(b.s, m.s)
    BY <1>7, StandsTop
  <2>2. Top(b).do = "constant"
    BY <2>1 DEF Mirrors, ToDo
  <2>3. IsStream(n.s) /\ Alike(b.s, n.s) /\ q[b.ti + 1] = n.s.pos
    BY <1>4, <1>6, <1>7, <2>1, Parts
  <2> QED BY <1>7, <2>2, <2>3, StepsToPosition
<1>8. Behind(m.s, n.s)
  BY <1>6, BehindItself, Parts
<1>9. \E lw : Good(o, n, lw)
  BY <1>6, <1>7, <1>8, OneCell
<1> QED BY <1>1, <1>9

LEMMA DependencyTurn ==
  ASSUME NEW o, NEW m, NEW lv, Good(o, m, lv), m.todo # << >>, m.ok, m.match = << >>,
         ToDo(Top(m)), Top(m).do = "dependency"
  PROVE  \E lw : Good(o, Turn(Pegs, m), lw)
<1> DEFINE f == Top(m)
           r == PegInt(m, f.f[3], f.f[3].set)
           dep == Named(r.dep, f.f[2], IntegerAt(m.s, f.f[3]))
           e == [r EXCEPT !.dep = dep]
           d == Done(e)
           n == Push(d, <<r.s.pos>>)
<1>1. Turn(Pegs, m) = IF r.ok THEN n ELSE r
  <2>1. PegGoesOn(Pegs, m, f) = PegDependency(m, f.f)
    BY DEF PegGoesOn, Walks
  <2>3. Turn(Pegs, m) = PegGoesOn(Pegs, m, f)
    BY TurnIs
  <2> QED BY <2>1, <2>3 DEF PegDependency
<1>2. Failed(m, r) \/ ReadOver(m, r, f.f[3].w) \/ (r.ok = m.ok /\ ReadOne(m, r, f.f[3], f.f[3].set))
  <2>1. Width(f.f[3])
    BY DEF ToDo
  <2> QED BY <2>1, ReadsInteger, TopIs
<1> HIDE DEF r
<1>3. CASE Failed(m, r)
  <2>1. Good(o, r, lv) /\ r.ok = FALSE
    BY <1>3, FailedGood DEF Failed, Has
  <2> QED BY <1>1, <2>1
<1>4. CASE ReadOver(m, r, f.f[3].w)
  <2>1. Good(o, r, lv) /\ r.ok = FALSE
    BY <1>4, ReadOverGood DEF ReadOver
  <2> QED BY <1>1, <2>1
<1>5. CASE r.ok = m.ok /\ ReadOne(m, r, f.f[3], f.f[3].set)
  <2> DEFINE s == Forward(m.s, f.f[3].w)
             cell == r.s.pos
  <2>1. Has(r, m.ok, s, m.str, m.dep, m.tr, m.match, m.todo) /\ IsStream(s) /\ Behind(m.s, s)
    BY <1>5 DEF ReadOne
  <2>2. Has(e, m.ok, s, m.str, dep, m.tr, m.match, m.todo)
    <3>1. Plain(r)
      BY <2>1 DEF Has
    <3> HIDE DEF dep
    <3>2. Has(e, r.ok, r.s, r.str, dep, r.tr, r.match, r.todo)
      BY <3>1, Forms
    <3> HIDE DEF e
    <3> QED BY <2>1, <3>2 DEF Has
  <2>3. \A x \in DOMAIN dep : dep[x] \in Nat
    <3>1. IntegerAt(m.s, f.f[3]) \in Nat
      BY <1>5 DEF ReadOne, ToDo
    <3>2. r.dep = m.dep
      BY <2>1 DEF Has
    <3> QED BY <3>1, <3>2, Extended, Parts
  <2> HIDE DEF s, dep, e
  <2>4. Has(d, m.ok, s, m.str, dep, m.tr, m.match, Replaced(m.todo, << >>))
    <3>1. Plain(e)
      BY <2>2 DEF Has
    <3>2. Has(d, e.ok, e.s, e.str, e.dep, e.tr, e.match, Replaced(e.todo, << >>))
      BY <3>1, Forms DEF Done
    <3> HIDE DEF d
    <3> QED BY <2>2, <3>2 DEF Has
  <2> HIDE DEF d, cell
  <2>5. Has(n, m.ok, s, m.str, dep, m.tr \o <<cell>>, m.match, Replaced(m.todo, << >>))
    <3>1. Plain(d)
      BY <2>4 DEF Has
    <3>2. Has(n, d.ok, d.s, d.str, d.dep, d.tr \o <<cell>>, d.match, d.todo)
      BY <3>1, Forms DEF cell
    <3> HIDE DEF n
    <3> QED BY <2>4, <3>2 DEF Has
  <2> HIDE DEF n
  <2>6. IsSeq(m.tr \o <<cell>>)
    BY TopIs, Few, Joined
  <2>7. /\ Typed(n) /\ n.s = s /\ n.tr = m.tr \o <<cell>> /\ n.match = << >>
        /\ n.todo = Replaced(m.todo, << >>)
    BY <2>1, <2>3, <2>5, <2>6, TypedPeg, Parts DEF Has
  <2>8. cell = n.s.pos
    BY <2>1, <2>7 DEF cell, Has
  <2>9. ASSUME NEW q, NEW b, Stands(b, m), q[b.ti + 1] = cell, Len(n.tr) = b.ti + 1,
               Len(q) \in Nat, Len(q) >= b.ti + 1
        PROVE  Steps(q, b, n, << >>)
    <3>1. Top(b) = f /\ Alike(b.s, m.s)
      BY <2>9, StandsTop, SameItem
    <3>2. Alike(b.s, n.s) /\ IsStream(n.s)
      BY <2>1, <2>7, <3>1 DEF Alike, Behind
    <3> QED BY <2>8, <2>9, <3>1, <3>2, StepsToPosition
  <2>10. \E lw : Good(o, n, lw)
    BY <2>1, <2>7, <2>9, OneCell
  <2> QED BY <1>1, <1>5, <2>10
<1> QED BY <1>2, <1>3, <1>4, <1>5

LEMMA TransformTurn ==
  ASSUME NEW o, NEW m, NEW lv, Good(o, m, lv), m.todo # << >>, m.ok, m.match = << >>,
         ToDo(Top(m)), Top(m).do = "transform"
  PROVE  \E lw : Good(o, Turn(Pegs, m), lw)
<1> DEFINE f == Top(m)
           k == Dependency(m, f.f[4])
           t == Transform(f.f[2], m.s, k)
           str == Named(m.str, f.f[3], t.out)
           e1 == [m EXCEPT !.s = t.cur]
           e == [e1 EXCEPT !.str = str]
           d == Done(e)
           n == Push(d, <<t.cur>>)
<1>1. Turn(Pegs, m) = IF t.ok THEN n ELSE Fail(m)
  <2>1. PegGoesOn(Pegs, m, f) = PegTransform(m, f.f)
    BY DEF PegGoesOn, Walks
  <2>2. Turn(Pegs, m) = PegGoesOn(Pegs, m, f)
    BY TurnIs
  <2>3. [m EXCEPT !.s = t.cur, !.str = Named(@, f.f[3], t.out)] = e
    <3>1. e1.str = m.str
      <4>1. Has(e1, m.ok, t.cur, m.str, m.dep, m.tr, m.match, m.todo)
        BY TopIs, Forms
      <4> QED BY <4>1 DEF Has
    <3> QED BY <3>1
  <2> QED BY <2>1, <2>2, <2>3 DEF PegTransform
<1>2. t.ok \in BOOLEAN /\ (t.ok => Behind(m.s, t.cur) /\ IsStream(t.out))
  <2>1. k \in Nat
    BY Parts DEF Dependency
  <2>2. f.f[2] \in Forwards
    BY DEF ToDo
  <2> HIDE DEF k
  <2> QED BY <2>1, <2>2, TransformGoesOn, Parts
<1> HIDE DEF t
<1>3. CASE ~t.ok
  <2>1. Failed(m, Fail(m))
    BY TopIs, Forms DEF Fail, Failed
  <2>2. Good(o, Fail(m), lv)
    BY <2>1, FailedGood
  <2> QED BY <1>1, <1>3, <2>2
<1>4. CASE t.ok
  <2>1. Behind(m.s, t.cur) /\ IsStream(t.cur) /\ IsStream(t.out)
    BY <1>2, <1>4 DEF Behind, Alike
  <2>2. Has(e1, m.ok, t.cur, m.str, m.dep, m.tr, m.match, m.todo)
    BY TopIs, Forms
  <2> HIDE DEF e1, str
  <2>3. Has(e, m.ok, t.cur, str, m.dep, m.tr, m.match, m.todo)
    <3>1. Plain(e1)
      BY <2>2 DEF Has
    <3>2. Has(e, e1.ok, e1.s, str, e1.dep, e1.tr, e1.match, e1.todo)
      BY <3>1, Forms
    <3> HIDE DEF e
    <3> QED BY <2>2, <3>2 DEF Has
  <2>4. \A x \in DOMAIN str : IsStream(str[x])
    BY <2>1, Extended, Parts DEF str
  <2> HIDE DEF e
  <2>5. Has(d, m.ok, t.cur, str, m.dep, m.tr, m.match, Replaced(m.todo, << >>))
    <3>1. Plain(e)
      BY <2>3 DEF Has
    <3>2. Has(d, e.ok, e.s, e.str, e.dep, e.tr, e.match, Replaced(e.todo, << >>))
      BY <3>1, Forms DEF Done
    <3> HIDE DEF d
    <3> QED BY <2>3, <3>2 DEF Has
  <2> HIDE DEF d
  <2>6. Has(n, m.ok, t.cur, str, m.dep, m.tr \o <<t.cur>>, m.match, Replaced(m.todo, << >>))
    <3>1. Plain(d)
      BY <2>5 DEF Has
    <3>2. Has(n, d.ok, d.s, d.str, d.dep, d.tr \o <<t.cur>>, d.match, d.todo)
      BY <3>1, Forms
    <3> HIDE DEF n
    <3> QED BY <2>5, <3>2 DEF Has
  <2> HIDE DEF n
  <2>7. IsSeq(m.tr \o <<t.cur>>)
    BY TopIs, Few, Joined
  <2>8. /\ Typed(n) /\ n.s = t.cur /\ n.tr = m.tr \o <<t.cur>> /\ n.match = << >>
        /\ n.todo = Replaced(m.todo, << >>)
    BY <2>1, <2>4, <2>6, <2>7, TypedPeg, Parts DEF Has
  <2>9. ASSUME NEW q, NEW b, Stands(b, m), q[b.ti + 1] = t.cur, Len(n.tr) = b.ti + 1,
               Len(q) \in Nat, Len(q) >= b.ti + 1
        PROVE  Steps(q, b, n, << >>)
    <3>1. Top(b) = f /\ IsB(b)
      BY <2>9, StandsTop, SameItem
    <3>2. BindItem(Led(q), b, f) = [Done(b) EXCEPT !.s = Cell(Led(q), b), !.ti = @ + 1]
      BY DEF BindItem, Walks
    <3>3. Cell(Led(q), b) = n.s
      BY <2>8, <2>9 DEF Cell, Led
    <3>4. HasB([Done(b) EXCEPT !.s = Cell(Led(q), b), !.ti = @ + 1], Cell(Led(q), b), b.ti + 1, b.vals,
               b.lost, b.over, Replaced(b.todo, << >>))
      BY <3>1, BindCell
    <3>5. Behind(n.s, n.s)
      BY <2>1, <2>8, BehindItself
    <3>6. ~Loses(Led(q), b, f) /\ ~ReadsOver(b, f)
      <4>1. Cells(f) = 1 /\ b.ti \in Nat
        BY <2>9 DEF Cells, Stands, IsBind
      <4> QED BY <2>9, <4>1 DEF Loses, ReadsOver, Led
    <3>7. IsSeq(<< >>) /\ Len(<< >>) = 0
      BY Few
    <3> QED BY <2>9, <3>1, <3>2, <3>3, <3>4, <3>5, <3>6, <3>7 DEF Steps
  <2>10. \E lw : Good(o, n, lw)
    BY <2>1, <2>8, <2>9, OneCell
  <2> QED BY <1>1, <1>4, <2>10
<1> QED BY <1>2, <1>3, <1>4

-----------------------------------------------------------------------------
(* Constants: only the position changes, and what is to be matched.         *)
LEMMA ConstantTurn ==
  ASSUME NEW o, NEW m, NEW lv, Good(o, m, lv), m.todo # << >>, m.ok, m.match = << >>,
         ToDo(Top(m)), Top(m).do = "constant"
  PROVE  \E lw : Good(o, Turn(Pegs, m), lw)
<1> DEFINE f == Top(m)
           rec == Recorded(f.k)
           items == <<rec>>
           match == <<Match(f.k)>>
           e == Then(m, items)
           n == [e EXCEPT !.match = match]
<1>1. Turn(Pegs, m) = n
  <2>1. PegGoesOn(Pegs, m, f) = n
    BY DEF PegGoesOn, Walks
  <2> QED BY <2>1, TurnIs
<1>0. PICK L : L = Len(m.todo)
  OBVIOUS
<1>2. IsSeq(items) /\ Len(items) = 1 /\ items[1] = rec
  BY Few
<1>3. rec.do = "recorded" /\ Own(rec) = {} /\ ~Handles(rec) /\ IsFrame(rec)
  BY DEF Recorded, Own, Handles, IsFrame
<1>4. IsSeq(match) /\ match # << >> /\ \A j \in 1..Len(match) : match[j].do # "either" /\ Matchable(match[j])
  <2>1. PICK x : x = Match(f.k)
    OBVIOUS
  <2>2. x.do # "either" /\ Matchable(x)
    <3>1. f.k \in Constants
      BY DEF ToDo
    <3> QED BY <2>1, <3>1 DEF Match, Matchable
  <2>3. PICK s : s = <<x>>
    OBVIOUS
  <2>4. IsSeq(s) /\ Len(s) = 1 /\ s[1] = x
    BY <2>3, Few
  <2>5. \A j \in 1..Len(s) : s[j].do # "either" /\ Matchable(s[j])
    BY <2>2, <2>4
  <2>6. s # << >>
    BY <2>4, Few
  <2> QED BY <2>1, <2>3, <2>4, <2>5, <2>6
<1> HIDE DEF rec, items, match
<1>5. Has(e, m.ok, m.s, m.str, m.dep, m.tr, m.match, Replaced(m.todo, items))
  BY TopIs, Forms
<1>6. Has(n, m.ok, m.s, m.str, m.dep, m.tr, match, Replaced(m.todo, items))
  <2>1. Plain(e)
    BY <1>5 DEF Has
  <2> HIDE DEF e
  <2>2. Has(n, e.ok, e.s, e.str, e.dep, e.tr, match, e.todo)
    BY <2>1, Forms
  <2> HIDE DEF n
  <2> QED BY <1>5, <2>2 DEF Has
<1> HIDE DEF n
<1>7. /\ Typed(n) /\ n.s = m.s /\ n.tr = m.tr /\ n.match = match /\ n.todo = Replaced(m.todo, items)
  BY <1>4, <1>6, TypedPeg, Parts DEF Has
<1>8. \A k \in 1..Len(items) : k = 1
  BY <1>2
<1>9. Keeps(m, n, items)
  <2>1. \A k \in 1..Len(items) : Own(items[k]) = {}
    BY <1>2, <1>3, <1>8
  <2> QED BY <1>2, <1>7, <2>1, KeepsTrace
<1>10. L \in Nat \ {0} /\ f = m.todo[L] /\ Len(m.tr) \in Nat
  BY <1>0, TopIs
<1>11. /\ IsSeq(n.todo) /\ Len(n.todo) = L /\ n.todo[L] = rec
       /\ \A j \in 1..(L - 1) : n.todo[j] = m.todo[j]
  <2>1. /\ IsSeq(n.todo) /\ Len(n.todo) = Len(m.todo) - 1 + Len(items)
        /\ \A j \in 1..(Len(m.todo) - 1) : n.todo[j] = m.todo[j]
    BY <1>9, KeptBelow
  <2>2. \A k \in 1..Len(items) : n.todo[Len(m.todo) - 1 + k] = items[k]
    BY <1>9, KeptBelow
  <2>3. n.todo[L - 1 + 1] = items[1]
    BY <1>0, <1>2, <2>2
  <2> QED BY <1>0, <1>2, <1>10, <2>1, <2>3
<1>12. ASSUME NEW q, Fits(q, n) PROVE \E b : Reaches(Led(q), o, b) /\ Stands(b, n)
  <2>1. Fits(q, m)
    <3>1. Agrees(q, n, L, Len(n.tr)) /\ L \in 0..Len(n.todo)
      BY <1>10, <1>11, <1>12 DEF Fits
    <3>2. \A j \in 1..(L - 1) : Suits(q, n.todo[j])
      BY <1>10, <1>11, <1>12 DEF Fits
    <3>3. Suits(q, f)
      BY DEF Suits
    <3> QED BY <1>0, <1>9, <3>1, <3>2, <3>3, FitsBefore
  <2>2. PICK b : Reaches(Led(q), o, b) /\ Stands(b, m)
    BY <2>1 DEF Good, Followed
  <2>3. /\ IsBind(b) /\ b.ti = Len(m.tr) /\ Len(b.todo) = L /\ Top(b) = b.todo[L] /\ Top(b) = f
        /\ Mirrored(b, m.todo, L - 1) /\ Alike(b.s, m.s)
    BY <1>0, <2>2, StandsTop, SameItem
  <2>4. Mirrored(b, n.todo, L)
    <3>1. Mirrors(b.todo[L], rec)
      BY <1>3, <2>3 DEF Mirrors
    <3>2. ASSUME NEW j \in 1..L PROVE Mirrors(b.todo[j], n.todo[j])
      <4>1. CASE j = L
        BY <1>11, <3>1, <4>1
      <4>2. CASE j \in 1..(L - 1)
        BY <1>11, <2>3, <4>2 DEF Mirrored
      <4> QED BY <1>10, <4>1, <4>2
    <3> QED BY <3>2 DEF Mirrored
  <2>5. Top(n).do = "recorded"
    BY <1>3, <1>11 DEF Top
  <2>6. Stands(b, n)
    <3>1. b.ti = Len(n.tr) /\ Alike(b.s, n.s)
      BY <1>7, <2>3
    <3>2. Len(b.todo) = Len(n.todo) /\ Mirrored(b, n.todo, Len(n.todo))
      BY <1>11, <2>3, <2>4
    <3>3. n.todo # << >>
      BY <1>10, <1>11, Few
    <3> QED BY <2>3, <2>5, <3>1, <3>2, <3>3 DEF Stands
  <2> QED BY <2>2, <2>6
<1>13. Starts(o, m, lv, n, items, m.s)
  <2>1. IsStream(m.s) /\ Behind(m.s, n.s)
    BY <1>7, BehindItself, Parts
  <2>2. L > 1 => Under(lv[L - 1], rec, m.s)
    BY <1>0, <1>3, StillBehind DEF Under
  <2>3. \A k \in 2..Len(items) : ToDo(items[k])
    BY <1>2
  <2> QED BY <1>0, <1>2, <1>3, <1>4, <1>7, <2>1, <2>2, <2>3 DEF Starts
<1>14. Patched(m, n) /\ n.todo = SubSeq(m.todo, 1, Len(m.todo) - 1) \o items /\ items # << >>
  BY <1>2, <1>7, <1>9, Few DEF Keeps, Replaced
<1>15. Followed(o, n)
  BY <1>12 DEF Followed
<1>16. \E lw : Good(o, n, lw)
  BY <1>2, <1>7, <1>13, <1>14, <1>15, TurnMade
<1> QED BY <1>1, <1>16

(* What is to be matched, and a position not before the constant's.         *)
Placed(x, at, s) == Matchable(x) /\ (x.do = "either" => x.back \in From(at, s))
Eithers(match, at, s) == IsSeq(match) /\ \A j \in 1..Len(match) : Placed(match[j], at, s)
Matched(m, at, n) ==
  \E ok \in BOOLEAN : \E s, match :
    /\ Has(n, ok, s, m.str, m.dep, m.tr, match, m.todo)
    /\ Alike(s, m.s) /\ Behind(at, s) /\ Eithers(match, at, s)

LEMMA MatchedGood ==
  ASSUME NEW o, NEW m, NEW lv, Good(o, m, lv), m.match # << >>, NEW n,
         Matched(m, lv[Len(m.todo)], n)
  PROVE  Good(o, n, lv)
<1>0. PICK at : at = lv[Len(m.todo)]
  OBVIOUS
<1>1. m.todo # << >> /\ Top(m).do = "recorded" /\ Followed(o, m)
  BY DEF Good, Sound
<1>2. PICK ok, s, match :
        /\ ok \in BOOLEAN
        /\ Has(n, ok, s, m.str, m.dep, m.tr, match, m.todo)
        /\ Alike(s, m.s) /\ Behind(at, s) /\ Eithers(match, at, s)
  BY <1>0 DEF Matched
<1>3. n.s = s /\ n.todo = m.todo /\ n.tr = m.tr /\ n.match = match
  BY <1>2 DEF Has
<1>4. Typed(n)
  <2>1. IsStream(s) /\ IsSeq(match)
    BY <1>2 DEF Alike, Eithers
  <2> QED BY <1>2, <2>1, TypedPeg, Parts
<1>5. Followed(o, n)
  <2> SUFFICES ASSUME NEW q, Fits(q, n) PROVE \E b : Reaches(Led(q), o, b) /\ Stands(b, n)
    BY DEF Followed
  <2>1. Fits(q, m)
    BY <1>3 DEF Fits, Agrees
  <2>2. PICK b : Reaches(Led(q), o, b) /\ Stands(b, m)
    BY <1>1, <2>1 DEF Followed
  <2>3. Alike(b.s, n.s)
    BY <1>2, <1>3, <2>2 DEF Stands, Alike
  <2>4. Top(n) = Top(m)
    BY <1>3 DEF Top
  <2>5. Stands(b, n)
    BY <1>1, <1>3, <2>2, <2>3, <2>4 DEF Stands
  <2> QED BY <2>2, <2>5
<1>6. Behind(lv[Len(m.todo)], n.s)
  BY <1>0, <1>2, <1>3
<1>7. \A j \in 1..Len(n.match) :
        /\ Matchable(n.match[j])
        /\ n.match[j].do = "either" => n.match[j].back \in From(lv[Len(m.todo)], n.s)
  BY <1>0, <1>2, <1>3 DEF Eithers, Placed
<1> QED BY <1>1, <1>3, <1>4, <1>5, <1>6, <1>7, SameShape

LEMMA PutThere ==
  ASSUME NEW todo, IsSeq(todo), todo # << >>, NEW items, IsSeq(items)
  PROVE  \A j \in Len(todo)..Len(Replaced(todo, items)) :
           \E k \in 1..Len(items) : Replaced(todo, items)[j] = items[k]
<1> DEFINE new == Replaced(todo, items)
<1>1. /\ IsSeq(new) /\ Len(new) = Len(todo) - 1 + Len(items)
      /\ \A j \in 1..(Len(todo) - 1) : new[j] = todo[j]
      /\ \A j \in Len(todo)..Len(new) :
           /\ j - Len(todo) + 1 \in 1..Len(items) /\ items # << >>
           /\ new[j] = items[j - Len(todo) + 1]
  BY Put
<1> HIDE DEF new
<1>2. \A j \in Len(todo)..Len(new) : \E k \in 1..Len(items) : new[j] = items[k]
  BY <1>1
<1> QED BY <1>2 DEF new

LEMMA MatchingIs ==
  ASSUME NEW m, Plain(m), m.match # << >>, NEW at, NEW s, Eithers(m.match, at, s),
         NEW items, IsSeq(items), \A k \in 1..Len(items) : Placed(items[k], at, s)
  PROVE  /\ Has(Matching(m, items), m.ok, m.s, m.str, m.dep, m.tr, Replaced(m.match, items), m.todo)
         /\ Eithers(Replaced(m.match, items), at, s)
<1>1. Has(Matching(m, items), m.ok, m.s, m.str, m.dep, m.tr, Replaced(m.match, items), m.todo)
  <2>1. PICK r : r = Replaced(m.match, items)
    OBVIOUS
  <2>2. Matching(m, items) = [m EXCEPT !.match = r]
    BY <2>1 DEF Matching, Replaced
  <2> QED BY <2>1, <2>2, Forms
<1> DEFINE new == Replaced(m.match, items)
<1>0. IsSeq(m.match)
  BY DEF Eithers
<1>21. IsSeq(new) /\ Len(new) = Len(m.match) - 1 + Len(items)
  BY <1>0, Put
<1>22. \A j \in 1..(Len(m.match) - 1) : new[j] = m.match[j]
  BY <1>0, Put
<1>23. \A j \in Len(m.match)..Len(new) : \E k \in 1..Len(items) : new[j] = items[k]
  BY <1>0, PutThere
<1> HIDE DEF new
<1>3. ASSUME NEW j \in 1..Len(new) PROVE Placed(new[j], at, s)
  <2>0. Len(m.match) \in Nat /\ Len(new) \in Nat
    BY <1>21, SeqIs DEF Eithers
  <2>1. CASE j < Len(m.match)
    <3>1. j \in 1..(Len(m.match) - 1) /\ j \in 1..Len(m.match)
      BY <2>0, <2>1
    <3> QED BY <1>22, <3>1 DEF Eithers
  <2>2. CASE j >= Len(m.match)
    <3>1. j \in Len(m.match)..Len(new)
      BY <2>0, <2>2
    <3> QED BY <1>23, <3>1
  <2> QED BY <2>0, <2>1, <2>2
<1>4. Eithers(new, at, s)
  BY <1>21, <1>3 DEF Eithers
<1> QED BY <1>1, <1>4 DEF new

LEMMA FromAlike ==
  ASSUME NEW at, NEW a, NEW b, Alike(a, b)
  PROVE  From(at, a) = From(at, b) /\ \A match : Eithers(match, at, a) => Eithers(match, at, b)
<1>1. From(at, a) = From(at, b)
  BY DEF Alike, From, Places
<1> QED BY <1>1 DEF Eithers, Placed

LEMMA ConstTurnGood ==
  ASSUME NEW o, NEW m, NEW lv, Good(o, m, lv), m.match # << >>
  PROVE  \E lw : Good(o, Turn(Pegs, m), lw)
<1> DEFINE at == lv[Len(m.todo)]
           f == m.match[Len(m.match)]
<1>1. /\ m.todo # << >> /\ IsSeq(m.match)
      /\ \A j \in 1..Len(m.match) : Placed(m.match[j], at, m.s)
  BY DEF Good, Sound, Chain, Placed
<1>2. Plain(m) /\ m.ok \in BOOLEAN /\ Behind(at, m.s) /\ IsStream(m.s)
  BY <1>1, TopIs
<1>3. at.pos \in Nat /\ m.s.pos \in From(at, m.s) /\ at.size = m.s.size
  BY <1>2, PosIsNat DEF Behind, Alike, IsStream, From
<1>4. Len(m.match) \in 1..Len(m.match)
  BY <1>1, SeqIs
<1> HIDE DEF at
<1>5. Eithers(m.match, at, m.s) /\ Placed(f, at, m.s)
  BY <1>1, <1>4 DEF Eithers
<1>6. Turn(Pegs, m) = IF m.ok THEN ConstGoesOn(m, f) ELSE ConstBacksOut(m, f)
  <2>1. Turn(Pegs, m) = ConstTurn(m)
    <3>1. Turn(Pegs, m) = PegTurn(Pegs, m)
      BY DEF Turn, Pegs
    <3> QED BY <3>1 DEF PegTurn
  <2> QED BY <2>1 DEF ConstTurn
<1> HIDE DEF f
<1> DEFINE Plainly(items) ==
             IsSeq(items) /\ \A k \in 1..Len(items) : Placed(items[k], at, m.s)
<1>7. ASSUME NEW items, Plainly(items) PROVE Matched(m, at, Matching(m, items))
  <2>1. /\ Has(Matching(m, items), m.ok, m.s, m.str, m.dep, m.tr, Replaced(m.match, items), m.todo)
        /\ Eithers(Replaced(m.match, items), at, m.s)
    BY <1>2, <1>5, <1>7, MatchingIs
  <2>2. Alike(m.s, m.s)
    BY <1>2 DEF Alike
  <2> QED BY <1>2, <2>1, <2>2 DEF Matched
<1>8. /\ Plainly(<< >>)
      /\ \A x : Placed(x, at, m.s) => Plainly(<<x>>)
      /\ \A x, y : Placed(x, at, m.s) /\ Placed(y, at, m.s) => Plainly(<<x, y>>)
  <2>1. ASSUME NEW s, s = << >> PROVE Plainly(s)
    <3>1. IsSeq(s) /\ Len(s) = 0
      BY <2>1, Few
    <3> QED BY <3>1
  <2>2. ASSUME NEW x, Placed(x, at, m.s), NEW s, s = <<x>> PROVE Plainly(s)
    <3>1. IsSeq(s) /\ Len(s) = 1 /\ s[1] = x
      BY <2>2, Few
    <3> QED BY <2>2, <3>1
  <2>3. ASSUME NEW x, NEW y, Placed(x, at, m.s), Placed(y, at, m.s), NEW s, s = <<x, y>>
        PROVE  Plainly(s)
    <3>1. IsSeq(s) /\ Len(s) = 2 /\ s[1] = x /\ s[2] = y
      BY <2>3, Few
    <3>2. \A k \in 1..Len(s) : k = 1 \/ k = 2
      BY <3>1
    <3> QED BY <2>3, <3>1, <3>2
  <2> HIDE DEF Plainly
  <2>4. \A x : Placed(x, at, m.s) => Plainly(<<x>>)
    BY <2>2
  <2>5. \A x, y : Placed(x, at, m.s) /\ Placed(y, at, m.s) => Plainly(<<x, y>>)
    BY <2>3
  <2> QED BY <2>1, <2>4, <2>5
<1> HIDE DEF Plainly
<1>9. /\ \A k \in Constants : Placed(Match(k), at, m.s) /\ Placed(Again(k), at, m.s)
      /\ \A k, i : Width(k) => Placed(EachSymbol(k, i), at, m.s)
      /\ \A ks \in Seq(Constants), i \in Nat \ {0} : Placed(EachMatch(ks, i), at, m.s)
  BY DEF Match, EachSymbol, EachMatch, Again, Placed, Matchable
<1>10. \A ks \in Seq(Constants), i \in Nat \ {0}, p \in From(at, m.s) :
         i <= Len(ks) => Placed(Either(ks, i, p), at, m.s)
  BY DEF Either, Placed, Matchable
<1>11. CASE m.ok
  <2>0. Turn(Pegs, m) = ConstGoesOn(m, f)
    BY <1>6, <1>11
  <2>1. CASE f.do = "match"
    <3> DEFINE k == f.k
    <3>0. ConstGoesOn(m, f) = PegConst(m, k)
      BY <2>1 DEF ConstGoesOn
    <3>2. k \in Constants /\ WellFormedConst(k)
      BY <1>5, <2>1, CParserAssumption DEF Placed, Matchable
    <3> HIDE DEF k
    <3>1. Matched(m, at, PegConst(m, k))
      <4>1. CASE k.op = "carray"
        <5>1. PegConst(m, k) = Matching(m, <<EachSymbol(k, 1)>>)
          BY <4>1 DEF PegConst
        <5>2. Width(k)
          BY <3>2, <4>1 DEF WellFormedConst
        <5>3. Placed(EachSymbol(k, 1), at, m.s)
          BY <1>9, <5>2
        <5> QED BY <1>7, <1>8, <5>1, <5>3
      <4>2. CASE k.op = "cstruct"
        <5>1. PegConst(m, k) = Matching(m, <<EachMatch(k.ks, 1)>>)
          BY <4>2 DEF PegConst
        <5>2. k.ks \in Seq(Constants)
          BY <3>2, <4>2 DEF WellFormedConst
        <5>3. Placed(EachMatch(k.ks, 1), at, m.s)
          BY <1>9, <5>2
        <5> QED BY <1>7, <1>8, <5>1, <5>3
      <4>3. CASE k.op = "crepeat"
        <5>1. PegConst(m, k) = Matching(m, <<Again(k.k), Match(k.k)>>)
          BY <4>3 DEF PegConst
        <5>2. k.k \in Constants
          BY <3>2, <4>3 DEF WellFormedConst
        <5>3. Placed(Again(k.k), at, m.s) /\ Placed(Match(k.k), at, m.s)
          BY <1>9, <5>2
        <5> QED BY <1>7, <1>8, <5>1, <5>3
      <4>4. CASE k.op \notin {"carray", "cstruct", "crepeat"}
        <5>1. PegConst(m, k) = Matching(m, <<Either(k.ks, 1, m.s.pos), Match(k.ks[1])>>)
          BY <4>4 DEF PegConst
        <5>2. k.ks \in Seq(Constants) /\ k.ks # << >>
          BY <3>2, <4>4 DEF WellFormedConst
        <5>3. 1 <= Len(k.ks) /\ k.ks[1] \in Constants
          BY <5>2
        <5>4. Placed(Either(k.ks, 1, m.s.pos), at, m.s)
          BY <1>3, <1>10, <5>2, <5>3
        <5>5. Placed(Match(k.ks[1]), at, m.s)
          BY <1>9, <5>3
        <5> QED BY <1>7, <1>8, <5>1, <5>4, <5>5
      <4> QED BY <4>1, <4>2, <4>3, <4>4
    <3> QED BY <2>0, <3>0, <3>1, MatchedGood DEF at
  <2>2. CASE f.do = "symbols" /\ f.i > Len(f.k.syms)
    <3>1. ConstGoesOn(m, f) = Matching(m, << >>)
      BY <2>2 DEF ConstGoesOn
    <3>2. Matched(m, at, Matching(m, << >>))
      BY <1>7, <1>8
    <3> QED BY <2>0, <3>1, <3>2, MatchedGood DEF at
  <2>3. CASE f.do = "symbols" /\ ~(f.i > Len(f.k.syms))
    <3> DEFINE items == <<EachSymbol(f.k, f.i + 1)>>
               e == Matching(m, items)
               set == {f.k.syms[f.i]}
               r == PegInt(e, f.k, set)
    <3>0. Width(f.k)
      BY <1>5, <2>3 DEF Placed, Matchable
    <3>1. ConstGoesOn(m, f) = r
      BY <2>3 DEF ConstGoesOn
    <3>2. Plainly(items)
      BY <1>8, <1>9, <3>0
    <3> HIDE DEF items, set
    <3>3. /\ Has(e, m.ok, m.s, m.str, m.dep, m.tr, Replaced(m.match, items), m.todo)
          /\ Eithers(Replaced(m.match, items), at, m.s)
      BY <1>2, <1>5, <3>2, MatchingIs DEF Plainly
    <3>4. Plain(e) /\ IsStream(e.s) /\ e.ok \in BOOLEAN
      BY <1>2, <3>3 DEF Has
    <3> HIDE DEF e
    <3>5. Failed(e, r) \/ ReadOver(e, r, f.k.w) \/ ReadOne(e, r, f.k, set)
      BY <3>0, <3>4, ReadsInteger
    <3> HIDE DEF r
    <3>6. CASE Failed(e, r)
      <4>1. Has(r, FALSE, m.s, m.str, m.dep, m.tr, Replaced(m.match, items), m.todo)
        BY <3>3, <3>6 DEF Failed, Has
      <4>2. Matched(m, at, r)
        BY <1>2, <3>3, <4>1 DEF Matched, Alike
      <4> QED BY <2>0, <3>1, <4>2, MatchedGood DEF at
    <3>7. CASE ReadOver(e, r, f.k.w)
      <4>1. ReadOver(m, r, f.k.w)
        BY <3>3, <3>7 DEF ReadOver, Has
      <4> QED BY <2>0, <3>1, <4>1, ReadOverGood
    <3>8. CASE ReadOne(e, r, f.k, set)
      <4>1. Has(r, m.ok, Forward(m.s, f.k.w), m.str, m.dep, m.tr, Replaced(m.match, items), m.todo)
            /\ IsStream(Forward(m.s, f.k.w)) /\ Behind(m.s, Forward(m.s, f.k.w))
        BY <3>3, <3>8 DEF ReadOne, Has
      <4>2. Behind(at, Forward(m.s, f.k.w)) /\ Alike(Forward(m.s, f.k.w), m.s) /\ Forward(m.s, f.k.w).size = m.s.size
        <5>1. Behind(at, Forward(m.s, f.k.w))
          BY <1>2, <4>1, BehindTrans
        <5> QED BY <4>1, <5>1 DEF Behind, Alike
      <4>3. Matched(m, at, r)
        <5>1. Eithers(Replaced(m.match, items), at, Forward(m.s, f.k.w))
          BY <3>3, <4>2, FromAlike DEF Alike
        <5> QED BY <1>2, <4>1, <4>2, <5>1 DEF Matched
      <4> QED BY <2>0, <3>1, <4>3, MatchedGood DEF at
    <3> QED BY <3>5, <3>6, <3>7, <3>8
  <2>4. CASE f.do = "matches"
    <3>1. Matched(m, at, ConstGoesOn(m, f))
      <4>1. CASE f.i > Len(f.ks)
        <5>1. ConstGoesOn(m, f) = Matching(m, << >>)
          BY <2>4, <4>1 DEF ConstGoesOn
        <5> QED BY <1>7, <1>8, <5>1
      <4>2. CASE ~(f.i > Len(f.ks))
        <5>1. ConstGoesOn(m, f) = Matching(m, <<EachMatch(f.ks, f.i + 1), Match(f.ks[f.i])>>)
          BY <2>4, <4>2 DEF ConstGoesOn
        <5>2. f.ks \in Seq(Constants) /\ f.i \in Nat \ {0}
          BY <1>5, <2>4 DEF Placed, Matchable
        <5>3. f.i \in 1..Len(f.ks)
          BY <4>2, <5>2
        <5>4. f.ks[f.i] \in Constants /\ f.i + 1 \in Nat \ {0}
          BY <5>2, <5>3
        <5>5. Placed(EachMatch(f.ks, f.i + 1), at, m.s) /\ Placed(Match(f.ks[f.i]), at, m.s)
          BY <1>9, <5>2, <5>4
        <5> QED BY <1>7, <1>8, <5>1, <5>5
      <4> QED BY <4>1, <4>2
    <3> QED BY <2>0, <3>1, MatchedGood DEF at
  <2>5. CASE f.do = "again"
    <3>1. ConstGoesOn(m, f) = Matching(m, <<f, Match(f.k)>>)
      BY <2>5 DEF ConstGoesOn
    <3>2. Matched(m, at, Matching(m, <<f, Match(f.k)>>))
      <4>1. f.k \in Constants
        BY <1>5, <2>5 DEF Placed, Matchable
      <4>2. Placed(Match(f.k), at, m.s)
        BY <1>9, <4>1
      <4> QED BY <1>5, <1>7, <1>8, <4>2
    <3> QED BY <2>0, <3>1, <3>2, MatchedGood DEF at
  <2>6. CASE f.do \notin {"match", "symbols", "matches", "again"}
    <3>1. ConstGoesOn(m, f) = Matching(m, << >>)
      BY <2>6 DEF ConstGoesOn
    <3>2. Matched(m, at, Matching(m, << >>))
      BY <1>7, <1>8
    <3> QED BY <2>0, <3>1, <3>2, MatchedGood DEF at
  <2> QED BY <2>1, <2>2, <2>3, <2>4, <2>5, <2>6
<1>12. CASE ~m.ok
  <2>0. Turn(Pegs, m) = ConstBacksOut(m, f)
    BY <1>6, <1>12
  <2>1. CASE f.do = "either"
    <3> DEFINE s == Reposition(m.s, f.back)
               r == [m EXCEPT !.s = s]
               r1 == [r EXCEPT !.ok = TRUE]
    <3>1. ConstBacksOut(m, f) = NextEither(m, f)
      BY <2>1 DEF ConstBacksOut
    <3>0. f.back \in From(at, m.s) /\ f.ks \in Seq(Constants) /\ f.i \in 1..Len(f.ks)
      BY <1>5, <2>1 DEF Placed, Matchable
    <3>2. Alike(s, m.s) /\ s.pos = f.back /\ IsStream(s)
      <4>1. f.back \in Places(m.s) /\ Alike(m.s, m.s)
        BY <1>2, <3>0 DEF Alike, From
      <4> QED BY <4>1, Moved
    <3>3. Behind(at, s) /\ Alike(m.s, s)
      BY <1>2, <3>0, <3>2 DEF Behind, Alike, From
    <3>4. Has(r, m.ok, s, m.str, m.dep, m.tr, m.match, m.todo)
      BY <1>2, Forms
    <3> HIDE DEF s
    <3>5. NextEither(m, f) = IF f.i = Len(f.ks) THEN Matching(r, << >>)
            ELSE Matching(r1, <<Either(f.ks, f.i + 1, f.back), Match(f.ks[f.i + 1])>>)
      BY DEF NextEither, s
    <3> HIDE DEF r
    <3>6. Plain(r) /\ r.match = m.match
      BY <3>4 DEF Has
    <3>7. Has(r1, TRUE, s, m.str, m.dep, m.tr, m.match, m.todo)
      <4>1. Has(r1, TRUE, r.s, r.str, r.dep, r.tr, r.match, r.todo)
        BY <3>6, Forms
      <4> HIDE DEF r1
      <4> QED BY <3>4, <4>1 DEF Has
    <3> HIDE DEF r1
    <3>8. Plain(r1) /\ r1.match = m.match
      BY <3>7 DEF Has
    <3>9. CASE f.i = Len(f.ks)
      <4> DEFINE n == Matching(r, << >>)
      <4>1. /\ Has(n, r.ok, r.s, r.str, r.dep, r.tr, Replaced(r.match, << >>), r.todo)
            /\ Eithers(Replaced(r.match, << >>), at, m.s)
        BY <1>5, <1>8, <3>6, MatchingIs DEF Plainly
      <4> HIDE DEF n
      <4>2. Has(n, m.ok, s, m.str, m.dep, m.tr, Replaced(m.match, << >>), m.todo)
        BY <3>4, <4>1 DEF Has
      <4>3. Matched(m, at, n)
        <5>1. Eithers(Replaced(m.match, << >>), at, s)
          BY <3>3, <3>6, <4>1, FromAlike
        <5> QED BY <1>2, <3>2, <3>3, <4>2, <5>1 DEF Matched
      <4> QED BY <2>0, <3>1, <3>5, <3>9, <4>3, MatchedGood DEF at, n
    <3>10. CASE f.i # Len(f.ks)
      <4> DEFINE items == <<Either(f.ks, f.i + 1, f.back), Match(f.ks[f.i + 1])>>
                 n == Matching(r1, items)
      <4>0. Plainly(items)
        <5>1. f.i + 1 \in Nat \ {0} /\ f.i + 1 \in 1..Len(f.ks)
          BY <3>0, <3>10
        <5>2. f.ks[f.i + 1] \in Constants
          BY <3>0, <5>1
        <5>3. Placed(Either(f.ks, f.i + 1, f.back), at, m.s)
          BY <1>10, <3>0, <5>1
        <5> QED BY <1>8, <1>9, <5>2, <5>3
      <4> HIDE DEF items
      <4>1. /\ Has(n, r1.ok, r1.s, r1.str, r1.dep, r1.tr, Replaced(r1.match, items), r1.todo)
            /\ Eithers(Replaced(r1.match, items), at, m.s)
        BY <1>5, <3>8, <4>0, MatchingIs DEF Plainly
      <4> HIDE DEF n
      <4>2. Has(n, TRUE, s, m.str, m.dep, m.tr, Replaced(m.match, items), m.todo)
        BY <3>7, <4>1 DEF Has
      <4>3. Matched(m, at, n)
        <5>1. Eithers(Replaced(m.match, items), at, s)
          BY <3>3, <3>8, <4>1, FromAlike
        <5> QED BY <3>2, <3>3, <4>2, <5>1 DEF Matched
      <4>4. Turn(Pegs, m) = n
        BY <2>0, <3>1, <3>5, <3>10 DEF n, items
      <4> QED BY <4>3, <4>4, MatchedGood DEF at
    <3> QED BY <3>9, <3>10
  <2>2. CASE f.do = "again"
    <3> DEFINE r == [m EXCEPT !.ok = TRUE]
               n == Matching(r, << >>)
    <3>1. ConstBacksOut(m, f) = n
      BY <2>2 DEF ConstBacksOut
    <3>2. Has(r, TRUE, m.s, m.str, m.dep, m.tr, m.match, m.todo)
      BY <1>2, Forms
    <3> HIDE DEF r
    <3>3. Plain(r) /\ r.match = m.match
      BY <3>2 DEF Has
    <3>4. /\ Has(n, r.ok, r.s, r.str, r.dep, r.tr, Replaced(r.match, << >>), r.todo)
          /\ Eithers(Replaced(r.match, << >>), at, m.s)
      BY <1>5, <1>8, <3>3, MatchingIs DEF Plainly
    <3> HIDE DEF n
    <3>5. Has(n, TRUE, m.s, m.str, m.dep, m.tr, Replaced(m.match, << >>), m.todo)
      BY <3>2, <3>4 DEF Has
    <3>6. Alike(m.s, m.s)
      BY <1>2 DEF Alike
    <3>7. Matched(m, at, n)
      BY <1>2, <3>3, <3>4, <3>5, <3>6 DEF Matched
    <3> QED BY <2>0, <3>1, <3>7, MatchedGood DEF at
  <2>3. CASE f.do \notin {"either", "again"}
    <3>1. ConstBacksOut(m, f) = Matching(m, << >>)
      BY <2>3 DEF ConstBacksOut
    <3>2. Matched(m, at, Matching(m, << >>))
      BY <1>7, <1>8
    <3> QED BY <2>0, <3>1, <3>2, MatchedGood DEF at
  <2> QED BY <2>1, <2>2, <2>3
<1> QED BY <1>2, <1>11, <1>12

-----------------------------------------------------------------------------
(* Frames: their items, and their cells.                                   *)
LEMMA Two ==
  ASSUME NEW a, NEW b, NEW s, s = <<a, b>>
  PROVE  /\ IsSeq(s) /\ Len(s) = 2 /\ s[1] = a /\ s[2] = b /\ s # << >>
         /\ \A k \in 1..Len(s) : k = 1 \/ k = 2
         /\ \A k \in 2..Len(s) : k = 2
<1>1. IsSeq(s) /\ Len(s) = 2 /\ s[1] = a /\ s[2] = b
  BY Few
<1>2. s # << >>
  BY <1>1, Few
<1> QED BY <1>1, <1>2

Framed(s, a, t) == s = <<a>> \o t
LEMMA FrameFirst ==
  ASSUME NEW a, NEW t, IsSeq(t), NEW s, Framed(s, a, t)
  PROVE  /\ IsSeq(s) /\ Len(s) = 1 + Len(t) /\ Len(t) \in Nat /\ s[1] = a /\ s # << >>
         /\ \A k \in 2..Len(s) : k - 1 \in 1..Len(t) /\ s[k] = t[k - 1]
<1>1. PICK h : h = <<a>>
  OBVIOUS
<1>2. IsSeq(h) /\ Len(h) = 1 /\ h[1] = a
  BY <1>1, Few
<1>3. Len(t) \in Nat
  BY SeqIs
<1>4. /\ IsSeq(h \o t) /\ Len(h \o t) = Len(h) + Len(t)
      /\ \A i \in 1..(Len(h) + Len(t)) : (h \o t)[i] = IF i <= Len(h) THEN h[i] ELSE t[i - Len(h)]
  BY <1>2, Joined
<1>5. s = h \o t
  BY <1>1 DEF Framed
<1>6. /\ IsSeq(s) /\ Len(s) = 1 + Len(t)
      /\ \A i \in 1..(1 + Len(t)) : s[i] = IF i <= 1 THEN h[i] ELSE t[i - 1]
  BY <1>2, <1>4, <1>5
<1>7. s[1] = a /\ s # << >>
  BY <1>2, <1>3, <1>6, Few
<1>8. \A k \in 2..Len(s) : k - 1 \in 1..Len(t) /\ s[k] = t[k - 1]
  BY <1>3, <1>6
<1> QED BY <1>3, <1>6, <1>7, <1>8

LEMMA FrameHead ==
  ASSUME NEW a, NEW t, IsSeq(t), NEW s, Framed(s, a, t)
  PROVE  s[1] = a /\ s # << >> /\ IsSeq(s)
  BY FrameFirst
LEMMA FrameLen ==
  ASSUME NEW a, NEW t, IsSeq(t), NEW s, Framed(s, a, t)
  PROVE  Len(s) = 1 + Len(t)
  BY FrameFirst
LEMMA KeptLen ==
  ASSUME NEW o, NEW m, NEW lv, Good(o, m, lv), m.todo # << >>, NEW n, NEW items, Keeps(m, n, items)
  PROVE  Len(n.todo) = Len(m.todo) - 1 + Len(items)
  BY KeptBelow
LEMMA PushThen ==
  ASSUME NEW m, Plain(m), NEW cells, NEW items
  PROVE  Has(Then(Push(m, cells), items), m.ok, m.s, m.str, m.dep, m.tr \o cells, m.match,
             Replaced(m.todo, items))
<1> DEFINE e == Push(m, cells)
           n == Then(e, items)
<1>1. Has(e, m.ok, m.s, m.str, m.dep, m.tr \o cells, m.match, m.todo)
  BY Forms
<1> HIDE DEF e
<1>2. Plain(e)
  BY <1>1 DEF Has
<1>3. Has(n, e.ok, e.s, e.str, e.dep, e.tr, e.match, Replaced(e.todo, items))
  BY <1>2, Forms
<1> HIDE DEF n
<1>4. Has(n, m.ok, m.s, m.str, m.dep, m.tr \o cells, m.match, Replaced(m.todo, items))
  BY <1>1, <1>3 DEF Has
<1> QED BY <1>4 DEF n, e

(* A cell, or two, filled in.                                              *)
Filled(tr, at, n, new) ==
  /\ IsSeq(new) /\ Len(new) = Len(tr)
  /\ \A i \in 1..Len(tr) : i \notin (at + 1)..(at + n) => new[i] = tr[i]
LEMMA CellSet ==
  ASSUME NEW tr, IsSeq(tr), NEW at \in Nat, at + 1 <= Len(tr), NEW v
  PROVE  Filled(tr, at, 1, [tr EXCEPT ![at + 1] = v]) /\ [tr EXCEPT ![at + 1] = v][at + 1] = v
<1> DEFINE S == Range(tr) \cup {v}
           new == [tr EXCEPT ![at + 1] = v]
<1>1. tr \in Seq(S) /\ v \in S /\ Len(tr) \in Nat
  BY SeqMonotonic, SeqIs DEF IsSeq
<1>2. at + 1 \in 1..Len(tr)
  BY <1>1
<1> HIDE DEF S
<1>3. new \in Seq(S) /\ Len(new) = Len(tr) /\ \A j \in 1..Len(tr) : new[j] = IF j = at + 1 THEN v ELSE tr[j]
  BY <1>1, <1>2, ExceptSeq
<1> HIDE DEF new
<1>4. IsSeq(new)
  BY <1>3, MakesSeq
<1>5. Filled(tr, at, 1, new)
  BY <1>2, <1>3, <1>4 DEF Filled
<1>6. new[at + 1] = v
  BY <1>2, <1>3
<1> QED BY <1>5, <1>6 DEF new

LEMMA CellsSet ==
  ASSUME NEW m, Plain(m), IsSeq(m.tr), NEW at \in Nat, at + 2 <= Len(m.tr), NEW v, NEW w
  PROVE  \E new : /\ Has(SetCells(m, at, v, w), m.ok, m.s, m.str, m.dep, new, m.match, m.todo)
                  /\ Filled(m.tr, at, 2, new) /\ new[at + 1] = v /\ new[at + 2] = w
<1> DEFINE e == SetCell(m, at, v)
           tr1 == [m.tr EXCEPT ![at + 1] = v]
           n == SetCell(e, at + 1, w)
           tr2 == [tr1 EXCEPT ![(at + 1) + 1] = w]
<1>0. Len(m.tr) \in Nat /\ at + 1 <= Len(m.tr) /\ at + 1 \in Nat /\ (at + 1) + 1 <= Len(m.tr)
  BY SeqIs
<1>1. Has(e, m.ok, m.s, m.str, m.dep, tr1, m.match, m.todo)
  BY Forms
<1>2. Filled(m.tr, at, 1, tr1) /\ tr1[at + 1] = v
  BY <1>0, CellSet
<1> HIDE DEF e, tr1
<1>3. IsSeq(tr1) /\ Len(tr1) = Len(m.tr) /\ Plain(e) /\ e.tr = tr1
  BY <1>1, <1>2 DEF Filled, Has
<1>4. Has(n, e.ok, e.s, e.str, e.dep, tr2, e.match, e.todo)
  BY <1>3, Forms
<1>5. Filled(tr1, at + 1, 1, tr2) /\ tr2[(at + 1) + 1] = w
  BY <1>0, <1>3, CellSet
<1> HIDE DEF n, tr2
<1>6. Has(n, m.ok, m.s, m.str, m.dep, tr2, m.match, m.todo)
  BY <1>1, <1>4 DEF Has
<1>7. Filled(m.tr, at, 2, tr2)
  BY <1>0, <1>2, <1>5 DEF Filled
<1>8. tr2[at + 1] = v /\ tr2[at + 2] = w
  <2>1. at + 1 \in 1..Len(tr1) /\ at + 1 \notin ((at + 1) + 1)..((at + 1) + 1) /\ (at + 1) + 1 = at + 2
    BY <1>0, <1>3
  <2> QED BY <1>2, <1>5, <2>1 DEF Filled
<1> QED BY <1>6, <1>7, <1>8 DEF SetCells, n, e

(* Where an attempt begins: where the second pass stands before it.         *)
LEMMA NewLevel ==
  ASSUME NEW o, NEW m, NEW lv, Good(o, m, lv), m.todo # << >>, m.ok, Top(m).do # "recorded",
         NEW n, NEW items, Keeps(m, n, items), items # << >>,
         \A k \in 2..Len(items) : ToDo(items[k]),
         \A q : Tries(q, n, Len(m.todo), Len(n.tr)) => Suits(q, Top(m)),
         \A b : Stands(b, m) =>
           /\ items[1].do \in {"alternative", "maybe"} =>
                b.ti = items[1].at /\ Top(b).do = "parse" /\ Top(b).p = items[1].p
           /\ items[1].do = "more" => Top(b) = Elements(items[1].p, items[1].i - 1, items[1].at)
  PROVE  Level(o, n, Len(m.todo), m.s)
<1>0. PICK L, x : L = Len(m.todo) /\ x = Len(n.tr)
  OBVIOUS
<1>1. L \in Nat \ {0} /\ x \in Nat /\ x \in 0..Len(n.tr)
  BY <1>0, TopIs DEF Keeps, Patched
<1>2. /\ IsSeq(items) /\ Len(items) \in Nat \ {0} /\ IsSeq(n.todo)
      /\ Len(n.todo) = L - 1 + Len(items)
      /\ \A j \in 1..(L - 1) : n.todo[j] = m.todo[j]
  <2>1. IsSeq(items) /\ Len(items) \in Nat \ {0}
    BY SeqIs DEF Keeps
  <2> QED BY <1>0, <2>1, KeptBelow
<1>3. \A k \in 1..Len(items) : n.todo[L - 1 + k] = items[k]
  BY <1>0, KeptBelow
<1>4. n.todo[L] = items[1] /\ L \in 0..Len(n.todo)
  <2>1. n.todo[L - 1 + 1] = items[1]
    BY <1>2, <1>3
  <2> QED BY <1>1, <1>2, <2>1
<1>5. ASSUME NEW j \in (L + 1)..Len(n.todo) PROVE Own(n.todo[j]) = {}
  <2>1. PICK k : k = j - L + 1
    OBVIOUS
  <2>2. k \in 2..Len(items) /\ k \in 1..Len(items) /\ L - 1 + k = j
    BY <1>1, <1>2, <2>1
  <2>3. n.todo[j] = items[k]
    BY <1>3, <2>2
  <2> QED BY <2>2, <2>3, OwnsNothing
<1>6. ASSUME NEW q, Tries(q, n, L, x) PROVE \E b : Reaches(Led(q), o, b) /\ StandsAt(b, n.todo, L, m.s)
  <2>1. Fits(q, m)
    <3>1. Agrees(q, n, L, Len(n.tr)) /\ \A j \in 1..(L - 1) : Suits(q, n.todo[j])
      BY <1>0, <1>6 DEF Tries
    <3>2. Suits(q, Top(m))
      BY <1>0, <1>6
    <3> QED BY <1>0, <1>4, <3>1, <3>2, FitsBefore
  <2>2. PICK b : Reaches(Led(q), o, b) /\ Stands(b, m)
    BY <2>1 DEF Good, Followed
  <2>3. /\ IsBind(b) /\ Len(b.todo) = L /\ Top(b) = b.todo[L]
        /\ Mirrored(b, m.todo, L - 1) /\ Behind(b.s, m.s)
    BY <1>0, <2>2, StandsTop
  <2>4. Mirrored(b, n.todo, L - 1)
    BY <1>2, <2>3 DEF Mirrored
  <2>5. StandsAt(b, n.todo, L, m.s)
    BY <1>4, <2>2, <2>3, <2>4 DEF StandsAt
  <2> QED BY <2>2, <2>5
<1>7. Level(o, n, L, m.s)
  BY <1>0, <1>1, <1>5, <1>6 DEF Level
<1> QED BY <1>0, <1>7

-----------------------------------------------------------------------------
(* Choices.                                                                *)
LEMMA ChoiceIs ==
  ASSUME NEW p \in Parsers, p.op \in {"choice", "nunion"}
  PROVE  /\ Len(p.ps) \in Nat \ {0} /\ \A i \in 1..Len(p.ps) : p.ps[i] \in Parsers
         /\ DOMAIN p.tags = 1..Len(p.ps)
         /\ \A i, j \in 1..Len(p.ps) : p.tags[i] = p.tags[j] => i = j
<1>1. /\ p.ps \in Seq(Parsers) /\ p.ps # << >> /\ DOMAIN p.tags = DOMAIN p.ps
      /\ \A i, j \in DOMAIN p.tags : p.tags[i] = p.tags[j] => i = j
  BY CParserAssumption DEF WellFormed
<1>2. Len(p.ps) \in Nat \ {0} /\ DOMAIN p.ps = 1..Len(p.ps) /\ \A i \in 1..Len(p.ps) : p.ps[i] \in Parsers
  BY <1>1
<1> QED BY <1>1, <1>2

LEMMA ChoiceSteps ==
  ASSUME NEW q, NEW b, IsB(b), b.ti \in Nat, Top(b).do = "parse",
         NEW p \in Parsers, Top(b).p = p, p.op \in {"choice", "nunion"},
         NEW i \in 1..Len(p.ps), q[b.ti + 1] = p.tags[i], NEW n, q[b.ti + 2] = Len(n.tr),
         Len(q) \in Nat, Len(q) >= b.ti + 2, Behind(b.s, n.s),
         NEW back, NEW at, NEW from
  PROVE  Steps(q, b, n, <<Alternative(p, i, back, at, from), Parse(p.ps[i])>>)
<1> DEFINE new == <<Picked(p, i), Parse(p.ps[i])>>
           e == Then(b, new)
           d == [e EXCEPT !.ti = q[b.ti + 2]]
<1>1. Cell(Led(q), b) = p.tags[i] /\ Led(q).tr = q
  BY DEF Cell, Led
<1>2. Chosen(Led(q), b, p) = i
  BY <1>1, ChoiceIs DEF Chosen
<1>3. BindItem(Led(q), b, Top(b)) = d
  <2>1. BindItem(Led(q), b, Top(b)) = BindParser(Led(q), b, p)
    BY DEF BindItem, Walks, Walked
  <2>2. BindParser(Led(q), b, p) = BindChoice(Led(q), b, p)
    BY DEF BindParser
  <2> QED BY <1>1, <1>2, <2>1, <2>2 DEF BindChoice
<1>4. PICK a, c : a = Picked(p, i) /\ c = Parse(p.ps[i])
  OBVIOUS
<1>5. /\ IsSeq(new) /\ Len(new) = 2 /\ new[1] = Picked(p, i) /\ new[2] = Parse(p.ps[i])
  BY <1>4, Two
<1> HIDE DEF new
<1>6. HasB(e, b.s, b.ti, b.vals, b.lost, b.over, Replaced(b.todo, new))
  BY BindForms
<1>7. HasB(d, b.s, Len(n.tr), b.vals, b.lost, b.over, Replaced(b.todo, new))
  <2>1. IsB(e)
    BY <1>6 DEF HasB
  <2> HIDE DEF e
  <2>2. HasB(d, e.s, q[b.ti + 2], e.vals, e.lost, e.over, e.todo)
    BY <2>1, BindForms
  <2> HIDE DEF d
  <2> QED BY <1>6, <2>2 DEF HasB
<1>8. ~Loses(Led(q), b, Top(b)) /\ ~ReadsOver(b, Top(b))
  <2>1. Cells(Top(b)) = 2 /\ ~(b.ti + 2 > Len(q))
    BY DEF Cells
  <2>2. i \in DOMAIN p.tags
    BY ChoiceIs
  <2> QED BY <1>1, <2>1, <2>2 DEF Loses, ReadsOver
<1> HIDE DEF d
<1>9. PICK items : items = <<Alternative(p, i, back, at, from), Parse(p.ps[i])>>
  OBVIOUS
<1>10. /\ Len(items) = 2 /\ items[1] = Alternative(p, i, back, at, from)
       /\ items[2] = Parse(p.ps[i]) /\ \A k \in 1..Len(items) : k = 1 \/ k = 2
  BY <1>9, Two
<1>11. Mirrors(new[1], items[1])
  <2>1. PICK g : g = items[1]
    OBVIOUS
  <2>2. g.do = "alternative" /\ g.p = p /\ g.i = i
    BY <1>10, <2>1 DEF Alternative
  <2> QED BY <1>5, <2>1, <2>2 DEF Mirrors
<1>12. Mirrors(new[2], items[2])
  <2>1. PICK g : g = items[2]
    OBVIOUS
  <2>2. ToDo(g)
    <3>1. p.ps[i] \in Parsers
      BY ChoiceIs
    <3> QED BY <1>10, <2>1, <3>1 DEF Parse, ToDo
  <2> QED BY <1>5, <1>10, <2>1, <2>2 DEF Mirrors
<1>13. \A k \in 1..Len(items) : Mirrors(new[k], items[k])
  BY <1>10, <1>11, <1>12
<1>14. Steps(q, b, n, items)
  BY <1>3, <1>5, <1>7, <1>8, <1>10, <1>13 DEF Steps
<1> QED BY <1>9, <1>14

LEMMA ParseToDo == ASSUME NEW p \in Parsers PROVE ToDo(Parse(p)) /\ Own(Parse(p)) = {}
<1>1. PICK f : f = Parse(p)
  OBVIOUS
<1>2. ToDo(f)
  BY <1>1 DEF Parse, ToDo
<1> QED BY <1>1, <1>2, OwnsNothing

LEMMA ChoiceTurn ==
  ASSUME NEW o, NEW m, NEW lv, Good(o, m, lv), m.todo # << >>, m.ok, m.match = << >>,
         ToDo(Top(m)), Top(m).do = "parse", Top(m).p.op \in {"choice", "nunion"}
  PROVE  \E lw : Good(o, Turn(Pegs, m), lw)
<1> DEFINE f == Top(m)
           p == f.p
           fr == Alternative(p, 1, m.s.pos, TracePos(m), TracePos(m) + 2)
           items == <<fr, Parse(p.ps[1])>>
           cells == <<"tag", "begin">>
           n == Then(Push(m, cells), items)
<1>0. PICK k : k = Len(m.tr)
  OBVIOUS
<1>1. Turn(Pegs, m) = n
  <2>1. PegGoesOn(Pegs, m, f) = PegParser(Pegs, m, p)
    BY DEF PegGoesOn, Walks, Walked
  <2>2. PegParser(Pegs, m, p) = PegChoice(m, p)
    BY DEF PegParser
  <2>3. Turn(Pegs, m) = PegGoesOn(Pegs, m, f)
    BY TurnIs
  <2> QED BY <2>1, <2>2, <2>3 DEF PegChoice
<1>2. p \in Parsers
  BY DEF ToDo
<1>3. 1 \in 1..Len(p.ps) /\ p.ps[1] \in Parsers
  BY <1>2, ChoiceIs
<1>4. /\ fr.do = "alternative" /\ fr.p = p /\ fr.i = 1 /\ fr.back = m.s.pos /\ fr.at = k
      /\ fr.from = k + 2
  BY <1>0 DEF Alternative, TracePos
<1>5. Has(n, m.ok, m.s, m.str, m.dep, m.tr \o cells, m.match, Replaced(m.todo, items))
  BY TopIs, PushThen
<1>6. k \in Nat /\ f = m.todo[Len(m.todo)] /\ IsStream(m.s)
  BY <1>0, TopIs
<1>7. IsFrame(fr) /\ Own(fr) = {k + 1, k + 2}
  <2>1. m.s.pos \in Nat
    BY <1>6, PosIsNat
  <2> HIDE DEF fr
  <2> QED BY <1>2, <1>3, <1>4, <1>6, <2>1 DEF IsFrame, Own
<1>8. /\ IsSeq(items) /\ Len(items) = 2 /\ items[1] = fr /\ items[2] = Parse(p.ps[1]) /\ items # << >>
      /\ \A j \in 1..Len(items) : j = 1 \/ j = 2
      /\ \A j \in 2..Len(items) : j = 2
  <2>1. PICK a, c : a = fr /\ c = Parse(p.ps[1])
    OBVIOUS
  <2> QED BY <2>1, Two
<1>9. IsSeq(cells) /\ Len(cells) = 2
  BY Few
<1> HIDE DEF n, cells
<1>10. items = <<Alternative(p, 1, m.s.pos, k, k + 2), Parse(p.ps[1])>>
  BY <1>0 DEF TracePos
<1> HIDE DEF items, fr
<1>11. ToDo(items[2]) /\ Own(items[2]) = {}
  BY <1>3, <1>8, ParseToDo
<1>12. Later(m, items)
  <2>1. \A y \in Own(items[1]) : y \in Int /\ y > k
    BY <1>6, <1>7, <1>8
  <2>2. \A j \in 1..Len(items) : \A y \in Own(items[j]) : y \in Int /\ y > k
    BY <1>8, <1>11, <2>1
  <2> QED BY <1>0, <2>2 DEF Later
<1>13. /\ n.ok = m.ok /\ n.s = m.s /\ n.match = << >> /\ Longer(m, n, cells)
       /\ n.todo = Replaced(m.todo, items)
  BY <1>5 DEF Has, Longer
<1>14. Keeps(m, n, items) /\ IsSeq(n.tr)
  BY <1>8, <1>9, <1>12, <1>13, KeepsLonger
<1>15. Len(n.tr) = Len(m.tr) + Len(cells)
  <2>1. IsSeq(cells) /\ IsSeq(items)
    BY <1>8, <1>9
  <2> QED BY <1>12, <1>13, <2>1, KeepsLonger
<1>16. Len(n.tr) = k + 2
  BY <1>0, <1>9, <1>15
<1>17. Typed(n)
  <2>1. n.tr = m.tr \o cells
    BY <1>13 DEF Longer
  <2> QED BY <1>5, <1>14, <2>1, TypedPeg, Parts
<1>18. \A q : Suits(q, f)
  BY DEF Suits
<1>19. Level(o, n, Len(m.todo), m.s)
  <2>1. ASSUME NEW b, Stands(b, m) PROVE b.ti = k /\ Top(b) = f
    BY <1>0, <2>1, StandsTop, SameItem
  <2>2. \A j \in 2..Len(items) : ToDo(items[j])
    BY <1>8, <1>11
  <2>3. \A b : Stands(b, m) =>
          /\ items[1].do \in {"alternative", "maybe"} =>
               b.ti = items[1].at /\ Top(b).do = "parse" /\ Top(b).p = items[1].p
          /\ items[1].do = "more" => Top(b) = Elements(items[1].p, items[1].i - 1, items[1].at)
    BY <1>4, <1>8, <2>1
  <2> QED BY <1>8, <1>14, <1>18, <2>2, <2>3, NewLevel
<1>20. ASSUME NEW q, NEW b, Fits(q, n), Stands(b, m) PROVE Steps(q, b, n, items)
  <2>1. b.ti = k /\ Top(b) = f /\ Behind(b.s, m.s) /\ IsB(b)
    BY <1>0, <1>20, StandsTop, SameItem
  <2>2. Suits(q, fr)
    <3>1. \A j \in 1..Len(items) : n.todo[Len(m.todo) - 1 + j] = items[j]
      BY <1>14, KeptBelow
    <3>2. Len(m.todo) \in Nat \ {0} /\ Len(n.todo) = Len(m.todo) - 1 + Len(items)
      BY <1>14, TopIs, KeptBelow
    <3>3. Len(m.todo) - 1 + 1 \in 1..Len(n.todo) /\ n.todo[Len(m.todo) - 1 + 1] = fr
      BY <1>8, <3>1, <3>2
    <3> QED BY <1>20, <3>3 DEF Fits
  <2>3. q[k + 1] = p.tags[1] /\ q[k + 2] = k + 2
    BY <1>4, <2>2 DEF Suits
  <2>4. Len(q) \in Nat /\ Len(q) >= k + 2
    BY <1>16, <1>20 DEF Fits, Agrees
  <2>5. Steps(q, b, n, <<Alternative(p, 1, m.s.pos, k, k + 2), Parse(p.ps[1])>>)
    BY <1>2, <1>3, <1>6, <1>13, <1>16, <2>1, <2>3, <2>4, ChoiceSteps
  <2> QED BY <1>10, <2>5
<1>21. Followed(o, n)
  BY <1>14, <1>18, <1>20, FollowsOn
<1>22. Behind(m.s, n.s)
  BY <1>6, <1>13, BehindItself
<1>23. Len(m.todo) > 1 => Under(lv[Len(m.todo) - 1], fr, m.s)
  BY <1>4, StillBehind DEF Under
<1>24. Own(fr) \subseteq 1..Len(n.tr)
  BY <1>6, <1>7, <1>16
<1>25. \E lw : Good(o, n, lw)
  BY <1>4, <1>7, <1>8, <1>11, <1>13, <1>14, <1>17, <1>19, <1>21, <1>22, <1>23, <1>24, TurnFramed
<1> QED BY <1>1, <1>25

-----------------------------------------------------------------------------
(* A frame whose cells are new.                                            *)
HasMore(n, m, s, cells, items) ==
  Has(n, m.ok, s, m.str, m.dep, m.tr \o cells, m.match, Replaced(m.todo, items))
LEMMA Grown ==
  ASSUME NEW o, NEW m, NEW lv, Good(o, m, lv), m.todo # << >>, m.match = << >>,
         NEW cells, IsSeq(cells), NEW items, IsSeq(items),
         NEW s, IsStream(s),
         NEW n, HasMore(n, m, s, cells, items), Later(m, items)
  PROVE  /\ Keeps(m, n, items) /\ Typed(n) /\ n.ok = m.ok /\ n.s = s /\ n.match = << >>
         /\ n.todo = Replaced(m.todo, items) /\ Len(n.tr) = Len(m.tr) + Len(cells)
         /\ Len(cells) \in Nat /\ \A j \in 1..Len(cells) : n.tr[Len(m.tr) + j] = cells[j]
<1>1. Longer(m, n, cells) /\ n.todo = Replaced(m.todo, items)
  BY DEF HasMore, Has, Longer
<1>2. Keeps(m, n, items) /\ IsSeq(n.tr) /\ Len(cells) \in Nat
  BY <1>1, KeepsLonger
<1>3. Len(n.tr) = Len(m.tr) + Len(cells)
  BY <1>1, KeepsLonger
<1>4. \A j \in 1..Len(cells) : n.tr[Len(m.tr) + j] = cells[j]
  BY <1>1, KeepsLonger
<1>5. n.ok = m.ok /\ n.s = s /\ n.match = << >>
  BY DEF HasMore, Has
<1>6. Typed(n)
  <2>1. n.tr = m.tr \o cells
    BY <1>1 DEF Longer
  <2> QED BY <1>2, <2>1, TypedPeg, Parts DEF HasMore
<1> QED BY <1>1, <1>2, <1>3, <1>4, <1>5, <1>6

LEMMA Grafted ==
  ASSUME NEW o, NEW m, NEW lv, Good(o, m, lv), m.todo # << >>, NEW n, NEW items,
         Keeps(m, n, items), items # << >>
  PROVE  /\ n.todo[Len(m.todo)] = items[1] /\ Len(m.todo) \in 1..Len(n.todo)
         /\ \A q : Fits(q, n) => /\ Suits(q, items[1])
                                 /\ \A j \in 1..(Len(m.todo) - 1) : Suits(q, n.todo[j])
<1>0. PICK L : L = Len(m.todo)
  OBVIOUS
<1>1. L \in Nat \ {0} /\ IsSeq(items) /\ Len(items) \in Nat \ {0}
  BY <1>0, TopIs, SeqIs DEF Keeps
<1>2. Len(n.todo) = L - 1 + Len(items)
  BY <1>0, KeptBelow
<1>3. \A k \in 1..Len(items) : n.todo[L - 1 + k] = items[k]
  BY <1>0, KeptBelow
<1>4. n.todo[L] = items[1] /\ L \in 1..Len(n.todo)
  <2>1. n.todo[L - 1 + 1] = items[1]
    BY <1>1, <1>3
  <2> QED BY <1>1, <1>2, <2>1
<1>5. \A q : Fits(q, n) => Suits(q, items[1]) /\ \A j \in 1..(L - 1) : Suits(q, n.todo[j])
  <2>1. \A j \in 1..(L - 1) : j \in 1..Len(n.todo)
    BY <1>1, <1>2
  <2> QED BY <1>4, <2>1 DEF Fits
<1> QED BY <1>0, <1>4, <1>5

LEMMA BeginsFrame ==
  ASSUME NEW o, NEW m, NEW lv, Good(o, m, lv), m.todo # << >>, Top(m).do # "leave",
         NEW n, Typed(n), n.match = << >>, n.s = m.s, NEW items, Keeps(m, n, items), items # << >>,
         IsFrame(items[1]), items[1].do \in {"more", "counted", "maybe"},
         \A k \in 2..Len(items) : ToDo(items[k]),
         Own(items[1]) \subseteq 1..Len(n.tr),
         Handles(items[1]) => Level(o, n, Len(m.todo), m.s),
         n.ok => Followed(o, n)
  PROVE  \E lw : Good(o, n, lw)
<1>1. Behind(m.s, n.s)
  BY BehindItself, Parts
<1>2. Len(m.todo) > 1 => Under(lv[Len(m.todo) - 1], items[1], m.s)
  BY StillBehind DEF Under
<1> QED BY <1>1, <1>2, TurnFramed

-----------------------------------------------------------------------------
(* Optionals.                                                              *)
LEMMA PresentSteps ==
  ASSUME NEW q, NEW b, IsB(b), b.ti \in Nat, Top(b).do = "parse",
         NEW p \in Parsers, Top(b).p = p, p.op = "optional", q[b.ti + 1] = -1,
         NEW n, Len(n.tr) = b.ti + 1, Len(q) \in Nat, Len(q) >= b.ti + 1, Behind(b.s, n.s), NEW at
  PROVE  Steps(q, b, n, <<Maybe(p, at), Parse(p.p)>>)
<1> DEFINE new == <<Present(p), Parse(p.p)>>
           e == Then(b, new)
           d == [e EXCEPT !.ti = @ + 1]
<1>1. Cell(Led(q), b) = -1 /\ Led(q).tr = q
  BY DEF Cell, Led
<1>2. BindItem(Led(q), b, Top(b)) = d
  <2>1. BindItem(Led(q), b, Top(b)) = BindParser(Led(q), b, p)
    BY DEF BindItem, Walks, Walked
  <2>2. Cell(Led(q), b) < 0
    BY <1>1
  <2>3. BindParser(Led(q), b, p) = d
    BY <2>2 DEF BindParser
  <2> QED BY <2>1, <2>3
<1>3. /\ IsSeq(new) /\ Len(new) = 2 /\ new[1] = Present(p) /\ new[2] = Parse(p.p)
  <2>1. PICK a, c : a = Present(p) /\ c = Parse(p.p)
    OBVIOUS
  <2> QED BY <2>1, Two
<1> HIDE DEF new
<1>4. HasB(e, b.s, b.ti, b.vals, b.lost, b.over, Replaced(b.todo, new))
  BY BindForms
<1>5. HasB(d, b.s, Len(n.tr), b.vals, b.lost, b.over, Replaced(b.todo, new))
  <2>1. IsB(e) /\ e.ti = b.ti
    BY <1>4 DEF HasB
  <2> HIDE DEF e
  <2>2. PICK x : x = e.ti + 1
    OBVIOUS
  <2>3. HasB([e EXCEPT !.ti = x], e.s, x, e.vals, e.lost, e.over, e.todo)
    BY <2>1, BindForms
  <2>4. d = [e EXCEPT !.ti = x]
    BY <2>2
  <2> HIDE DEF d
  <2>5. x = Len(n.tr)
    BY <2>1, <2>2
  <2> QED BY <1>4, <2>3, <2>4, <2>5 DEF HasB
<1>6. ~Loses(Led(q), b, Top(b)) /\ ~ReadsOver(b, Top(b))
  <2>1. Cells(Top(b)) = 1 /\ ~(b.ti + 1 > Len(q))
    BY DEF Cells
  <2> QED BY <1>1, <2>1 DEF Loses, ReadsOver
<1> HIDE DEF d
<1>7. PICK items : items = <<Maybe(p, at), Parse(p.p)>>
  OBVIOUS
<1>8. /\ Len(items) = 2 /\ items[1] = Maybe(p, at) /\ items[2] = Parse(p.p)
      /\ \A k \in 1..Len(items) : k = 1 \/ k = 2
  BY <1>7, Two
<1>9. Mirrors(new[1], items[1])
  <2>1. PICK g : g = items[1]
    OBVIOUS
  <2>2. g.do = "maybe" /\ g.p = p
    BY <1>8, <2>1 DEF Maybe
  <2> QED BY <1>3, <2>1, <2>2 DEF Mirrors
<1>10. Mirrors(new[2], items[2])
  <2>1. ToDo(Parse(p.p))
    BY CParserAssumption, ParseToDo DEF WellFormed
  <2> QED BY <1>3, <1>8, <2>1 DEF Mirrors
<1>11. \A k \in 1..Len(items) : Mirrors(new[k], items[k])
  BY <1>8, <1>9, <1>10
<1>12. Steps(q, b, n, items)
  BY <1>2, <1>3, <1>5, <1>6, <1>8, <1>11 DEF Steps
<1> QED BY <1>7, <1>12

LEMMA OptionalTurn ==
  ASSUME NEW o, NEW m, NEW lv, Good(o, m, lv), m.todo # << >>, m.ok, m.match = << >>,
         ToDo(Top(m)), Top(m).do = "parse", Top(m).p.op = "optional"
  PROVE  \E lw : Good(o, Turn(Pegs, m), lw)
<1> DEFINE f == Top(m)
           p == f.p
           fr == Maybe(p, TracePos(m))
           items == <<fr, Parse(p.p)>>
           cells == <<"optional">>
           n == Then(Push(m, cells), items)
<1>0. PICK k : k = Len(m.tr)
  OBVIOUS
<1>1. Turn(Pegs, m) = n
  <2>1. PegGoesOn(Pegs, m, f) = PegParser(Pegs, m, p)
    BY DEF PegGoesOn, Walks, Walked
  <2>2. PegParser(Pegs, m, p) = n
    BY DEF PegParser
  <2>3. Turn(Pegs, m) = PegGoesOn(Pegs, m, f)
    BY TurnIs
  <2> QED BY <2>1, <2>2, <2>3
<1>2. p \in Parsers /\ p.p \in Parsers
  BY CParserAssumption DEF ToDo, WellFormed
<1>3. fr.do = "maybe" /\ fr.p = p /\ fr.at = k
  BY <1>0 DEF Maybe, TracePos
<1>4. HasMore(n, m, m.s, cells, items)
  BY TopIs, PushThen DEF HasMore
<1>5. k \in Nat /\ IsStream(m.s)
  BY <1>0, TopIs
<1>6. IsFrame(fr) /\ Own(fr) = {k + 1}
  <2> HIDE DEF fr
  <2> QED BY <1>2, <1>3, <1>5 DEF IsFrame, Own
<1>7. /\ IsSeq(items) /\ Len(items) = 2 /\ items[1] = fr /\ items[2] = Parse(p.p) /\ items # << >>
      /\ \A j \in 1..Len(items) : j = 1 \/ j = 2
      /\ \A j \in 2..Len(items) : j = 2
  <2>1. PICK a, c : a = fr /\ c = Parse(p.p)
    OBVIOUS
  <2> QED BY <2>1, Two
<1>8. IsSeq(cells) /\ Len(cells) = 1
  BY Few
<1> HIDE DEF n, cells
<1>9. items = <<Maybe(p, k), Parse(p.p)>>
  BY <1>0 DEF TracePos
<1> HIDE DEF items, fr
<1>10. ToDo(items[2]) /\ Own(items[2]) = {}
  BY <1>2, <1>7, ParseToDo
<1>11. Later(m, items)
  <2>1. \A y \in Own(items[1]) : y \in Int /\ y > k
    BY <1>5, <1>6, <1>7
  <2>2. \A j \in 1..Len(items) : \A y \in Own(items[j]) : y \in Int /\ y > k
    BY <1>7, <1>10, <2>1
  <2> QED BY <1>0, <2>2 DEF Later
<1>12. /\ Keeps(m, n, items) /\ Typed(n) /\ n.ok = m.ok /\ n.s = m.s /\ n.match = << >>
       /\ n.todo = Replaced(m.todo, items)
  <2>1. IsSeq(cells)
    BY <1>8
  <2>2. Keeps(m, n, items) /\ Typed(n) /\ n.s = m.s /\ n.match = << >> /\ n.todo = Replaced(m.todo, items)
    BY <1>4, <1>5, <1>7, <1>11, <2>1, Grown
  <2>3. n.ok = m.ok
    BY <1>4 DEF HasMore, Has
  <2> QED BY <2>2, <2>3
<1>13. Len(n.tr) = k + 1
  <2>1. IsSeq(cells)
    BY <1>8
  <2>2. Len(n.tr) = Len(m.tr) + Len(cells)
    BY <1>4, <1>5, <1>7, <1>11, <2>1, Grown
  <2> QED BY <1>0, <1>8, <2>2
<1>14. \A q : Suits(q, f)
  BY DEF Suits
<1>15. Level(o, n, Len(m.todo), m.s)
  <2>1. ASSUME NEW b, Stands(b, m) PROVE b.ti = k /\ Top(b) = f
    BY <1>0, <2>1, StandsTop, SameItem
  <2>2. \A j \in 2..Len(items) : ToDo(items[j])
    BY <1>7, <1>10
  <2>3. \A b : Stands(b, m) =>
          /\ items[1].do \in {"alternative", "maybe"} =>
               b.ti = items[1].at /\ Top(b).do = "parse" /\ Top(b).p = items[1].p
          /\ items[1].do = "more" => Top(b) = Elements(items[1].p, items[1].i - 1, items[1].at)
    BY <1>3, <1>7, <2>1
  <2> QED BY <1>7, <1>12, <1>14, <2>2, <2>3, NewLevel
<1>16. ASSUME NEW q, NEW b, Fits(q, n), Stands(b, m) PROVE Steps(q, b, n, items)
  <2>1. b.ti = k /\ Top(b) = f /\ Behind(b.s, m.s) /\ IsB(b)
    BY <1>0, <1>16, StandsTop, SameItem
  <2>2. Suits(q, fr)
    BY <1>7, <1>12, <1>16, Grafted
  <2>3. q[k + 1] = -1
    BY <1>3, <2>2 DEF Suits
  <2>4. Len(q) \in Nat /\ Len(q) >= k + 1
    BY <1>13, <1>16 DEF Fits, Agrees
  <2>5. Steps(q, b, n, <<Maybe(p, k), Parse(p.p)>>)
    BY <1>2, <1>5, <1>12, <1>13, <2>1, <2>3, <2>4, PresentSteps
  <2> QED BY <1>9, <2>5
<1>17. Followed(o, n)
  BY <1>12, <1>14, <1>16, FollowsOn
<1>18. Own(fr) \subseteq 1..Len(n.tr)
  BY <1>5, <1>6, <1>13
<1>19. \E lw : Good(o, n, lw)
  BY <1>3, <1>6, <1>7, <1>10, <1>12, <1>15, <1>17, <1>18, BeginsFrame
<1> QED BY <1>1, <1>19

-----------------------------------------------------------------------------
(* Repetitions.                                                            *)
Repeated(p) == p.p \in Parsers /\ (p.op = "array" => p.sep \in Seq(Constants))
LEMMA RepeatedIs ==
  ASSUME NEW p \in Parsers, p.op \in {"array", "length"}
  PROVE  Repeated(p)
<1>1. WellFormed(p)
  BY CParserAssumption
<1> QED BY <1>1 DEF WellFormed, Repeated

LEMMA ElementToDo ==
  ASSUME NEW p, Repeated(p), NEW i
  PROVE  IsSeq(Element(p, i)) /\ \A k \in 1..Len(Element(p, i)) : ToDo(Element(p, i)[k])
<1>1. PICK a, c, s :
        /\ s = <<a, c>> /\ a = Parse(p.p)
        /\ c = EachConstant(IF p.op = "array" /\ i > 1 THEN p.sep ELSE << >>, 1)
  OBVIOUS
<1>2. Element(p, i) = s
  BY <1>1 DEF Element
<1>3. IsSeq(s) /\ s[1] = a /\ s[2] = c /\ \A k \in 1..Len(s) : k = 1 \/ k = 2
  BY <1>1, Two
<1>4. ToDo(a) /\ ToDo(c)
  <2>1. ToDo(a)
    BY <1>1, ParseToDo DEF Repeated
  <2>2. PICK ks \in Seq(Constants) : ks = IF p.op = "array" /\ i > 1 THEN p.sep ELSE << >>
    <3>1. << >> \in Seq(Constants)
      OBVIOUS
    <3> QED BY <3>1 DEF Repeated
  <2>3. c.do = "constants" /\ c.ks = ks /\ c.i = 1
    BY <1>1, <2>2 DEF EachConstant
  <2> QED BY <2>1, <2>3 DEF ToDo
<1> QED BY <1>2, <1>3, <1>4

Repeats(fr, p, i, at) ==
  fr.do \in {"more", "counted"} /\ fr.p = p /\ fr.i = i /\ fr.at = at
LEMMA MoreSteps ==
  ASSUME NEW q, NEW b, IsB(b), NEW p, Repeated(p), NEW i, NEW at,
         Top(b) = Elements(p, i, at), i < q[at + 1],
         NEW n, b.ti = Len(n.tr), Len(q) \in Nat, at \in Nat, at + 2 <= Len(q), Behind(b.s, n.s),
         NEW fr, Repeats(fr, p, i + 1, at)
  PROVE  Steps(q, b, n, <<fr>> \o Element(p, i + 1))
<1> DEFINE new == <<Elements(p, i + 1, at)>> \o Element(p, i + 1)
<1>0. PICK f : f = Top(b)
  OBVIOUS
<1>1. f.do = "elements" /\ f.p = p /\ f.i = i /\ f.at = at
  BY <1>0 DEF Elements
<1>2. BindItem(Led(q), b, f) = Then(b, new)
  <2>1. BindItem(Led(q), b, f) = BindElements(Led(q), b, f)
    BY <1>1 DEF BindItem, Walks
  <2>2. f.i < Led(q).tr[f.at + 1]
    BY <1>1 DEF Led
  <2> QED BY <1>1, <2>1, <2>2 DEF BindElements
<1>3. PICK t : t = Element(p, i + 1)
  OBVIOUS
<1>4. IsSeq(t) /\ \A k \in 1..Len(t) : ToDo(t[k])
  BY <1>3, ElementToDo
<1>5. PICK g : g = Elements(p, i + 1, at)
  OBVIOUS
<1>6. PICK s : s = <<g>> \o t
  OBVIOUS
<1>7. new = s
  BY <1>3, <1>5, <1>6
<1>8. PICK items : items = <<fr>> \o t
  OBVIOUS
<1>9. /\ IsSeq(s) /\ Len(s) = 1 + Len(t) /\ s[1] = g
      /\ \A k \in 2..Len(s) : k - 1 \in 1..Len(t) /\ s[k] = t[k - 1]
  <2>1. IsSeq(t) /\ Framed(s, g, t)
    BY <1>4, <1>6 DEF Framed
  <2>2. IsSeq(s)
    BY <2>1, FrameFirst
  <2>5. Len(s) = 1 + Len(t)
    BY <2>1, FrameLen
  <2>3. s[1] = g
    BY <2>1, FrameFirst
  <2>4. \A k \in 2..Len(s) : k - 1 \in 1..Len(t) /\ s[k] = t[k - 1]
    BY <2>1, FrameFirst
  <2> QED BY <2>2, <2>3, <2>4, <2>5
<1>10. /\ Len(items) = 1 + Len(t) /\ items[1] = fr /\ Len(t) \in Nat
       /\ \A k \in 2..Len(items) : k - 1 \in 1..Len(t) /\ items[k] = t[k - 1]
  <2>1. IsSeq(t) /\ Framed(items, fr, t)
    BY <1>4, <1>8 DEF Framed
  <2> QED BY <2>1, FrameFirst
<1>11. ASSUME NEW k \in 1..Len(items) PROVE Mirrors(s[k], items[k])
  <2>1. CASE k = 1
    BY <1>5, <1>9, <1>10, <2>1 DEF Mirrors, Repeats
  <2>2. CASE k \in 2..Len(items)
    <3>1. s[k] = t[k - 1] /\ items[k] = t[k - 1] /\ k - 1 \in 1..Len(t)
      BY <1>9, <1>10, <2>2
    <3> QED BY <1>4, <3>1 DEF Mirrors
  <2> QED BY <1>10, <2>1, <2>2
<1>12. HasB(Then(b, s), b.s, Len(n.tr), b.vals, b.lost, b.over, Replaced(b.todo, s))
  BY BindForms
<1>13. ~Loses(Led(q), b, f) /\ ~ReadsOver(b, f)
  BY <1>1 DEF Loses, ReadsOver, Cells, Led
<1>14. Steps(q, b, n, items)
  BY <1>0, <1>2, <1>7, <1>9, <1>10, <1>11, <1>12, <1>13 DEF Steps
<1> QED BY <1>3, <1>8, <1>14

(* A repetition begins.                                                    *)
LEMMA ManySteps ==
  ASSUME NEW q, NEW b, IsB(b), b.ti \in Nat, Top(b).do = "parse",
         NEW p, Top(b).p = p, p.op \in {"array", "length"},
         NEW n, Len(n.tr) = b.ti + 2, Len(q) \in Nat, Len(q) >= b.ti + 2, Behind(b.s, n.s),
         NEW fr, Repeats(fr, p, 0, b.ti), NEW items, items = <<fr>>
  PROVE  Steps(q, b, n, items)
<1> DEFINE g == Elements(p, 0, b.ti)
           new == <<g>>
           e == Then(b, new)
           d == [e EXCEPT !.ti = @ + 2]
<1>1. BindItem(Led(q), b, Top(b)) = d
  <2>1. BindItem(Led(q), b, Top(b)) = BindParser(Led(q), b, p)
    BY DEF BindItem, Walks, Walked
  <2>2. BindParser(Led(q), b, p) = d
    BY DEF BindParser
  <2> QED BY <2>1, <2>2
<1> HIDE DEF g
<1>2. IsSeq(new) /\ Len(new) = 1 /\ new[1] = g
  BY Few
<1>3. Len(items) = 1 /\ items[1] = fr
  BY Few
<1> HIDE DEF new
<1>4. HasB(e, b.s, b.ti, b.vals, b.lost, b.over, Replaced(b.todo, new))
  BY BindForms
<1>5. HasB(d, b.s, Len(n.tr), b.vals, b.lost, b.over, Replaced(b.todo, new))
  <2>1. IsB(e) /\ e.ti = b.ti
    BY <1>4 DEF HasB
  <2> HIDE DEF e
  <2>2. PICK x : x = e.ti + 2
    OBVIOUS
  <2>3. HasB([e EXCEPT !.ti = x], e.s, x, e.vals, e.lost, e.over, e.todo)
    BY <2>1, BindForms
  <2>4. d = [e EXCEPT !.ti = x]
    BY <2>2
  <2> HIDE DEF d
  <2>5. x = Len(n.tr)
    BY <2>1, <2>2
  <2> QED BY <1>4, <2>3, <2>4, <2>5 DEF HasB
<1>6. ~Loses(Led(q), b, Top(b)) /\ ~ReadsOver(b, Top(b))
  <2>1. Cells(Top(b)) = 2 /\ ~(b.ti + 2 > Len(q))
    BY DEF Cells
  <2> QED BY <2>1 DEF Loses, ReadsOver, Led
<1> HIDE DEF d
<1>7. Mirrors(g, fr)
  BY DEF g, Mirrors, Repeats
<1>8. \A k \in 1..Len(items) : Mirrors(new[k], items[k])
  BY <1>2, <1>3, <1>7
<1> QED BY <1>1, <1>2, <1>3, <1>5, <1>6, <1>8 DEF Steps

LEMMA LengthTurn ==
  ASSUME NEW o, NEW m, NEW lv, Good(o, m, lv), m.todo # << >>, m.ok, m.match = << >>,
         ToDo(Top(m)), Top(m).do = "parse", Top(m).p.op = "length"
  PROVE  \E lw : Good(o, Turn(Pegs, m), lw)
<1> DEFINE f == Top(m)
           p == f.p
           fr == Counted(p, 0, TracePos(m), Dependency(m, p.dep))
           items == <<fr>>
           cells == <<"many", "end">>
           n == Then(Push(m, cells), items)
<1>0. PICK k : k = Len(m.tr)
  OBVIOUS
<1>1. Turn(Pegs, m) = n
  <2>1. PegGoesOn(Pegs, m, f) = PegParser(Pegs, m, p)
    BY DEF PegGoesOn, Walks, Walked
  <2>2. PegParser(Pegs, m, p) = n
    BY DEF PegParser
  <2>3. Turn(Pegs, m) = PegGoesOn(Pegs, m, f)
    BY TurnIs
  <2> QED BY <2>1, <2>2, <2>3
<1>2. p \in Parsers
  BY DEF ToDo
<1>3. fr.do = "counted" /\ fr.p = p /\ fr.i = 0 /\ fr.at = k
  BY <1>0 DEF Counted, TracePos
<1>4. HasMore(n, m, m.s, cells, items)
  BY TopIs, PushThen DEF HasMore
<1>5. k \in Nat /\ IsStream(m.s)
  BY <1>0, TopIs
<1>6. IsFrame(fr) /\ Own(fr) = {k + 1, k + 2} /\ ~Handles(fr)
  <2> HIDE DEF fr
  <2> QED BY <1>2, <1>3, <1>5 DEF IsFrame, Own, Handles
<1>8. IsSeq(cells) /\ Len(cells) = 2
  BY Few
<1> HIDE DEF n, cells, fr
<1>7. /\ IsSeq(items) /\ Len(items) = 1 /\ items[1] = fr /\ items # << >>
      /\ \A j \in 1..Len(items) : j = 1
      /\ \A j \in 2..Len(items) : FALSE
  <2>1. IsSeq(items) /\ Len(items) = 1 /\ items[1] = fr
    BY Few
  <2> HIDE DEF items
  <2> QED BY <2>1, Few
<1>9. items = <<fr>>
  OBVIOUS
<1> HIDE DEF items
<1>10. Later(m, items)
  <2>1. \A y \in Own(items[1]) : y \in Int /\ y > k
    BY <1>5, <1>6, <1>7
  <2>2. \A j \in 1..Len(items) : \A y \in Own(items[j]) : y \in Int /\ y > k
    BY <1>7, <2>1
  <2> QED BY <1>0, <2>2 DEF Later
<1>11. /\ Keeps(m, n, items) /\ Typed(n) /\ n.s = m.s /\ n.match = << >>
       /\ n.todo = Replaced(m.todo, items)
  <2>1. IsSeq(cells)
    BY <1>8
  <2> QED BY <1>4, <1>5, <1>7, <1>10, <2>1, Grown
<1>12. Len(n.tr) = k + 2
  <2>1. IsSeq(cells)
    BY <1>8
  <2>2. Len(n.tr) = Len(m.tr) + Len(cells)
    BY <1>4, <1>5, <1>7, <1>10, <2>1, Grown
  <2> QED BY <1>0, <1>8, <2>2
<1>13. \A q : Suits(q, f)
  BY DEF Suits
<1>14. ASSUME NEW q, NEW b, Fits(q, n), Stands(b, m) PROVE Steps(q, b, n, items)
  <2>1. b.ti = k /\ Top(b) = f /\ Behind(b.s, m.s) /\ IsB(b)
    BY <1>0, <1>14, StandsTop, SameItem
  <2>2. Len(q) \in Nat /\ Len(q) >= k + 2
    BY <1>12, <1>14 DEF Fits, Agrees
  <2>3. Repeats(fr, p, 0, k)
    BY <1>3 DEF Repeats
  <2> QED BY <1>5, <1>9, <1>11, <1>12, <2>1, <2>2, <2>3, ManySteps
<1>15. Followed(o, n)
  BY <1>11, <1>13, <1>14, FollowsOn
<1>16. Own(fr) \subseteq 1..Len(n.tr)
  BY <1>5, <1>6, <1>12
<1>17. \E lw : Good(o, n, lw)
  BY <1>3, <1>6, <1>7, <1>11, <1>15, <1>16, BeginsFrame
<1> QED BY <1>1, <1>17

Alone(items, a) == items = <<a>>
LEMMA PutOne ==
  ASSUME NEW todo, IsSeq(todo), todo # << >>, NEW a, NEW items, Alone(items, a),
         NEW new, new = Replaced(todo, items)
  PROVE  /\ Len(new) = Len(todo) /\ new[Len(todo)] = a
         /\ \A j \in 1..(Len(todo) - 1) : new[j] = todo[j]
<1>0. PICK L, K : L = Len(todo) /\ K = Len(items)
  OBVIOUS
<1>1. IsSeq(items) /\ K = 1 /\ items[1] = a
  BY <1>0, Few DEF Alone
<1>2. L \in Nat \ {0}
  BY <1>0, SeqIs
<1>3. IsSeq(items)
  BY <1>1
<1>4. /\ Len(new) = L - 1 + K /\ \A j \in 1..(L - 1) : new[j] = todo[j]
      /\ \A j \in L..Len(new) : j - L + 1 \in 1..K /\ new[j] = items[j - L + 1]
  <2> DEFINE nd == Replaced(todo, items)
  <2>1. /\ IsSeq(nd) /\ Len(nd) = Len(todo) - 1 + Len(items)
        /\ \A j \in 1..(Len(todo) - 1) : nd[j] = todo[j]
        /\ \A j \in Len(todo)..Len(nd) :
             /\ j - Len(todo) + 1 \in 1..Len(items) /\ items # << >>
             /\ nd[j] = items[j - Len(todo) + 1]
    BY <1>3, Put
  <2>2. new = nd
    OBVIOUS
  <2> HIDE DEF nd
  <2> QED BY <1>0, <2>1, <2>2
<1>5. Len(new) = L /\ L \in L..Len(new) /\ L - L + 1 = 1
  BY <1>1, <1>2, <1>4
<1>6. new[L] = items[L - L + 1]
  BY <1>4, <1>5
<1> QED BY <1>0, <1>1, <1>4, <1>5, <1>6

(* The second pass is at an array's first element.                          *)
LEMMA ArrayBegun ==
  ASSUME NEW o, NEW m, NEW lv, Good(o, m, lv), m.todo # << >>,
         ToDo(Top(m)), Top(m).do = "parse", Top(m).p.op = "array",
         NEW q, Len(q) \in Nat, Len(q) >= Len(m.tr) + 2,
         NEW b, Reaches(Led(q), o, b), Stands(b, m)
  PROVE  \E d : /\ Reaches(Led(q), o, d) /\ IsBind(d) /\ Len(d.todo) = Len(m.todo)
                /\ Mirrored(d, m.todo, Len(m.todo) - 1) /\ d.ti = Len(m.tr) + 2
                /\ d.todo[Len(m.todo)] = Elements(Top(m).p, 0, Len(m.tr)) /\ Behind(d.s, m.s)
<1> DEFINE p == Top(m).p
           fr == More(p, 0, Len(m.tr))
           items == <<fr>>
           cells == <<"many", "end">>
           n == Then(Push(m, cells), items)
<1>0. PICK k, L : k = Len(m.tr) /\ L = Len(m.todo)
  OBVIOUS
<1>1. HasMore(n, m, m.s, cells, items)
  BY TopIs, PushThen DEF HasMore
<1>2. IsSeq(cells) /\ Len(cells) = 2
  BY Few
<1>3. Repeats(fr, p, 0, k) /\ fr.do = "more"
  BY <1>0 DEF More, Repeats
<1> HIDE DEF n, cells, fr
<1>4. items = <<fr>>
  OBVIOUS
<1>5. IsSeq(items) /\ Len(items) = 1 /\ items[1] = fr
  BY Few
<1> HIDE DEF items
<1>6. n.s = m.s /\ n.todo = Replaced(m.todo, items) /\ n.tr = m.tr \o cells
  BY <1>1 DEF HasMore, Has
<1>7. IsSeq(m.todo) /\ IsSeq(m.tr) /\ k \in Nat /\ L \in Nat \ {0}
  BY <1>0, TopIs
<1>8. Len(n.tr) = k + 2
  <2>1. IsSeq(cells)
    BY <1>2
  <2>2. Len(m.tr \o cells) = Len(m.tr) + Len(cells)
    BY <1>7, <2>1, Joined
  <2> QED BY <1>0, <1>2, <1>6, <2>2
<1>9. /\ b.ti = k /\ Top(b) = Top(m) /\ Behind(b.s, m.s) /\ IsB(b) /\ IsBind(b) /\ Len(b.todo) = L
      /\ Mirrored(b, m.todo, L - 1)
  BY <1>0, StandsTop, SameItem
<1>10. Steps(q, b, n, items)
  <2>1. Len(q) >= k + 2
    BY <1>0
  <2> QED BY <1>3, <1>4, <1>6, <1>7, <1>8, <1>9, <2>1, ManySteps
<1>11. PICK d : Reaches(Led(q), o, d) /\ Stands(d, n) /\ Behind(d.s, n.s)
  <2>1. Len(n.tr) \in Nat
    BY <1>7, <1>8
  <2>2. Len(b.todo) = Len(m.todo) /\ Mirrored(b, m.todo, Len(m.todo) - 1)
    BY <1>0, <1>9
  <2> QED BY <1>5, <1>6, <1>7, <1>9, <1>10, <2>1, <2>2, OneMore
<1>12. /\ Len(n.todo) = L /\ n.todo[L] = fr
       /\ \A j \in 1..(L - 1) : n.todo[j] = m.todo[j]
  <2>1. IsSeq(m.todo) /\ m.todo # << >>
    BY <1>7
  <2>2. n.todo = Replaced(m.todo, items) /\ Alone(items, fr)
    BY <1>4, <1>6 DEF Alone
  <2> QED BY <1>0, <2>1, <2>2, PutOne
<1>13. IsBind(d) /\ d.ti = k + 2 /\ Len(d.todo) = L /\ Mirrored(d, n.todo, L)
  BY <1>8, <1>11, <1>12 DEF Stands
<1>14. d.todo[L] = Elements(p, 0, k)
  <2>1. Mirrors(d.todo[L], fr)
    BY <1>7, <1>12, <1>13 DEF Mirrored
  <2>2. fr.do = "more" /\ fr.p = p /\ fr.i = 0 /\ fr.at = k
    BY <1>3 DEF Repeats
  <2> QED BY <2>1, <2>2 DEF Mirrors, ToDo
<1>15. Mirrored(d, m.todo, L - 1)
  BY <1>7, <1>12, <1>13 DEF Mirrored
<1> QED BY <1>0, <1>6, <1>11, <1>13, <1>14, <1>15

LEMMA ArrayTurn ==
  ASSUME NEW o, NEW m, NEW lv, Good(o, m, lv), m.todo # << >>, m.ok, m.match = << >>,
         ToDo(Top(m)), Top(m).do = "parse", Top(m).p.op = "array"
  PROVE  \E lw : Good(o, Turn(Pegs, m), lw)
<1> DEFINE f == Top(m)
           p == f.p
           fr == More(p, 1, TracePos(m))
           items == <<fr>> \o Element(p, 1)
           cells == <<"many", "end">>
           n == Then(Push(m, cells), items)
<1>0. PICK k, L : k = Len(m.tr) /\ L = Len(m.todo)
  OBVIOUS
<1>1. Turn(Pegs, m) = n
  <2>1. PegGoesOn(Pegs, m, f) = PegParser(Pegs, m, p)
    BY DEF PegGoesOn, Walks, Walked
  <2>2. PegParser(Pegs, m, p) = n
    BY DEF PegParser
  <2>3. Turn(Pegs, m) = PegGoesOn(Pegs, m, f)
    BY TurnIs
  <2> QED BY <2>1, <2>2, <2>3
<1>2. p \in Parsers /\ Repeated(p)
  <2>1. p \in Parsers
    BY DEF ToDo
  <2> QED BY <2>1, RepeatedIs
<1>3. fr.do = "more" /\ fr.p = p /\ fr.i = 1 /\ fr.at = k
  BY <1>0 DEF More, TracePos
<1>4. HasMore(n, m, m.s, cells, items)
  BY TopIs, PushThen DEF HasMore
<1>5. k \in Nat /\ L \in Nat \ {0} /\ IsStream(m.s) /\ IsSeq(m.todo)
  BY <1>0, TopIs
<1>6. IsFrame(fr) /\ Own(fr) = {k + 1, k + 2}
  <2> HIDE DEF fr
  <2> QED BY <1>2, <1>3, <1>5 DEF IsFrame, Own
<1>7. IsSeq(cells) /\ Len(cells) = 2
  BY Few
<1> HIDE DEF n, cells, fr
<1>8. PICK t : t = Element(p, 1)
  OBVIOUS
<1>9. IsSeq(t) /\ \A j \in 1..Len(t) : ToDo(t[j])
  BY <1>2, <1>8, ElementToDo
<1>10. /\ IsSeq(items) /\ items[1] = fr /\ items # << >>
       /\ \A j \in 2..Len(items) : ToDo(items[j])
  <2>1. IsSeq(t) /\ Framed(items, fr, t)
    BY <1>8, <1>9 DEF Framed
  <2> HIDE DEF items
  <2>2. items[1] = fr /\ items # << >> /\ IsSeq(items)
    BY <2>1, FrameHead
  <2>3. \A j \in 2..Len(items) : j - 1 \in 1..Len(t) /\ items[j] = t[j - 1]
    BY <2>1, FrameFirst
  <2> QED BY <1>9, <2>2, <2>3
<1>11. items = <<fr>> \o Element(p, 0 + 1)
  OBVIOUS
<1> HIDE DEF items
<1>12. Later(m, items)
  <2>1. \A y \in Own(items[1]) : y \in Int /\ y > k
    BY <1>5, <1>6, <1>10
  <2>2. \A j \in 2..Len(items) : Own(items[j]) = {}
    BY <1>10, OwnsNothing
  <2>3. \A j \in 1..Len(items) : j = 1 \/ j \in 2..Len(items)
    OBVIOUS
  <2>4. \A j \in 1..Len(items) : \A y \in Own(items[j]) : y \in Int /\ y > k
    BY <2>1, <2>2, <2>3
  <2> QED BY <1>0, <2>4 DEF Later
<1>13. /\ Keeps(m, n, items) /\ Typed(n) /\ n.s = m.s /\ n.match = << >>
       /\ n.todo = Replaced(m.todo, items)
  <2>1. IsSeq(cells) /\ IsSeq(items)
    BY <1>7, <1>10
  <2> QED BY <1>4, <1>5, <1>12, <2>1, Grown
<1>14. Len(n.tr) = k + 2
  <2>1. IsSeq(cells) /\ IsSeq(items)
    BY <1>7, <1>10
  <2>2. Len(n.tr) = Len(m.tr) + Len(cells)
    BY <1>4, <1>5, <1>12, <2>1, Grown
  <2> QED BY <1>0, <1>7, <2>2
<1>15. n.todo[L] = fr /\ L \in 1..Len(n.todo) /\ IsSeq(n.todo)
       /\ \A j \in 1..(L - 1) : n.todo[j] = m.todo[j]
  <2>1. n.todo[L] = fr /\ L \in 1..Len(n.todo)
    BY <1>0, <1>10, <1>13, Grafted
  <2> QED BY <1>0, <1>13, <2>1, KeptBelow
<1>16. Len(n.todo) \in Nat
  BY <1>15, SeqIs
<1>17. ASSUME NEW q, NEW j \in 0..Len(n.todo), Agrees(q, n, j, Len(n.tr)),
              \A i \in 1..(L - 1) : Suits(q, n.todo[i])
       PROVE  \E d : /\ Reaches(Led(q), o, d) /\ IsBind(d) /\ Len(d.todo) = L
                     /\ Mirrored(d, m.todo, L - 1) /\ d.ti = k + 2
                     /\ d.todo[L] = Elements(p, 0, k) /\ Behind(d.s, m.s)
  <2>1. Suits(q, f)
    BY DEF Suits
  <2>2. Fits(q, m)
    BY <1>0, <1>13, <1>17, <2>1, FitsBefore
  <2>3. PICK b : Reaches(Led(q), o, b) /\ Stands(b, m)
    BY <2>2 DEF Good, Followed
  <2>4. Len(q) \in Nat /\ Len(q) >= Len(m.tr) + 2
    BY <1>0, <1>14, <1>17 DEF Agrees
  <2>5. \E d : /\ Reaches(Led(q), o, d) /\ IsBind(d) /\ Len(d.todo) = Len(m.todo)
               /\ Mirrored(d, m.todo, Len(m.todo) - 1) /\ d.ti = Len(m.tr) + 2
               /\ d.todo[Len(m.todo)] = Elements(f.p, 0, Len(m.tr)) /\ Behind(d.s, m.s)
    BY <2>3, <2>4, ArrayBegun
  <2> QED BY <1>0, <2>5
<1>18. Level(o, n, L, m.s)
  <2>1. PICK x : x = Len(n.tr)
    OBVIOUS
  <2>2. x \in 0..Len(n.tr)
    BY <1>5, <1>14, <2>1
  <2>3. ASSUME NEW j \in (L + 1)..Len(n.todo) PROVE Own(n.todo[j]) = {}
    <3>1. PICK i : i = j - L + 1
      OBVIOUS
    <3>2. Len(n.todo) = L - 1 + Len(items) /\ Len(items) \in Nat
      <4>1. Len(items) \in Nat
        BY <1>10, SeqIs
      <4>2. Len(n.todo) = L - 1 + Len(items)
        BY <1>0, <1>13, KeptLen
      <4> QED BY <4>1, <4>2
    <3>3. i \in 2..Len(items) /\ i \in 1..Len(items) /\ L - 1 + i = j
      BY <1>5, <3>1, <3>2
    <3>4. \A h \in 1..Len(items) : n.todo[Len(m.todo) - 1 + h] = items[h]
      BY <1>13, KeptBelow
    <3>5. n.todo[j] = items[i]
      BY <1>0, <3>3, <3>4
    <3> QED BY <1>10, <3>3, <3>5, OwnsNothing
  <2>4. ASSUME NEW q, Tries(q, n, L, x)
        PROVE  \E b : Reaches(Led(q), o, b) /\ StandsAt(b, n.todo, L, m.s)
    <3>1. Agrees(q, n, L, Len(n.tr)) /\ \A i \in 1..(L - 1) : Suits(q, n.todo[i])
      BY <2>1, <2>4 DEF Tries
    <3>2. PICK d : /\ Reaches(Led(q), o, d) /\ IsBind(d) /\ Len(d.todo) = L
                   /\ Mirrored(d, m.todo, L - 1) /\ d.ti = k + 2
                   /\ d.todo[L] = Elements(p, 0, k) /\ Behind(d.s, m.s)
      <4>1. L \in 0..Len(n.todo)
        BY <1>15
      <4> QED BY <1>17, <3>1, <4>1
    <3>3. Mirrored(d, n.todo, L - 1)
      BY <1>15, <3>2 DEF Mirrored
    <3>4. d.todo[L] = Elements(fr.p, fr.i - 1, fr.at)
      BY <1>3, <3>2
    <3> QED BY <1>3, <1>15, <3>2, <3>3, <3>4 DEF StandsAt
  <2> QED BY <2>2, <2>3, <2>4, <2>1 DEF Level
<1>19. ASSUME NEW q, Fits(q, n) PROVE \E b : Reaches(Led(q), o, b) /\ Stands(b, n)
  <2>1. Suits(q, fr) /\ \A j \in 1..(L - 1) : Suits(q, n.todo[j])
    BY <1>0, <1>10, <1>13, <1>19, Grafted
  <2>2. q[k + 1] \in Int /\ q[k + 1] >= 1
    BY <1>3, <2>1 DEF Suits
  <2>3. Agrees(q, n, Len(n.todo), Len(n.tr)) /\ Len(n.todo) \in 0..Len(n.todo)
    BY <1>16, <1>19 DEF Fits
  <2>4. PICK d : /\ Reaches(Led(q), o, d) /\ IsBind(d) /\ Len(d.todo) = L
                 /\ Mirrored(d, m.todo, L - 1) /\ d.ti = k + 2
                 /\ d.todo[L] = Elements(p, 0, k) /\ Behind(d.s, m.s)
    BY <1>17, <2>1, <2>3
  <2>5. Len(q) \in Nat /\ k + 2 <= Len(q)
    BY <1>14, <2>3 DEF Agrees
  <2>6. Top(d) = Elements(p, 0, k) /\ IsB(d)
    BY <2>4 DEF Top, IsBind, IsB
  <2>7. Repeats(fr, p, 0 + 1, k)
    BY <1>3 DEF Repeats
  <2>8. Steps(q, d, n, items)
    <3>1. 0 < q[k + 1] /\ d.ti = Len(n.tr) /\ Behind(d.s, n.s)
      BY <1>13, <1>14, <2>2, <2>4
    <3>2. Steps(q, d, n, <<fr>> \o Element(p, 0 + 1))
      BY <1>2, <1>5, <2>5, <2>6, <2>7, <3>1, MoreSteps
    <3> QED BY <1>11, <3>2
  <2>9. IsSeq(items) /\ Len(d.todo) = Len(m.todo) /\ Mirrored(d, m.todo, Len(m.todo) - 1)
    BY <1>0, <1>10, <2>4
  <2>10. Len(n.tr) \in Nat
    BY <1>5, <1>14
  <2> QED BY <1>5, <1>13, <2>4, <2>8, <2>9, <2>10, OneMore
<1>20. Followed(o, n)
  BY <1>19 DEF Followed
<1>21. Own(fr) \subseteq 1..Len(n.tr)
  BY <1>5, <1>6, <1>14
<1>22. \E lw : Good(o, n, lw)
  <2>1. Level(o, n, Len(m.todo), m.s)
    BY <1>0, <1>18
  <2> QED BY <1>3, <1>6, <1>10, <1>13, <1>20, <1>21, <2>1, BeginsFrame
<1> QED BY <1>1, <1>22

-----------------------------------------------------------------------------
(* Other streams, and calls.                                               *)
LEMMA ApplyTurn ==
  ASSUME NEW o, NEW m, NEW lv, Good(o, m, lv), m.todo # << >>, m.ok, m.match = << >>,
         ToDo(Top(m)), Top(m).do = "parse", Top(m).p.op = "apply"
  PROVE  \E lw : Good(o, Turn(Pegs, m), lw)
<1> DEFINE f == Top(m)
           p == f.p
           sv == Stream(m, p.str)
           fr == Leave(m.s, p.str)
           items == <<fr, Parse(p.p)>>
           cells == <<sv>>
           e == [m EXCEPT !.s = sv]
           n == Then(Push(e, cells), items)
<1>0. PICK k, L : k = Len(m.tr) /\ L = Len(m.todo)
  OBVIOUS
<1>1. Turn(Pegs, m) = n
  <2>1. PegGoesOn(Pegs, m, f) = PegParser(Pegs, m, p)
    BY DEF PegGoesOn, Walks, Walked
  <2>2. PegParser(Pegs, m, p) = PegApply(m, p)
    BY DEF PegParser
  <2>3. Turn(Pegs, m) = PegGoesOn(Pegs, m, f)
    BY TurnIs
  <2> QED BY <2>1, <2>2, <2>3 DEF PegApply
<1>2. p \in Parsers /\ p.p \in Parsers
  BY CParserAssumption DEF ToDo, WellFormed
<1>3. fr.do = "leave" /\ fr.s = m.s
  BY DEF Leave
<1>4. IsStream(sv) /\ IsStream(m.s)
  BY Parts DEF Stream
<1>5. k \in Nat /\ L \in Nat \ {0}
  BY <1>0, TopIs
<1>6. IsFrame(fr) /\ Own(fr) = {} /\ ~Handles(fr)
  <2> HIDE DEF fr
  <2> QED BY <1>3, <1>4 DEF IsFrame, Own, Handles
<1>7. /\ IsSeq(items) /\ Len(items) = 2 /\ items[1] = fr /\ items[2] = Parse(p.p) /\ items # << >>
      /\ \A j \in 1..Len(items) : j = 1 \/ j = 2
      /\ \A j \in 2..Len(items) : j = 2
  <2>1. PICK a, c : a = fr /\ c = Parse(p.p)
    OBVIOUS
  <2> QED BY <2>1, Two
<1> HIDE DEF sv, fr
<1>8. IsSeq(cells) /\ Len(cells) = 1 /\ cells[1] = sv
  BY Few
<1>9. Has(e, m.ok, sv, m.str, m.dep, m.tr, m.match, m.todo)
  BY TopIs, Forms
<1>10. HasMore(n, m, sv, cells, items)
  <2>1. Plain(e)
    BY <1>9 DEF Has
  <2> HIDE DEF e, items, cells
  <2>2. Has(n, e.ok, e.s, e.str, e.dep, e.tr \o cells, e.match, Replaced(e.todo, items))
    BY <2>1, PushThen
  <2> HIDE DEF n
  <2> QED BY <1>9, <2>2 DEF Has, HasMore
<1> HIDE DEF n, cells, items, e
<1>11. ToDo(items[2]) /\ Own(items[2]) = {}
  BY <1>2, <1>7, ParseToDo
<1>12. Later(m, items)
  <2>1. \A j \in 1..Len(items) : Own(items[j]) = {}
    BY <1>6, <1>7, <1>11
  <2> QED BY <2>1 DEF Later
<1>13. /\ Keeps(m, n, items) /\ Typed(n) /\ n.s = sv /\ n.match = << >>
       /\ n.todo = Replaced(m.todo, items)
  <2>1. IsSeq(cells) /\ IsSeq(items)
    BY <1>7, <1>8
  <2> QED BY <1>4, <1>10, <1>12, <2>1, Grown
<1>14. Len(n.tr) = k + 1 /\ n.tr[k + 1] = sv
  <2>1. IsSeq(cells) /\ IsSeq(items)
    BY <1>7, <1>8
  <2>2. Len(n.tr) = Len(m.tr) + Len(cells)
    BY <1>4, <1>10, <1>12, <2>1, Grown
  <2>3. \A j \in 1..Len(cells) : n.tr[Len(m.tr) + j] = cells[j]
    BY <1>4, <1>10, <1>12, <2>1, Grown
  <2>4. 1 \in 1..Len(cells)
    BY <1>8
  <2> QED BY <1>0, <1>8, <2>2, <2>3, <2>4
<1>15. \A q : Suits(q, f)
  BY DEF Suits
<1>16. ASSUME NEW q, NEW b, Fits(q, n), Stands(b, m) PROVE Steps(q, b, n, items)
  <2>1. b.ti = k /\ Top(b) = f /\ Behind(b.s, m.s) /\ IsB(b)
    BY <1>0, <1>16, StandsTop, SameItem
  <2>2. q[k + 1] = sv /\ Len(q) \in Nat /\ Len(q) >= k + 1
    <3>1. PICK c : c = k + 1
      OBVIOUS
    <3>2. c \in 1..Len(n.tr) /\ c > Len(m.tr)
      BY <1>0, <1>5, <1>14, <3>1
    <3>3. \A j \in 1..Len(items) : c \notin Own(items[j])
      BY <1>6, <1>7, <1>11
    <3>4. q[c] = n.tr[c] /\ Len(q) \in Nat /\ Len(q) >= Len(n.tr)
      BY <1>13, <1>16, <3>2, <3>3, Told
    <3> QED BY <1>14, <3>1, <3>4
  <2>3. PICK g, new : g = Back(b.s) /\ new = <<g, Parse(p.p)>>
    OBVIOUS
  <2>4. /\ IsSeq(new) /\ Len(new) = 2 /\ new[1] = g /\ new[2] = Parse(p.p)
    BY <2>3, Two
  <2>5. PICK a : a = Then(b, new)
    OBVIOUS
  <2>6. HasB(a, b.s, b.ti, b.vals, b.lost, b.over, Replaced(b.todo, new))
    BY <2>1, <2>5, BindForms
  <2>7. IsB(a) /\ a.ti = b.ti
    BY <2>6 DEF HasB
  <2>8. PICK x : x = b.ti + 1
    OBVIOUS
  <2>9. BindItem(Led(q), b, f) = [a EXCEPT !.s = sv, !.ti = x]
    <3>1. BindItem(Led(q), b, f) = BindParser(Led(q), b, p)
      BY DEF BindItem, Walks, Walked
    <3>2. Cell(Led(q), b) = sv
      BY <2>1, <2>2 DEF Cell, Led
    <3>3. BindParser(Led(q), b, p) = [a EXCEPT !.s = Cell(Led(q), b), !.ti = @ + 1]
      BY <2>3, <2>5 DEF BindParser
    <3> QED BY <2>7, <2>8, <3>1, <3>2, <3>3
  <2>10. HasB([a EXCEPT !.s = sv, !.ti = x], sv, x, b.vals, b.lost, b.over, Replaced(b.todo, new))
    <3>1. HasB([a EXCEPT !.s = sv, !.ti = x], sv, x, a.vals, a.lost, a.over, a.todo)
      BY <2>7, BindForms
    <3> QED BY <2>6, <3>1 DEF HasB
  <2>11. x = Len(n.tr)
    BY <1>14, <2>1, <2>8
  <2>12. ~Loses(Led(q), b, f) /\ ~ReadsOver(b, f)
    <3>1. Cells(f) = 1 /\ ~(b.ti + 1 > Len(q))
      BY <1>5, <2>1, <2>2 DEF Cells
    <3> QED BY <3>1 DEF Loses, ReadsOver, Led
  <2>13. Mirrors(new[1], items[1]) /\ Mirrors(new[2], items[2])
    <3>1. g.do = "back" /\ g.s = b.s
      BY <2>3 DEF Back
    <3>2. Mirrors(g, fr)
      BY <1>3, <2>1, <3>1 DEF Mirrors
    <3>3. Mirrors(new[2], items[2])
      BY <1>7, <1>11, <2>4 DEF Mirrors
    <3> QED BY <1>7, <2>4, <3>2, <3>3
  <2>14. \A j \in 1..Len(items) : Mirrors(new[j], items[j])
    BY <1>7, <2>13
  <2>15. Behind(sv, n.s)
    BY <1>4, <1>13, BehindItself
  <2> QED BY <1>7, <2>1, <2>4, <2>9, <2>10, <2>11, <2>12, <2>14, <2>15 DEF Steps
<1>17. Followed(o, n)
  BY <1>13, <1>15, <1>16, FollowsOn
<1>18. Behind(sv, n.s)
  BY <1>4, <1>13, BehindItself
<1>19. Len(m.todo) > 1 => Under(lv[Len(m.todo) - 1], fr, sv)
  BY <1>3, StillBehind DEF Under
<1>20. \A j \in 2..Len(items) : ToDo(items[j])
  BY <1>7, <1>11
<1>21. \E lw : Good(o, n, lw)
  <2>1. Own(items[1]) \subseteq 1..Len(n.tr) /\ ~Handles(items[1]) /\ items[1].do # "alternative"
    BY <1>3, <1>6, <1>7
  <2>2. items[1] = fr /\ items # << >>
    BY <1>7
  <2> QED BY <1>6, <1>13, <1>17, <1>18, <1>19, <1>20, <2>1, <2>2, TurnFramed
<1> QED BY <1>1, <1>21

LEMMA CallTurn ==
  ASSUME NEW o, NEW m, NEW lv, Good(o, m, lv), m.todo # << >>, m.ok, m.match = << >>,
         ToDo(Top(m)), Top(m).do = "parse", Top(m).p.op = "call"
  PROVE  \E lw : Good(o, Turn(Pegs, m), lw)
<1> DEFINE f == Top(m)
           p == f.p
           body == Defs[p.def]
           fr == Return(m.s)
           items == <<fr, Parse(body)>>
           n == Then(m, items)
<1>0. PICK k : k = Len(m.tr)
  OBVIOUS
<1>1. Turn(Pegs, m) = n
  <2>1. PegGoesOn(Pegs, m, f) = PegParser(Pegs, m, p)
    BY DEF PegGoesOn, Walks, Walked
  <2>2. Pegs.defs = Defs
    BY DEF Pegs
  <2>3. PegParser(Pegs, m, p) = n
    BY <2>2 DEF PegParser
  <2>4. Turn(Pegs, m) = PegGoesOn(Pegs, m, f)
    BY TurnIs
  <2> QED BY <2>1, <2>3, <2>4
<1>2. p \in Parsers /\ body \in Parsers
  BY CParserAssumption DEF ToDo, WellFormed
<1>3. fr.do = "return" /\ fr.s = m.s
  BY DEF Return
<1>4. IsStream(m.s)
  BY Parts
<1>6. IsFrame(fr) /\ Own(fr) = {} /\ ~Handles(fr)
  <2> HIDE DEF fr
  <2> QED BY <1>3, <1>4 DEF IsFrame, Own, Handles
<1> HIDE DEF body
<1>7. /\ IsSeq(items) /\ Len(items) = 2 /\ items[1] = fr /\ items[2] = Parse(body) /\ items # << >>
      /\ \A j \in 1..Len(items) : j = 1 \/ j = 2
      /\ \A j \in 2..Len(items) : j = 2
  <2>1. PICK a, c : a = fr /\ c = Parse(body)
    OBVIOUS
  <2> QED BY <2>1, Two
<1> HIDE DEF fr
<1>8. Has(n, m.ok, m.s, m.str, m.dep, m.tr, m.match, Replaced(m.todo, items))
  BY TopIs, Forms
<1> HIDE DEF n, items
<1>9. n.s = m.s /\ n.tr = m.tr /\ n.match = << >> /\ n.todo = Replaced(m.todo, items)
  BY <1>8 DEF Has
<1>10. Typed(n)
  BY <1>8, TypedPeg, Parts
<1>11. ToDo(items[2]) /\ Own(items[2]) = {}
  BY <1>2, <1>7, ParseToDo
<1>12. Keeps(m, n, items)
  <2>1. \A j \in 1..Len(items) : Own(items[j]) = {}
    BY <1>6, <1>7, <1>11
  <2> QED BY <1>7, <1>9, <2>1, KeepsTrace
<1>13. \A q : Suits(q, f)
  BY DEF Suits
<1>14. ASSUME NEW q, NEW b, Stands(b, m) PROVE Steps(q, b, n, items)
  <2>1. b.ti = k /\ Top(b) = f /\ Behind(b.s, m.s) /\ IsB(b)
    BY <1>0, <1>14, StandsTop, SameItem
  <2>2. PICK g, new : g = Returned /\ new = <<g, Parse(body)>>
    OBVIOUS
  <2>3. /\ IsSeq(new) /\ Len(new) = 2 /\ new[1] = g /\ new[2] = Parse(body)
    BY <2>2, Two
  <2>4. BindItem(Led(q), b, f) = Then(b, new)
    <3>1. BindItem(Led(q), b, f) = BindParser(Led(q), b, p)
      BY DEF BindItem, Walks, Walked
    <3>2. Led(q).defs = Defs
      BY DEF Led
    <3>3. BindParser(Led(q), b, p) = Then(b, <<Returned, Parse(body)>>)
      BY <3>2 DEF BindParser, body
    <3> QED BY <2>2, <3>1, <3>3
  <2>5. HasB(Then(b, new), b.s, b.ti, b.vals, b.lost, b.over, Replaced(b.todo, new))
    BY <2>1, BindForms
  <2>6. ~Loses(Led(q), b, f) /\ ~ReadsOver(b, f)
    <3>1. Cells(f) = 0
      BY DEF Cells
    <3> QED BY <3>1 DEF Loses, ReadsOver
  <2>7. Mirrors(new[1], items[1]) /\ Mirrors(new[2], items[2])
    <3>1. Mirrors(g, fr)
      BY <1>3, <2>2 DEF Mirrors
    <3>2. Mirrors(new[2], items[2])
      BY <1>7, <1>11, <2>3 DEF Mirrors
    <3> QED BY <1>7, <2>3, <3>1, <3>2
  <2>8. \A j \in 1..Len(items) : Mirrors(new[j], items[j])
    BY <1>7, <2>7
  <2>9. b.ti = Len(n.tr) /\ Behind(b.s, n.s)
    BY <1>0, <1>9, <2>1
  <2> QED BY <1>7, <2>1, <2>3, <2>4, <2>5, <2>6, <2>8, <2>9 DEF Steps
<1>15. Followed(o, n)
  BY <1>12, <1>13, <1>14, FollowsOn
<1>16. Behind(m.s, n.s)
  BY <1>4, <1>9, BehindItself
<1>17. Len(m.todo) > 1 => Under(lv[Len(m.todo) - 1], fr, m.s)
  BY <1>3, StillBehind DEF Under
<1>18. \A j \in 2..Len(items) : ToDo(items[j])
  BY <1>7, <1>11
<1>19. \E lw : Good(o, n, lw)
  <2>1. Own(items[1]) \subseteq 1..Len(n.tr) /\ ~Handles(items[1]) /\ items[1].do # "alternative"
    BY <1>3, <1>6, <1>7
  <2>2. items[1] = fr /\ items # << >>
    BY <1>7
  <2> QED BY <1>6, <1>9, <1>10, <1>12, <1>15, <1>16, <1>17, <1>18, <2>1, <2>2, TurnFramed
<1> QED BY <1>1, <1>19

-----------------------------------------------------------------------------
(* A frame that is over, what is above it having succeeded.                 *)
LEMMA Nothing ==
  \E none : none = << >> /\ IsSeq(none) /\ Len(none) = 0 /\ \A k \in 1..Len(none) : FALSE
<1>1. PICK none : none = << >>
  OBVIOUS
<1>2. IsSeq(none) /\ Len(none) = 0
  BY <1>1, Few
<1> QED BY <1>1, <1>2

LEMMA OverSteps ==
  ASSUME NEW q, NEW b, IsB(b), NEW n, b.ti = Len(n.tr), Behind(b.s, n.s),
         Top(b).do \in {"picked", "present", "returned"}
  PROVE  Steps(q, b, n, << >>)
<1>1. BindItem(Led(q), b, Top(b)) = Done(b)
  BY DEF BindItem, Walks
<1>2. HasB(Done(b), b.s, b.ti, b.vals, b.lost, b.over, Replaced(b.todo, << >>))
  BY BindForms DEF Done
<1>3. ~Loses(Led(q), b, Top(b)) /\ ~ReadsOver(b, Top(b))
  BY DEF Loses, ReadsOver, Cells
<1>4. IsSeq(<< >>) /\ Len(<< >>) = 0
  BY Few
<1> QED BY <1>1, <1>2, <1>3, <1>4 DEF Steps

LEMMA EndSteps ==
  ASSUME NEW q, NEW b, IsB(b), NEW p, NEW i, NEW at \in Nat, Top(b) = Elements(p, i, at),
         ~(i < q[at + 1]), NEW n, q[at + 2] = Len(n.tr), Len(q) \in Nat, at + 2 <= Len(q),
         Behind(b.s, n.s)
  PROVE  Steps(q, b, n, << >>)
<1>0. PICK f : f = Top(b)
  OBVIOUS
<1>1. f.do = "elements" /\ f.i = i /\ f.at = at
  BY <1>0 DEF Elements
<1>2. PICK e : e = Done(b)
  OBVIOUS
<1>3. HasB(e, b.s, b.ti, b.vals, b.lost, b.over, Replaced(b.todo, << >>))
  BY <1>2, BindForms DEF Done
<1>4. BindItem(Led(q), b, f) = [e EXCEPT !.ti = q[at + 2]]
  <2>1. BindItem(Led(q), b, f) = BindElements(Led(q), b, f)
    BY <1>1 DEF BindItem, Walks
  <2>2. ~(f.i < Led(q).tr[f.at + 1]) /\ Led(q).tr[f.at + 2] = q[at + 2]
    BY <1>1 DEF Led
  <2> QED BY <1>2, <2>1, <2>2 DEF BindElements
<1>5. HasB([e EXCEPT !.ti = q[at + 2]], b.s, Len(n.tr), b.vals, b.lost, b.over, Replaced(b.todo, << >>))
  <2>1. IsB(e)
    BY <1>3 DEF HasB
  <2>2. HasB([e EXCEPT !.ti = q[at + 2]], e.s, q[at + 2], e.vals, e.lost, e.over, e.todo)
    BY <2>1, BindForms
  <2> QED BY <1>3, <2>2 DEF HasB
<1>6. ~Loses(Led(q), b, f) /\ ~ReadsOver(b, f)
  BY <1>1 DEF Loses, ReadsOver, Cells, Led
<1>7. IsSeq(<< >>) /\ Len(<< >>) = 0
  BY Few
<1> QED BY <1>0, <1>4, <1>5, <1>6, <1>7 DEF Steps

(* The cells of the frame are filled in.                                   *)
FillsIn(m, n, at, c, new) ==
  /\ Filled(m.tr, at, c, new) /\ (at + 1)..(at + c) \subseteq Own(Top(m))
  /\ n.ok \in BOOLEAN /\ Has(n, n.ok, m.s, m.str, m.dep, new, << >>, Replaced(m.todo, << >>))
LEMMA FilledIn ==
  ASSUME NEW o, NEW m, NEW lv, Good(o, m, lv), m.todo # << >>,
         NEW n, NEW at \in Nat, NEW c \in Nat, NEW new, FillsIn(m, n, at, c, new)
  PROVE  /\ Typed(n) /\ n.s = m.s /\ n.tr = new /\ n.match = << >>
         /\ n.todo = Replaced(m.todo, << >>) /\ Len(n.tr) = Len(m.tr)
         /\ \E none : none = << >> /\ Keeps(m, n, none) /\ \A k \in 1..Len(none) : FALSE
         /\ \A q : Fits(q, n) =>
              /\ Len(q) \in Nat /\ Len(q) >= Len(m.tr)
              /\ \A y \in (at + 1)..(at + c) : q[y] = new[y]
<1>1. n.ok \in BOOLEAN /\ Has(n, n.ok, m.s, m.str, m.dep, new, << >>, Replaced(m.todo, << >>))
  BY DEF FillsIn
<1>2. IsSeq(new) /\ Len(new) = Len(m.tr) /\ Len(m.tr) \in Nat
  BY TopIs DEF FillsIn, Filled
<1>3. n.s = m.s /\ n.tr = new /\ n.match = << >> /\ n.todo = Replaced(m.todo, << >>)
  BY <1>1 DEF Has
<1>4. Typed(n)
  BY <1>1, <1>2, Few, TypedPeg, Parts
<1>5. PICK none : none = << >> /\ IsSeq(none) /\ Len(none) = 0 /\ \A k \in 1..Len(none) : FALSE
  BY Nothing
<1>6. Patched(m, n)
  <2>1. \A i \in 1..Len(m.tr) : new[i] = m.tr[i] \/ i \in Own(Top(m))
    BY DEF FillsIn, Filled
  <2> QED BY <1>2, <1>3, <2>1 DEF Patched
<1>7. Keeps(m, n, none)
  BY <1>3, <1>5, <1>6 DEF Keeps
<1>8. ASSUME NEW q, Fits(q, n)
      PROVE  /\ Len(q) \in Nat /\ Len(q) >= Len(m.tr)
             /\ \A y \in (at + 1)..(at + c) : q[y] = new[y]
  <2>1. Len(q) \in Nat /\ Len(q) >= Len(m.tr)
    BY <1>2, <1>3, <1>8 DEF Fits, Agrees
  <2>2. ASSUME NEW y \in (at + 1)..(at + c) PROVE q[y] = new[y]
    <3>1. y \in Own(Top(m))
      BY DEF FillsIn
    <3>2. y \in 1..Len(n.tr)
      BY <1>2, <1>3, <3>1, TopIs
    <3>3. \A k \in 1..Len(none) : y \notin Own(none[k])
      BY <1>5
    <3>4. q[y] = n.tr[y]
      BY <1>7, <1>8, <3>1, <3>2, <3>3, Told
    <3> QED BY <1>3, <3>4
  <2> QED BY <2>1, <2>2
<1>9. Len(n.tr) = Len(m.tr)
  BY <1>2, <1>3
<1> QED BY <1>3, <1>4, <1>5, <1>7, <1>8, <1>9

LEMMA FilledCells ==
  ASSUME NEW o, NEW m, NEW lv, Good(o, m, lv), m.todo # << >>,
         NEW n, NEW at \in Nat, NEW c \in Nat, NEW new, FillsIn(m, n, at, c, new),
         NEW q, Fits(q, n), NEW y \in Own(Top(m))
  PROVE  q[y] = new[y]
<1>1. PICK none : none = << >> /\ Keeps(m, n, none) /\ \A k \in 1..Len(none) : FALSE
  BY FilledIn
<1>2. n.tr = new /\ Len(n.tr) = Len(m.tr)
  BY DEF FillsIn, Filled, Has
<1>4. y \in 1..Len(n.tr)
  BY <1>2, TopIs
<1>5. \A k \in 1..Len(none) : y \notin Own(none[k])
  BY <1>1
<1>6. q[y] = n.tr[y]
  BY <1>1, <1>4, <1>5, Told
<1> QED BY <1>2, <1>6

LEMMA FrameOver ==
  ASSUME NEW o, NEW m, NEW lv, Good(o, m, lv), m.todo # << >>, m.ok, Top(m).do # "leave",
         NEW n, NEW at \in Nat, NEW c \in Nat, NEW new, FillsIn(m, n, at, c, new),
         \A q : Fits(q, n) => Suits(q, Top(m)),
         \A q, b : Fits(q, n) /\ Stands(b, m) => Steps(q, b, n, << >>)
  PROVE  \E lw : Good(o, n, lw)
<1>1. Typed(n) /\ n.s = m.s /\ n.match = << >> /\ n.todo = Replaced(m.todo, << >>)
  BY FilledIn
<1>2. PICK none : none = << >> /\ Keeps(m, n, none) /\ \A k \in 1..Len(none) : FALSE
  BY FilledIn
<1>3. Followed(o, n)
  <2>1. \A q, b : Fits(q, n) /\ Fits(q, m) /\ Stands(b, m) => Steps(q, b, n, none)
    BY <1>2
  <2> QED BY <1>2, <2>1, FollowsOn
<1>4. Behind(m.s, n.s)
  BY <1>1, BehindItself, Parts
<1>5. \A k \in 1..Len(none) : ToDo(none[k])
  BY <1>2
<1> QED BY <1>1, <1>2, <1>3, <1>4, <1>5, TurnPlain

LEMMA DoneWith ==
  ASSUME NEW r, NEW ok, NEW s, NEW str, NEW dep, NEW tr, NEW match, NEW todo,
         Has(r, ok, s, str, dep, tr, match, todo)
  PROVE  Has(Done(r), ok, s, str, dep, tr, match, Replaced(todo, << >>))
<1>1. Plain(r)
  BY DEF Has
<1>2. Has(Done(r), r.ok, r.s, r.str, r.dep, r.tr, r.match, Replaced(r.todo, << >>))
  BY <1>1, Forms DEF Done
<1> QED BY <1>2 DEF Has

(* The top frame and its cells.                                            *)
LEMMA FrameIs ==
  ASSUME NEW o, NEW m, NEW lv, Good(o, m, lv), m.todo # << >>
  PROVE  /\ Top(m).do \in {"alternative", "more", "counted"} =>
              /\ Top(m).at \in Nat /\ Top(m).at + 2 <= Len(m.tr) /\ Top(m).p \in Parsers
              /\ Own(Top(m)) = {Top(m).at + 1, Top(m).at + 2}
         /\ Top(m).do = "maybe" =>
              /\ Top(m).at \in Nat /\ Top(m).at + 1 <= Len(m.tr) /\ Top(m).p \in Parsers
              /\ Top(m).p.op = "optional" /\ Own(Top(m)) = {Top(m).at + 1}
         /\ Top(m).do = "alternative" =>
              /\ Top(m).p.op \in {"choice", "nunion"} /\ Top(m).i \in 1..Len(Top(m).p.ps)
         /\ Top(m).do = "more" => Top(m).p.op = "array" /\ Top(m).i \in Nat \ {0}
         /\ Top(m).do = "counted" => Top(m).p.op = "length"
         /\ Top(m).do \in {"leave", "return"} => IsStream(Top(m).s)
         /\ Len(m.tr) \in Nat
<1>0. PICK f : f = Top(m)
  OBVIOUS
<1>1. (ToDo(f) \/ IsFrame(f)) /\ Own(f) \subseteq 1..Len(m.tr) /\ Len(m.tr) \in Nat
  BY <1>0, TopIs
<1>2. f.do \in {"alternative", "more", "counted", "maybe", "leave", "return"} => IsFrame(f)
  BY <1>1 DEF ToDo
<1>3. f.do \in {"alternative", "more", "counted"} =>
        f.at \in Nat /\ f.p \in Parsers /\ Own(f) = {f.at + 1, f.at + 2}
  BY <1>2 DEF IsFrame, Own
<1>4. f.do = "maybe" => f.at \in Nat /\ f.p \in Parsers /\ f.p.op = "optional" /\ Own(f) = {f.at + 1}
  BY <1>2 DEF IsFrame, Own
<1>5. /\ f.do \in {"alternative", "more", "counted"} => f.at + 2 <= Len(m.tr)
      /\ f.do = "maybe" => f.at + 1 <= Len(m.tr)
  BY <1>1, <1>3, <1>4
<1>6. /\ f.do = "alternative" => f.p.op \in {"choice", "nunion"} /\ f.i \in 1..Len(f.p.ps)
      /\ f.do = "more" => f.p.op = "array" /\ f.i \in Nat \ {0}
      /\ f.do = "counted" => f.p.op = "length"
      /\ f.do \in {"leave", "return"} => IsStream(f.s)
  BY <1>2 DEF IsFrame
<1> QED BY <1>0, <1>1, <1>3, <1>4, <1>5, <1>6

LEMMA TwoFilled ==
  ASSUME NEW o, NEW m, NEW lv, Good(o, m, lv), m.todo # << >>, m.match = << >>,
         Top(m).do \in {"alternative", "more", "counted"}, NEW v, NEW w
  PROVE  \E new : /\ FillsIn(m, Done(SetCells(m, Top(m).at, v, w)), Top(m).at, 2, new)
                  /\ new[Top(m).at + 1] = v /\ new[Top(m).at + 2] = w
<1>0. PICK at, r : at = Top(m).at /\ r = SetCells(m, at, v, w)
  OBVIOUS
<1>1. at \in Nat /\ at + 2 <= Len(m.tr) /\ Own(Top(m)) = {at + 1, at + 2}
  BY <1>0, FrameIs
<1>2. Plain(m) /\ IsSeq(m.tr)
  BY TopIs
<1>3. PICK new : /\ Has(r, m.ok, m.s, m.str, m.dep, new, m.match, m.todo)
                 /\ Filled(m.tr, at, 2, new) /\ new[at + 1] = v /\ new[at + 2] = w
  BY <1>0, <1>1, <1>2, CellsSet
<1>4. Has(Done(r), m.ok, m.s, m.str, m.dep, new, m.match, Replaced(m.todo, << >>))
  BY <1>3, DoneWith
<1>5. (at + 1)..(at + 2) \subseteq Own(Top(m))
  BY <1>1
<1>6. FillsIn(m, Done(r), at, 2, new)
  <2>1. Done(r).ok = m.ok /\ Done(r).ok \in BOOLEAN
    BY <1>4, TopIs DEF Has
  <2>2. Has(Done(r), Done(r).ok, m.s, m.str, m.dep, new, << >>, Replaced(m.todo, << >>))
    BY <1>4, <2>1
  <2> QED BY <1>3, <1>5, <2>1, <2>2 DEF FillsIn
<1> QED BY <1>0, <1>3, <1>6

LEMMA OneFilled ==
  ASSUME NEW o, NEW m, NEW lv, Good(o, m, lv), m.todo # << >>, m.match = << >>,
         Top(m).do = "maybe", NEW v
  PROVE  \E new : /\ Has(SetCell(m, Top(m).at, v), m.ok, m.s, m.str, m.dep, new, << >>, m.todo)
                  /\ Filled(m.tr, Top(m).at, 1, new) /\ new[Top(m).at + 1] = v
                  /\ (Top(m).at + 1)..(Top(m).at + 1) \subseteq Own(Top(m))
<1>0. PICK at : at = Top(m).at
  OBVIOUS
<1>1. at \in Nat /\ at + 1 <= Len(m.tr) /\ Own(Top(m)) = {at + 1}
  BY <1>0, FrameIs
<1>2. Plain(m) /\ IsSeq(m.tr)
  BY TopIs
<1>3. PICK new : new = [m.tr EXCEPT ![at + 1] = v]
  OBVIOUS
<1>4. Has(SetCell(m, at, v), m.ok, m.s, m.str, m.dep, new, m.match, m.todo)
  BY <1>2, <1>3, Forms
<1>5. Filled(m.tr, at, 1, new) /\ new[at + 1] = v
  BY <1>1, <1>2, <1>3, CellSet
<1>6. (at + 1)..(at + 1) \subseteq Own(Top(m))
  BY <1>1
<1> QED BY <1>0, <1>4, <1>5, <1>6

LEMMA AlternativeOver ==
  ASSUME NEW o, NEW m, NEW lv, Good(o, m, lv), m.todo # << >>, m.ok, m.match = << >>,
         Top(m).do = "alternative"
  PROVE  \E lw : Good(o, Turn(Pegs, m), lw)
<1> DEFINE f == Top(m)
           n == Done(SetCells(m, f.at, f.p.tags[f.i], f.from))
<1>1. Turn(Pegs, m) = n
  <2>1. PegGoesOn(Pegs, m, f) = n
    BY DEF PegGoesOn, Walks
  <2> QED BY <2>1, TurnIs
<1>2. PICK new : /\ FillsIn(m, n, f.at, 2, new)
                 /\ new[f.at + 1] = f.p.tags[f.i] /\ new[f.at + 2] = f.from
  <2>1. PICK v, w : v = f.p.tags[f.i] /\ w = f.from
    OBVIOUS
  <2>2. \E new : /\ FillsIn(m, Done(SetCells(m, Top(m).at, v, w)), Top(m).at, 2, new)
                 /\ new[Top(m).at + 1] = v /\ new[Top(m).at + 2] = w
    BY TwoFilled
  <2>3. n = Done(SetCells(m, Top(m).at, v, w))
    BY <2>1
  <2> HIDE DEF n
  <2> QED BY <2>1, <2>2, <2>3
<1>3. f.at \in Nat
  BY FrameIs
<1> HIDE DEF n
<1>4. FillsIn(m, n, f.at, 2, new)
  BY <1>2
<1>5. n.s = m.s /\ Len(n.tr) = Len(m.tr)
  BY <1>3, <1>4, FilledIn
<1>6. ASSUME NEW q, Fits(q, n) PROVE Suits(q, f)
  <2>1. PICK at : at = f.at
    OBVIOUS
  <2>2. at \in Nat /\ FillsIn(m, n, at, 2, new)
    BY <1>3, <1>4, <2>1
  <2>3. at + 1 \in Own(f) /\ at + 2 \in Own(f)
    BY <2>1, FrameIs
  <2>4. \A y \in Own(f) : q[y] = new[y]
    BY <1>6, <2>2, FilledCells
  <2>5. q[at + 1] = new[at + 1] /\ q[at + 2] = new[at + 2]
    BY <2>3, <2>4
  <2>6. q[f.at + 1] = f.p.tags[f.i] /\ q[f.at + 2] = f.from
    BY <1>2, <2>1, <2>5
  <2> QED BY <2>6 DEF Suits
<1>7. ASSUME NEW q, NEW b, Stands(b, m) PROVE Steps(q, b, n, << >>)
  <2>1. b.ti = Len(m.tr) /\ Mirrors(Top(b), f) /\ Behind(b.s, m.s) /\ IsB(b)
    BY <1>7, StandsTop
  <2>2. Top(b) = Picked(f.p, f.i)
    BY <2>1 DEF Mirrors, ToDo
  <2>3. Top(b).do = "picked"
    BY <2>2 DEF Picked
  <2> QED BY <1>5, <2>1, <2>3, OverSteps
<1>8. \E lw : Good(o, n, lw)
  BY <1>3, <1>4, <1>6, <1>7, FrameOver
<1> QED BY <1>1, <1>8

LEMMA MaybeOver ==
  ASSUME NEW o, NEW m, NEW lv, Good(o, m, lv), m.todo # << >>, m.ok, m.match = << >>,
         Top(m).do = "maybe"
  PROVE  \E lw : Good(o, Turn(Pegs, m), lw)
<1> DEFINE f == Top(m)
           r == SetCell(m, f.at, -1)
           n == Done(r)
<1>1. Turn(Pegs, m) = n
  <2>1. PegGoesOn(Pegs, m, f) = n
    BY DEF PegGoesOn, Walks
  <2> QED BY <2>1, TurnIs
<1>2. PICK new : /\ Has(r, m.ok, m.s, m.str, m.dep, new, << >>, m.todo)
                 /\ Filled(m.tr, f.at, 1, new) /\ new[f.at + 1] = -1
                 /\ (f.at + 1)..(f.at + 1) \subseteq Own(f)
  BY OneFilled
<1> HIDE DEF r
<1>3. Has(n, m.ok, m.s, m.str, m.dep, new, << >>, Replaced(m.todo, << >>))
  BY <1>2, DoneWith
<1> HIDE DEF n
<1>4. FillsIn(m, n, f.at, 1, new)
  <2>1. n.ok = m.ok /\ n.ok \in BOOLEAN
    BY <1>3, TopIs DEF Has
  <2>2. Has(n, n.ok, m.s, m.str, m.dep, new, << >>, Replaced(m.todo, << >>))
    BY <1>3, <2>1
  <2> QED BY <1>2, <2>1, <2>2 DEF FillsIn
<1>5. f.at \in Nat
  BY FrameIs
<1>6. n.s = m.s /\ Len(n.tr) = Len(m.tr)
  BY <1>4, <1>5, FilledIn
<1>7. ASSUME NEW q, Fits(q, n) PROVE Suits(q, f)
  <2>1. PICK at : at = f.at
    OBVIOUS
  <2>2. at \in Nat /\ FillsIn(m, n, at, 1, new)
    BY <1>4, <1>5, <2>1
  <2>3. at + 1 \in Own(f)
    BY <2>1, FrameIs
  <2>4. \A y \in Own(f) : q[y] = new[y]
    BY <1>7, <2>2, FilledCells
  <2>5. q[f.at + 1] = -1
    BY <1>2, <2>1, <2>3, <2>4
  <2> QED BY <2>5 DEF Suits
<1>8. ASSUME NEW q, NEW b, Stands(b, m) PROVE Steps(q, b, n, << >>)
  <2>1. b.ti = Len(m.tr) /\ Mirrors(Top(b), f) /\ Behind(b.s, m.s) /\ IsB(b)
    BY <1>8, StandsTop
  <2>2. Top(b) = Present(f.p)
    BY <2>1 DEF Mirrors, ToDo
  <2>3. Top(b).do = "present"
    BY <2>2 DEF Present
  <2> QED BY <1>6, <2>1, <2>3, OverSteps
<1>9. \E lw : Good(o, n, lw)
  BY <1>4, <1>5, <1>7, <1>8, FrameOver
<1> QED BY <1>1, <1>9

-----------------------------------------------------------------------------
(* Repetitions go on, or are over.                                         *)
LEMMA RoundMade ==
  ASSUME NEW o, NEW m, NEW lv, Good(o, m, lv), m.todo # << >>, m.ok, m.match = << >>,
         Top(m).do \in {"more", "counted"},
         NEW fr, IsFrame(fr), fr.do = Top(m).do, Repeats(fr, Top(m).p, Top(m).i + 1, Top(m).at),
         fr.do = "counted" => fr.n = Top(m).n /\ Top(m).i < Top(m).n,
         NEW n, n = Then(m, <<fr>> \o Element(Top(m).p, Top(m).i + 1))
  PROVE  \E lw : Good(o, n, lw)
<1> DEFINE f == Top(m)
           p == f.p
<1>0. PICK i, at : i = f.i /\ at = f.at
  OBVIOUS
<1>1. /\ p \in Parsers /\ at \in Nat /\ at + 2 <= Len(m.tr) /\ Own(f) = {at + 1, at + 2}
      /\ f.do = "more" => p.op = "array" /\ i \in Nat \ {0}
  BY <1>0, FrameIs
<1>2. Repeated(p)
  <2>1. p.op \in {"array", "length"}
    BY FrameIs
  <2> QED BY <1>1, <2>1, RepeatedIs
<1>3. fr.p = p /\ fr.i = i + 1 /\ fr.at = at
  BY <1>0 DEF Repeats
<1>4. Own(fr) = {at + 1, at + 2}
  BY <1>3 DEF Own
<1>5. PICK t : t = Element(p, i + 1)
  OBVIOUS
<1>6. IsSeq(t) /\ \A j \in 1..Len(t) : ToDo(t[j])
  BY <1>2, <1>5, ElementToDo
<1>7. PICK items : items = <<fr>> \o t
  OBVIOUS
<1>8. /\ IsSeq(items) /\ items[1] = fr /\ items # << >>
      /\ \A j \in 2..Len(items) : ToDo(items[j])
  <2>1. IsSeq(t) /\ Framed(items, fr, t)
    BY <1>6, <1>7 DEF Framed
  <2>2. items[1] = fr /\ items # << >> /\ IsSeq(items)
    BY <2>1, FrameHead
  <2>3. \A j \in 2..Len(items) : j - 1 \in 1..Len(t) /\ items[j] = t[j - 1]
    BY <2>1, FrameFirst
  <2> QED BY <1>6, <2>2, <2>3
<1>9. Has(n, m.ok, m.s, m.str, m.dep, m.tr, m.match, Replaced(m.todo, items))
  <2>1. n = Then(m, items)
    BY <1>0, <1>5, <1>7
  <2>2. Has(Then(m, items), m.ok, m.s, m.str, m.dep, m.tr, m.match, Replaced(m.todo, items))
    BY TopIs, Forms
  <2> QED BY <2>1, <2>2
<1>10. n.s = m.s /\ n.tr = m.tr /\ n.match = << >> /\ n.todo = Replaced(m.todo, items)
  BY <1>9 DEF Has
<1>11. Typed(n)
  BY <1>9, TypedPeg, Parts
<1>12. Len(m.tr) \in Nat /\ IsSeq(m.todo) /\ Len(m.todo) \in Nat \ {0}
  BY TopIs
<1>13. Keeps(m, n, items)
  <2>1. Patched(m, n)
    BY <1>10, <1>12 DEF Patched
  <2>2. \A y \in Own(items[1]) : y \in Int /\ y \in Own(f)
    BY <1>1, <1>4, <1>8
  <2>3. \A j \in 2..Len(items) : Own(items[j]) = {}
    BY <1>8, OwnsNothing
  <2>4. Len(items) \in Nat
    BY <1>8, SeqIs
  <2>5. \A j \in 1..Len(items) : j = 1 \/ j \in 2..Len(items)
    BY <2>4
  <2>6. \A j \in 1..Len(items) : \A y \in Own(items[j]) : y \in Int /\ (y > Len(m.tr) \/ y \in Own(Top(m)))
    BY <2>2, <2>3, <2>5
  <2>7. IsSeq(items)
    BY <1>8
  <2> QED BY <1>10, <2>1, <2>6, <2>7 DEF Keeps
<1>14. n.todo[Len(m.todo)] = fr
  BY <1>8, <1>13, Grafted
<1>15. ASSUME NEW q, Fits(q, n) PROVE Suits(q, f) /\ i < q[at + 1]
  <2>1. Suits(q, fr)
    BY <1>8, <1>13, <1>15, Grafted
  <2>2. CASE fr.do = "more"
    <3>1. q[at + 1] \in Int /\ q[at + 1] >= i + 1
      BY <1>3, <2>1, <2>2 DEF Suits
    <3>2. i \in Nat
      BY <1>1, <2>2
    <3>3. q[f.at + 1] \in Int /\ q[f.at + 1] >= f.i
      BY <1>0, <3>1, <3>2
    <3>4. Suits(q, f)
      BY <2>2, <3>3 DEF Suits
    <3> QED BY <3>1, <3>2, <3>4
  <2>3. CASE fr.do = "counted"
    <3>1. q[at + 1] = f.n
      BY <1>3, <2>1, <2>3 DEF Suits
    <3>2. Suits(q, f)
      BY <1>0, <2>3, <3>1 DEF Suits
    <3> QED BY <1>0, <2>3, <3>1, <3>2
  <2> QED BY <2>2, <2>3
<1>16. ASSUME NEW b, Stands(b, m)
       PROVE  /\ b.ti = Len(m.tr) /\ Top(b) = Elements(p, i, at) /\ Behind(b.s, m.s) /\ IsB(b)
  <2>1. b.ti = Len(m.tr) /\ Mirrors(Top(b), f) /\ Behind(b.s, m.s) /\ IsB(b)
    BY <1>16, StandsTop
  <2>2. Top(b) = Elements(p, i, at)
    BY <1>0, <2>1 DEF Mirrors, ToDo
  <2> QED BY <2>1, <2>2
<1>17. Followed(o, n)
  <2>1. ASSUME NEW q, NEW b, Fits(q, n), Stands(b, m) PROVE Steps(q, b, n, items)
    <3>1. Len(q) \in Nat /\ at + 2 <= Len(q)
      <4>1. Len(q) \in Nat /\ Len(q) >= Len(m.tr)
        BY <1>10, <2>1 DEF Fits, Agrees
      <4> QED BY <1>1, <1>12, <4>1
    <3>2. i < q[at + 1]
      BY <1>15, <2>1
    <3>3. b.ti = Len(n.tr) /\ Behind(b.s, n.s) /\ IsB(b) /\ Top(b) = Elements(p, i, at)
      BY <1>10, <1>16, <2>1
    <3>4. Repeats(fr, p, i + 1, at)
      BY <1>0
    <3>5. Steps(q, b, n, <<fr>> \o Element(p, i + 1))
      BY <1>1, <1>2, <3>1, <3>2, <3>3, <3>4, MoreSteps
    <3> QED BY <1>5, <1>7, <3>5
  <2>2. \A q : Fits(q, n) => Suits(q, Top(m))
    BY <1>15
  <2> QED BY <1>13, <2>1, <2>2, FollowsOn
<1>18. Handles(items[1]) => Level(o, n, Len(m.todo), m.s)
  <2> SUFFICES ASSUME Handles(items[1]) PROVE Level(o, n, Len(m.todo), m.s)
    OBVIOUS
  <2>1. f.do = "more" /\ fr.do = "more"
    BY <1>8 DEF Handles
  <2>2. ASSUME NEW q, Tries(q, n, Len(m.todo), Len(n.tr)) PROVE Suits(q, f)
    <3>1. q[at + 1] \in Int /\ q[at + 1] >= (i + 1) - 1
      BY <1>3, <1>14, <2>1, <2>2 DEF Tries
    <3>2. i \in Nat
      BY <1>1, <2>1
    <3>3. q[f.at + 1] \in Int /\ q[f.at + 1] >= f.i
      BY <1>0, <3>1, <3>2
    <3> QED BY <2>1, <3>3 DEF Suits
  <2>3. ASSUME NEW b, Stands(b, m) PROVE Top(b) = Elements(items[1].p, items[1].i - 1, items[1].at)
    <3>1. i = (i + 1) - 1
      BY <1>1, <2>1
    <3> QED BY <1>3, <1>8, <1>16, <2>3, <3>1
  <2>4. items[1].do = "more"
    BY <1>8, <2>1
  <2>5. \A b : Stands(b, m) =>
          /\ items[1].do \in {"alternative", "maybe"} =>
               b.ti = items[1].at /\ Top(b).do = "parse" /\ Top(b).p = items[1].p
          /\ items[1].do = "more" => Top(b) = Elements(items[1].p, items[1].i - 1, items[1].at)
    BY <2>3, <2>4
  <2>6. items # << >> /\ \A j \in 2..Len(items) : ToDo(items[j])
    BY <1>8
  <2> QED BY <1>13, <2>1, <2>2, <2>5, <2>6, NewLevel
<1>19. Own(items[1]) \subseteq 1..Len(n.tr)
  BY <1>1, <1>4, <1>8, <1>10, <1>12
<1>20. items[1].do \in {"more", "counted"} /\ IsFrame(items[1])
  BY <1>8
<1>21. items # << >> /\ \A j \in 2..Len(items) : ToDo(items[j])
  BY <1>8
<1> QED BY <1>10, <1>11, <1>13, <1>17, <1>18, <1>19, <1>20, <1>21, BeginsFrame

LEMMA MoreTurn ==
  ASSUME NEW o, NEW m, NEW lv, Good(o, m, lv), m.todo # << >>, m.ok, m.match = << >>,
         Top(m).do = "more"
  PROVE  \E lw : Good(o, Turn(Pegs, m), lw)
<1> DEFINE f == Top(m)
<1>1. PICK fr : fr = More(f.p, f.i + 1, f.at)
  OBVIOUS
<1>2. PICK n : n = Then(m, <<fr>> \o Element(f.p, f.i + 1))
  OBVIOUS
<1>3. Turn(Pegs, m) = n
  <2>1. PegGoesOn(Pegs, m, f) = n
    BY <1>1, <1>2 DEF PegGoesOn, Walks
  <2> QED BY <2>1, TurnIs
<1>4. fr.do = "more" /\ fr.p = f.p /\ fr.i = f.i + 1 /\ fr.at = f.at
  BY <1>1 DEF More
<1>5. IsFrame(fr)
  <2>1. f.p \in Parsers /\ f.p.op = "array" /\ f.i \in Nat /\ f.at \in Nat
    BY FrameIs
  <2> QED BY <1>4, <2>1 DEF IsFrame
<1>6. Repeats(fr, f.p, f.i + 1, f.at)
  BY <1>4 DEF Repeats
<1>7. \E lw : Good(o, n, lw)
  <2>1. fr.do = Top(m).do /\ ~(fr.do = "counted")
    BY <1>4
  <2> QED BY <1>2, <1>5, <1>6, <2>1, RoundMade
<1> QED BY <1>3, <1>7

LEMMA CountedTurn ==
  ASSUME NEW o, NEW m, NEW lv, Good(o, m, lv), m.todo # << >>, m.ok, m.match = << >>,
         Top(m).do = "counted"
  PROVE  \E lw : Good(o, Turn(Pegs, m), lw)
<1> DEFINE f == Top(m)
<1>1. CASE f.i < f.n
  <2>1. PICK fr : fr = Counted(f.p, f.i + 1, f.at, f.n)
    OBVIOUS
  <2>2. PICK n : n = Then(m, <<fr>> \o Element(f.p, f.i + 1))
    OBVIOUS
  <2>3. Turn(Pegs, m) = n
    <3>1. PegGoesOn(Pegs, m, f) = n
      BY <1>1, <2>1, <2>2 DEF PegGoesOn, Walks
    <3> QED BY <3>1, TurnIs
  <2>4. fr.do = "counted" /\ fr.p = f.p /\ fr.i = f.i + 1 /\ fr.at = f.at /\ fr.n = f.n
    BY <2>1 DEF Counted
  <2>5. IsFrame(fr)
    <3>1. f.p \in Parsers /\ f.p.op = "length" /\ f.at \in Nat
      BY FrameIs
    <3> QED BY <2>4, <3>1 DEF IsFrame
  <2>6. Repeats(fr, f.p, f.i + 1, f.at)
    BY <2>4 DEF Repeats
  <2>7. \E lw : Good(o, n, lw)
    <3>1. fr.do = Top(m).do /\ fr.n = Top(m).n /\ Top(m).i < Top(m).n
      BY <1>1, <2>4
    <3> QED BY <2>2, <2>5, <2>6, <3>1, RoundMade
  <2> QED BY <2>3, <2>7
<1>2. CASE ~(f.i < f.n)
  <2>1. PICK v, w : v = f.n /\ w = TracePos(m)
    OBVIOUS
  <2>2. PICK n : n = Done(SetCells(m, Top(m).at, v, w))
    OBVIOUS
  <2>3. Turn(Pegs, m) = n
    <3>1. PegGoesOn(Pegs, m, f) = n
      BY <1>2, <2>1, <2>2 DEF PegGoesOn, Walks
    <3> QED BY <3>1, TurnIs
  <2>4. PICK new : /\ FillsIn(m, n, f.at, 2, new) /\ new[f.at + 1] = v /\ new[f.at + 2] = w
    <3>1. \E new : /\ FillsIn(m, Done(SetCells(m, Top(m).at, v, w)), Top(m).at, 2, new)
                   /\ new[Top(m).at + 1] = v /\ new[Top(m).at + 2] = w
      BY TwoFilled
    <3> QED BY <2>2, <3>1
  <2>5. f.at \in Nat /\ f.at + 2 <= Len(m.tr) /\ Own(f) = {f.at + 1, f.at + 2} /\ Len(m.tr) \in Nat
    BY FrameIs
  <2>6. n.s = m.s /\ Len(n.tr) = Len(m.tr)
    BY <2>4, <2>5, FilledIn
  <2>7. ASSUME NEW q, Fits(q, n) PROVE q[f.at + 1] = f.n /\ q[f.at + 2] = Len(n.tr)
    <3>1. \A y \in Own(f) : q[y] = new[y]
      <4>1. PICK at : at = f.at
        OBVIOUS
      <4>2. at \in Nat /\ FillsIn(m, n, at, 2, new)
        BY <2>4, <2>5, <4>1
      <4> QED BY <2>7, <4>2, FilledCells
    <3> QED BY <2>1, <2>4, <2>5, <2>6, <3>1 DEF TracePos
  <2>8. \A q : Fits(q, n) => Suits(q, Top(m))
    BY <2>7 DEF Suits
  <2>9. ASSUME NEW q, NEW b, Fits(q, n), Stands(b, m) PROVE Steps(q, b, n, << >>)
    <3>1. Mirrors(Top(b), f) /\ Behind(b.s, m.s) /\ IsB(b)
      BY <2>9, StandsTop
    <3>2. Top(b) = Elements(f.p, f.i, f.at)
      BY <3>1 DEF Mirrors, ToDo
    <3>3. Len(q) \in Nat /\ f.at + 2 <= Len(q)
      <4>1. Len(q) \in Nat /\ Len(q) >= Len(m.tr)
        BY <2>6, <2>9 DEF Fits, Agrees
      <4> QED BY <2>5, <4>1
    <3>4. ~(f.i < q[f.at + 1]) /\ q[f.at + 2] = Len(n.tr)
      BY <1>2, <2>7, <2>9
    <3>5. Behind(b.s, n.s)
      BY <2>6, <3>1
    <3>6. PICK p, i, at : p = f.p /\ i = f.i /\ at = f.at
      OBVIOUS
    <3>7. at \in Nat /\ Top(b) = Elements(p, i, at) /\ ~(i < q[at + 1]) /\ q[at + 2] = Len(n.tr)
          /\ at + 2 <= Len(q) /\ Len(q) \in Nat
      BY <2>5, <3>2, <3>3, <3>4, <3>6
    <3> QED BY <3>1, <3>5, <3>7, EndSteps
  <2>10. \E lw : Good(o, n, lw)
    BY <2>4, <2>5, <2>8, <2>9, FrameOver
  <2> QED BY <2>3, <2>10
<1> QED BY <1>1, <1>2

-----------------------------------------------------------------------------
(* Bodies on a stream of their own, and calls, are over.                    *)
Closes(m, n) == n.tr = m.tr /\ n.match = << >> /\ n.todo = Replaced(m.todo, << >>) /\ n.ok = m.ok
LEMMA ScopeOver ==
  ASSUME NEW o, NEW m, NEW lv, Good(o, m, lv), m.todo # << >>, Top(m).do \in {"leave", "return"},
         NEW n, Typed(n), Closes(m, n),
         Len(m.todo) > 1 => Behind(lv[Len(m.todo) - 1], n.s),
         m.ok => \A q, b : Stands(b, m) => Steps(q, b, n, << >>)
  PROVE  \E lw : Good(o, n, lw)
<1>1. PICK none : none = << >> /\ IsSeq(none) /\ Len(none) = 0 /\ \A k \in 1..Len(none) : FALSE
  BY Nothing
<1>2. n.tr = m.tr /\ n.match = << >> /\ n.todo = Replaced(m.todo, none)
  BY <1>1 DEF Closes
<1>3. Keeps(m, n, none)
  <2>1. IsSeq(none)
    BY <1>1
  <2> QED BY <1>1, <1>2, <2>1, KeepsTrace
<1>4. ASSUME m.ok PROVE Followed(o, n)
  <2>1. \A q, b : Fits(q, n) /\ Fits(q, m) /\ Stands(b, m) => Steps(q, b, n, none)
    BY <1>1, <1>4
  <2>2. \A q : Fits(q, n) => Suits(q, Top(m))
    BY DEF Suits
  <2> QED BY <1>3, <1>4, <2>1, <2>2, FollowsOn
<1>5. n.ok => m.ok
  BY DEF Closes
<1>6. Patched(m, n) /\ n.todo = Replaced(m.todo, << >>)
  BY <1>3 DEF Keeps, Closes
<1> QED BY <1>2, <1>4, <1>5, <1>6, TurnOver

LEMMA LeaveTurn ==
  ASSUME NEW o, NEW m, NEW lv, Good(o, m, lv), m.todo # << >>, m.match = << >>, Top(m).do = "leave"
  PROVE  \E lw : Good(o, Turn(Pegs, m), lw)
<1> DEFINE f == Top(m)
           str == Named(m.str, f.str, m.s)
           e1 == [m EXCEPT !.s = f.s]
           e == [e1 EXCEPT !.str = str]
           n == Done(e)
<1>1. Turn(Pegs, m) = n
  <2>1. PegGoesOn(Pegs, m, f) = Leaves(m, f) /\ PegBacksOut(m, f) = Leaves(m, f)
    BY DEF PegGoesOn, PegBacksOut, Walks
  <2>2. Turn(Pegs, m) = Leaves(m, f)
    BY <2>1, TurnIs
  <2>3. [m EXCEPT !.s = f.s, !.str = Named(@, f.str, m.s)] = e
    <3>1. e1.str = m.str
      <4>1. Has(e1, m.ok, f.s, m.str, m.dep, m.tr, m.match, m.todo)
        BY TopIs, Forms
      <4> QED BY <4>1 DEF Has
    <3> QED BY <3>1
  <2> QED BY <2>2, <2>3 DEF Leaves
<1>2. IsStream(f.s)
  BY FrameIs
<1>3. Has(e1, m.ok, f.s, m.str, m.dep, m.tr, m.match, m.todo)
  BY TopIs, Forms
<1> HIDE DEF e1, str
<1>4. Has(e, m.ok, f.s, str, m.dep, m.tr, m.match, m.todo)
  <2>1. Plain(e1)
    BY <1>3 DEF Has
  <2>2. Has(e, e1.ok, e1.s, str, e1.dep, e1.tr, e1.match, e1.todo)
    BY <2>1, Forms
  <2> HIDE DEF e
  <2> QED BY <1>3, <2>2 DEF Has
<1> HIDE DEF e
<1>5. Has(n, m.ok, f.s, str, m.dep, m.tr, m.match, Replaced(m.todo, << >>))
  BY <1>4, DoneWith
<1> HIDE DEF n
<1>6. \A x \in DOMAIN str : IsStream(str[x])
  BY Extended, Parts DEF str
<1>7. Typed(n)
  BY <1>2, <1>5, <1>6, TypedPeg, Parts
<1>8. Closes(m, n) /\ n.s = f.s
  BY <1>5 DEF Has, Closes
<1>9. Len(m.todo) > 1 => Behind(lv[Len(m.todo) - 1], n.s)
  BY <1>8, TopIs DEF Under
<1>10. ASSUME NEW q, NEW b, Stands(b, m) PROVE Steps(q, b, n, << >>)
  <2>1. PICK g : g = Top(b)
    OBVIOUS
  <2>2. b.ti = Len(m.tr) /\ Mirrors(g, f) /\ IsB(b)
    BY <1>10, <2>1, StandsTop
  <2>3. g.do = "back" /\ Behind(g.s, f.s)
    BY <2>2 DEF Mirrors, ToDo
  <2>4. PICK d : d = Done(b)
    OBVIOUS
  <2>5. BindItem(Led(q), b, g) = [d EXCEPT !.s = g.s]
    BY <2>3, <2>4 DEF BindItem, Walks
  <2>6. HasB(d, b.s, b.ti, b.vals, b.lost, b.over, Replaced(b.todo, << >>))
    BY <2>2, <2>4, BindForms DEF Done
  <2>7. HasB([d EXCEPT !.s = g.s], g.s, b.ti, b.vals, b.lost, b.over, Replaced(b.todo, << >>))
    <3>1. IsB(d)
      BY <2>6 DEF HasB
    <3>2. HasB([d EXCEPT !.s = g.s], g.s, d.ti, d.vals, d.lost, d.over, d.todo)
      BY <3>1, BindForms
    <3> QED BY <2>6, <3>2 DEF HasB
  <2>8. ~Loses(Led(q), b, g) /\ ~ReadsOver(b, g)
    BY <2>3 DEF Loses, ReadsOver, Cells
  <2>9. IsSeq(<< >>) /\ Len(<< >>) = 0
    BY Few
  <2>10. b.ti = Len(n.tr) /\ Behind(g.s, n.s)
    BY <1>8, <2>2, <2>3 DEF Closes
  <2> QED BY <2>1, <2>5, <2>7, <2>8, <2>9, <2>10 DEF Steps
<1>11. \E lw : Good(o, n, lw)
  BY <1>7, <1>8, <1>9, <1>10, ScopeOver
<1> QED BY <1>1, <1>11

LEMMA ReturnTurn ==
  ASSUME NEW o, NEW m, NEW lv, Good(o, m, lv), m.todo # << >>, m.match = << >>, Top(m).do = "return"
  PROVE  \E lw : Good(o, Turn(Pegs, m), lw)
<1> DEFINE f == Top(m)
<1>1. CASE m.ok
  <2>1. PICK n : n = Done(m)
    OBVIOUS
  <2>2. Turn(Pegs, m) = n
    <3>1. PegGoesOn(Pegs, m, f) = n
      BY <2>1 DEF PegGoesOn, Walks
    <3> QED BY <1>1, <3>1, TurnIs
  <2>3. Has(n, m.ok, m.s, m.str, m.dep, m.tr, m.match, Replaced(m.todo, << >>))
    BY <2>1, TopIs, Forms DEF Done
  <2>4. Typed(n)
    BY <2>3, TypedPeg, Parts
  <2>5. Closes(m, n) /\ n.s = m.s
    BY <2>3 DEF Has, Closes
  <2>6. Len(m.todo) > 1 => Behind(lv[Len(m.todo) - 1], n.s)
    BY <2>5, StillBehind
  <2>7. ASSUME NEW q, NEW b, Stands(b, m) PROVE Steps(q, b, n, << >>)
    <3>1. b.ti = Len(m.tr) /\ Mirrors(Top(b), f) /\ Behind(b.s, m.s) /\ IsB(b)
      BY <2>7, StandsTop
    <3>2. Top(b) = Returned
      BY <3>1 DEF Mirrors, ToDo
    <3>3. Top(b).do = "returned"
      BY <3>2 DEF Returned
    <3>4. b.ti = Len(n.tr) /\ Behind(b.s, n.s)
      BY <2>5, <3>1 DEF Closes
    <3> QED BY <3>1, <3>3, <3>4, OverSteps
  <2>8. \E lw : Good(o, n, lw)
    BY <2>4, <2>5, <2>6, <2>7, ScopeOver
  <2> QED BY <2>2, <2>8
<1>2. CASE ~m.ok
  <2>1. PICK e : e = [m EXCEPT !.s = f.s]
    OBVIOUS
  <2>2. PICK n : n = Done(e)
    OBVIOUS
  <2>3. Turn(Pegs, m) = n
    <3>1. PegBacksOut(m, f) = n
      BY <2>1, <2>2 DEF PegBacksOut
    <3> QED BY <1>2, <3>1, TurnIs
  <2>4. Has(e, m.ok, f.s, m.str, m.dep, m.tr, m.match, m.todo)
    BY <2>1, TopIs, Forms
  <2>5. Has(n, m.ok, f.s, m.str, m.dep, m.tr, m.match, Replaced(m.todo, << >>))
    BY <2>2, <2>4, DoneWith
  <2>6. Typed(n)
    BY <2>5, TypedPeg, Parts, FrameIs
  <2>7. Closes(m, n) /\ n.s = f.s
    BY <2>5 DEF Has, Closes
  <2>8. Len(m.todo) > 1 => Behind(lv[Len(m.todo) - 1], n.s)
    BY <2>7, TopIs DEF Under
  <2>9. \E lw : Good(o, n, lw)
    BY <1>2, <2>6, <2>7, <2>8, ScopeOver
  <2> QED BY <2>3, <2>9
<1> QED BY <1>1, <1>2

-----------------------------------------------------------------------------
(* Failures.                                                               *)
LEMMA TriesBefore ==
  ASSUME NEW o, NEW m, NEW lv, Good(o, m, lv), m.todo # << >>, Handles(Top(m)),
         NEW n, NEW items, Keeps(m, n, items), NEW q, Fits(q, n),
         Top(m).do = "more" => q[Top(m).at + 1] \in Int /\ q[Top(m).at + 1] >= Top(m).i - 1
  PROVE  \E b : Reaches(Led(q), o, b) /\ StandsAt(b, m.todo, Len(m.todo), lv[Len(m.todo)])
<1>0. PICK L : L = Len(m.todo)
  OBVIOUS
<1>1. L \in Nat \ {0} /\ Len(m.tr) \in Nat /\ Top(m) = m.todo[L]
  BY <1>0, TopIs
<1>2. Level(o, m, L, lv[L])
  <2>1. Levels(o, m, lv) /\ L \in 1..Len(m.todo)
    BY <1>0, <1>1 DEF Good
  <2> QED BY <1>1, <2>1 DEF Levels
<1>3. PICK x \in 0..Len(m.tr) :
        \A r : Tries(r, m, L, x) => \E b : Reaches(Led(r), o, b) /\ StandsAt(b, m.todo, L, lv[L])
  BY <1>2 DEF Level
<1>4. /\ IsSeq(n.todo) /\ Len(n.todo) = Len(m.todo) - 1 + Len(items)
      /\ \A j \in 1..(Len(m.todo) - 1) : n.todo[j] = m.todo[j]
  BY KeptBelow
<1>5. Len(n.todo) \in Nat /\ Len(items) \in Nat
  BY <1>4, SeqIs DEF Keeps
<1>6. Agrees(q, m, L, x)
  <2>1. PICK z, k : z = Len(n.tr) /\ k = Len(n.todo)
    OBVIOUS
  <2>2. z \in Nat /\ z >= x
    BY <1>1, <2>1 DEF Keeps, Patched
  <2>3. Agrees(q, n, k, z) /\ k \in 0..Len(n.todo)
    BY <1>5, <2>1 DEF Fits
  <2> QED BY <1>0, <2>2, <2>3, AgreesBefore
<1>7. \A j \in 1..(L - 1) : Suits(q, m.todo[j])
  <2>1. \A j \in 1..(L - 1) : j \in 1..Len(n.todo) /\ n.todo[j] = m.todo[j]
    BY <1>0, <1>1, <1>4, <1>5
  <2> QED BY <2>1 DEF Fits
<1>8. Tries(q, m, L, x)
  BY <1>1, <1>6, <1>7 DEF Tries
<1> QED BY <1>0, <1>3, <1>8

(* Where the second pass stands then.                                      *)
LEMMA StandsAtTop ==
  ASSUME NEW o, NEW m, NEW lv, Good(o, m, lv), m.todo # << >>,
         NEW b, StandsAt(b, m.todo, Len(m.todo), lv[Len(m.todo)])
  PROVE  /\ IsBind(b) /\ IsB(b) /\ Len(b.todo) = Len(m.todo) /\ Mirrored(b, m.todo, Len(m.todo) - 1)
         /\ Behind(b.s, m.s) /\ Behind(b.s, lv[Len(m.todo)]) /\ b.ti \in Nat
         /\ Top(m).do \in {"alternative", "maybe"} =>
              b.ti = Top(m).at /\ Top(b).do = "parse" /\ Top(b).p = Top(m).p
         /\ Top(m).do = "more" => Top(b) = Elements(Top(m).p, Top(m).i - 1, Top(m).at)
<1>0. PICK L : L = Len(m.todo)
  OBVIOUS
<1>1. Top(m) = m.todo[L] /\ Behind(lv[L], m.s)
  BY <1>0, TopIs
<1>2. StandsAt(b, m.todo, L, lv[L])
  BY <1>0
<1>3. IsBind(b) /\ Len(b.todo) = L /\ Mirrored(b, m.todo, L - 1) /\ Behind(b.s, lv[L])
  BY <1>2 DEF StandsAt
<1>4. Behind(b.s, m.s)
  BY <1>1, <1>3, BehindTrans
<1>5. IsB(b) /\ b.ti \in Nat /\ Top(b) = b.todo[L]
  BY <1>3 DEF IsBind, IsB, Top
<1>6. /\ Top(m).do \in {"alternative", "maybe"} =>
           b.ti = Top(m).at /\ Top(b).do = "parse" /\ Top(b).p = Top(m).p
      /\ Top(m).do = "more" => Top(b) = Elements(Top(m).p, Top(m).i - 1, Top(m).at)
  BY <1>1, <1>2, <1>5 DEF StandsAt
<1> QED BY <1>0, <1>3, <1>4, <1>5, <1>6

LEMMA FollowsAgain ==
  ASSUME NEW o, NEW m, NEW lv, Good(o, m, lv), m.todo # << >>, Handles(Top(m)),
         NEW n, NEW items, Keeps(m, n, items),
         \A q : Fits(q, n) /\ Top(m).do = "more" =>
           q[Top(m).at + 1] \in Int /\ q[Top(m).at + 1] >= Top(m).i - 1,
         \A q, b : Fits(q, n) /\ StandsAt(b, m.todo, Len(m.todo), lv[Len(m.todo)]) => Steps(q, b, n, items)
  PROVE  Followed(o, n)
<1> SUFFICES ASSUME NEW q, Fits(q, n) PROVE \E d : Reaches(Led(q), o, d) /\ Stands(d, n)
  BY DEF Followed
<1>1. PICK b : Reaches(Led(q), o, b) /\ StandsAt(b, m.todo, Len(m.todo), lv[Len(m.todo)])
  BY TriesBefore
<1>2. Steps(q, b, n, items)
  BY <1>1
<1>3. IsBind(b) /\ Len(b.todo) = Len(m.todo) /\ Mirrored(b, m.todo, Len(m.todo) - 1)
  BY <1>1, StandsAtTop
<1>4. IsSeq(m.todo) /\ IsSeq(items) /\ n.todo = Replaced(m.todo, items) /\ Len(n.tr) \in Nat
  BY TopIs DEF Keeps, Patched
<1> QED BY <1>1, <1>2, <1>3, <1>4, OneMore

LEMMA TriedOver ==
  ASSUME NEW o, NEW m, NEW lv, Good(o, m, lv), m.todo # << >>, Top(m).do \in {"more", "maybe"},
         NEW n, NEW at \in Nat, NEW c \in Nat, NEW new, FillsIn(m, n, at, c, new),
         n.ok => \A q : Fits(q, n) /\ Top(m).do = "more" =>
                   q[Top(m).at + 1] \in Int /\ q[Top(m).at + 1] >= Top(m).i - 1,
         n.ok => \A q, b : Fits(q, n) /\ StandsAt(b, m.todo, Len(m.todo), lv[Len(m.todo)]) =>
                   Steps(q, b, n, << >>)
  PROVE  \E lw : Good(o, n, lw)
<1>1. Typed(n) /\ n.s = m.s /\ n.match = << >> /\ n.todo = Replaced(m.todo, << >>)
  BY FilledIn
<1>2. PICK none : none = << >> /\ Keeps(m, n, none)
  BY FilledIn
<1>3. ASSUME n.ok PROVE Followed(o, n)
  <2>1. Handles(Top(m))
    BY DEF Handles
  <2>2. \A q, b : Fits(q, n) /\ StandsAt(b, m.todo, Len(m.todo), lv[Len(m.todo)]) => Steps(q, b, n, none)
    BY <1>2, <1>3
  <2> QED BY <1>2, <1>3, <2>1, <2>2, FollowsAgain
<1>4. Len(m.todo) > 1 => Behind(lv[Len(m.todo) - 1], n.s)
  BY <1>1, StillBehind
<1>5. Patched(m, n)
  BY <1>2 DEF Keeps
<1> QED BY <1>1, <1>3, <1>4, <1>5, TurnOver

LEMMA MaybeFailed ==
  ASSUME NEW o, NEW m, NEW lv, Good(o, m, lv), m.todo # << >>, ~m.ok, m.match = << >>,
         Top(m).do = "maybe"
  PROVE  \E lw : Good(o, Turn(Pegs, m), lw)
<1> DEFINE f == Top(m)
<1>0. PICK at, k : at = f.at /\ k = Len(m.tr)
  OBVIOUS
<1>1. at \in Nat /\ at + 1 <= k /\ f.p.op = "optional" /\ Own(f) = {at + 1} /\ k \in Nat
  BY <1>0, FrameIs
<1>2. PICK r : r = SetCell(m, at, k)
  OBVIOUS
<1>3. PICK e : e = [r EXCEPT !.ok = TRUE]
  OBVIOUS
<1>4. PICK n : n = Done(e)
  OBVIOUS
<1>5. Turn(Pegs, m) = n
  <2>1. PegBacksOut(m, f) = Done([SetCell(m, f.at, TracePos(m)) EXCEPT !.ok = TRUE])
    BY DEF PegBacksOut
  <2>2. PegBacksOut(m, f) = n
    BY <1>0, <1>2, <1>3, <1>4, <2>1 DEF TracePos
  <2> QED BY <2>2, TurnIs
<1>6. PICK new : /\ Has(r, m.ok, m.s, m.str, m.dep, new, << >>, m.todo)
                 /\ Filled(m.tr, at, 1, new) /\ new[at + 1] = k /\ (at + 1)..(at + 1) \subseteq Own(f)
  <2>1. \E new : /\ Has(SetCell(m, Top(m).at, k), m.ok, m.s, m.str, m.dep, new, << >>, m.todo)
                 /\ Filled(m.tr, Top(m).at, 1, new) /\ new[Top(m).at + 1] = k
                 /\ (Top(m).at + 1)..(Top(m).at + 1) \subseteq Own(Top(m))
    BY OneFilled
  <2> QED BY <1>0, <1>2, <2>1
<1>7. Has(e, TRUE, m.s, m.str, m.dep, new, << >>, m.todo)
  <2>1. Plain(r)
    BY <1>6 DEF Has
  <2>2. Has(e, TRUE, r.s, r.str, r.dep, r.tr, r.match, r.todo)
    BY <1>3, <2>1, Forms
  <2> QED BY <1>6, <2>2 DEF Has
<1>8. Has(n, TRUE, m.s, m.str, m.dep, new, << >>, Replaced(m.todo, << >>))
  BY <1>4, <1>7, DoneWith
<1>9. FillsIn(m, n, at, 1, new)
  <2>1. n.ok = TRUE
    BY <1>8 DEF Has
  <2>2. n.ok \in BOOLEAN /\ Has(n, n.ok, m.s, m.str, m.dep, new, << >>, Replaced(m.todo, << >>))
    BY <1>8, <2>1
  <2> QED BY <1>6, <2>2 DEF FillsIn
<1>10. n.s = m.s /\ Len(n.tr) = k
  BY <1>0, <1>1, <1>9, FilledIn
<1>11. ASSUME NEW q, Fits(q, n) PROVE q[at + 1] = k /\ Len(q) \in Nat /\ Len(q) >= k
  <2>0. at \in Nat
    BY <1>1
  <2>1. \A y \in Own(f) : q[y] = new[y]
    BY <1>9, <1>11, <2>0, FilledCells
  <2>2. Len(q) \in Nat /\ Len(q) >= Len(n.tr)
    BY <1>11 DEF Fits, Agrees
  <2> QED BY <1>1, <1>6, <1>10, <2>1, <2>2
<1>12. ASSUME NEW q, NEW b, Fits(q, n), StandsAt(b, m.todo, Len(m.todo), lv[Len(m.todo)])
       PROVE  Steps(q, b, n, << >>)
  <2>1. /\ IsB(b) /\ Behind(b.s, n.s) /\ b.ti = at /\ Top(b).do = "parse" /\ Top(b).p = f.p
    BY <1>0, <1>10, <1>12, StandsAtTop
  <2>2. PICK d : d = Done(b)
    OBVIOUS
  <2>3. Cell(Led(q), b) = k
    BY <1>11, <1>12, <2>1 DEF Cell, Led
  <2>4. BindItem(Led(q), b, Top(b)) = [d EXCEPT !.ti = k]
    <3>1. BindItem(Led(q), b, Top(b)) = BindParser(Led(q), b, f.p)
      BY <1>1, <2>1 DEF BindItem, Walks, Walked
    <3>2. BindParser(Led(q), b, f.p) = [d EXCEPT !.ti = k]
      <4>1. ~(Cell(Led(q), b) < 0)
        BY <1>1, <2>3
      <4> QED BY <1>1, <2>2, <2>3, <4>1 DEF BindParser
    <3> QED BY <3>1, <3>2
  <2>5. HasB(d, b.s, b.ti, b.vals, b.lost, b.over, Replaced(b.todo, << >>))
    BY <2>1, <2>2, BindForms DEF Done
  <2>6. HasB([d EXCEPT !.ti = k], b.s, k, b.vals, b.lost, b.over, Replaced(b.todo, << >>))
    <3>1. IsB(d)
      BY <2>5 DEF HasB
    <3>2. HasB([d EXCEPT !.ti = k], d.s, k, d.vals, d.lost, d.over, d.todo)
      BY <3>1, BindForms
    <3> QED BY <2>5, <3>2 DEF HasB
  <2>7. ~Loses(Led(q), b, Top(b)) /\ ~ReadsOver(b, Top(b))
    <3>1. Cells(Top(b)) = 1
      BY <1>1, <2>1 DEF Cells
    <3>2. ~(b.ti + 1 > Len(q))
      BY <1>1, <1>11, <1>12, <2>1
    <3> QED BY <1>1, <2>1, <3>1, <3>2 DEF Loses, ReadsOver, Led
  <2>8. IsSeq(<< >>) /\ Len(<< >>) = 0
    BY Few
  <2> QED BY <1>10, <2>1, <2>4, <2>6, <2>7, <2>8 DEF Steps
<1>13. \E lw : Good(o, n, lw)
  <2>1. Top(m).do # "more"
    OBVIOUS
  <2> QED BY <1>1, <1>9, <1>12, <2>1, TriedOver
<1> QED BY <1>5, <1>13

LEMMA MoreFailed ==
  ASSUME NEW o, NEW m, NEW lv, Good(o, m, lv), m.todo # << >>, ~m.ok, m.match = << >>,
         Top(m).do = "more"
  PROVE  \E lw : Good(o, Turn(Pegs, m), lw)
<1> DEFINE f == Top(m)
<1>0. PICK at, i, k : at = f.at /\ i = f.i - 1 /\ k = Len(m.tr)
  OBVIOUS
<1>1. at \in Nat /\ at + 2 <= k /\ f.p \in Parsers /\ f.p.op = "array" /\ Own(f) = {at + 1, at + 2}
      /\ i \in Nat /\ k \in Nat
  <2>1. f.i \in Nat \ {0} /\ f.at \in Nat /\ f.at + 2 <= Len(m.tr) /\ f.p \in Parsers /\ f.p.op = "array"
        /\ Own(f) = {f.at + 1, f.at + 2} /\ Len(m.tr) \in Nat
    BY FrameIs
  <2> QED BY <1>0, <2>1
<1>2. PICK ok : ok = (i >= f.p.min)
  OBVIOUS
<1>3. ok \in BOOLEAN
  BY <1>2
<1>4. PICK r : r = SetCells(m, at, i, k)
  OBVIOUS
<1>5. PICK e : e = [r EXCEPT !.ok = ok]
  OBVIOUS
<1>6. PICK n : n = Done(e)
  OBVIOUS
<1>7. Turn(Pegs, m) = n
  <2>1. PegBacksOut(m, f) = Done([SetCells(m, f.at, f.i - 1, TracePos(m)) EXCEPT !.ok = f.i - 1 >= f.p.min])
    BY DEF PegBacksOut
  <2>2. PegBacksOut(m, f) = n
    BY <1>0, <1>2, <1>4, <1>5, <1>6, <2>1 DEF TracePos
  <2> QED BY <2>2, TurnIs
<1>8. PICK new : /\ Has(r, m.ok, m.s, m.str, m.dep, new, m.match, m.todo)
                 /\ Filled(m.tr, at, 2, new) /\ new[at + 1] = i /\ new[at + 2] = k
  <2>1. Plain(m) /\ IsSeq(m.tr) /\ at \in Nat /\ at + 2 <= Len(m.tr)
    BY <1>0, <1>1, TopIs
  <2> QED BY <1>4, <2>1, CellsSet
<1>9. Has(e, ok, m.s, m.str, m.dep, new, << >>, m.todo)
  <2>1. Plain(r)
    BY <1>8 DEF Has
  <2>2. Has(e, ok, r.s, r.str, r.dep, r.tr, r.match, r.todo)
    BY <1>5, <2>1, Forms
  <2> QED BY <1>8, <2>2 DEF Has
<1>10. Has(n, ok, m.s, m.str, m.dep, new, << >>, Replaced(m.todo, << >>))
  BY <1>6, <1>9, DoneWith
<1>11. FillsIn(m, n, at, 2, new)
  <2>1. n.ok = ok
    BY <1>10 DEF Has
  <2>2. n.ok \in BOOLEAN /\ Has(n, n.ok, m.s, m.str, m.dep, new, << >>, Replaced(m.todo, << >>))
    BY <1>3, <1>10, <2>1
  <2>3. (at + 1)..(at + 2) \subseteq Own(f)
    BY <1>1
  <2> QED BY <1>8, <2>2, <2>3 DEF FillsIn
<1>12. n.s = m.s /\ Len(n.tr) = k
  <2>1. at \in Nat
    BY <1>1
  <2> QED BY <1>0, <1>11, <2>1, FilledIn
<1>13. ASSUME NEW q, Fits(q, n) PROVE q[at + 1] = i /\ q[at + 2] = k /\ Len(q) \in Nat /\ Len(q) >= k
  <2>0. at \in Nat
    BY <1>1
  <2>1. \A y \in Own(f) : q[y] = new[y]
    BY <1>11, <1>13, <2>0, FilledCells
  <2>2. Len(q) \in Nat /\ Len(q) >= Len(n.tr)
    BY <1>13 DEF Fits, Agrees
  <2> QED BY <1>1, <1>8, <1>12, <2>1, <2>2
<1>14. ASSUME NEW q, NEW b, Fits(q, n), StandsAt(b, m.todo, Len(m.todo), lv[Len(m.todo)])
       PROVE  Steps(q, b, n, << >>)
  <2>1. IsB(b) /\ Behind(b.s, n.s) /\ Top(b) = Elements(f.p, f.i - 1, f.at)
    BY <1>12, <1>14, StandsAtTop
  <2>2. PICK p : p = f.p
    OBVIOUS
  <2>3. Top(b) = Elements(p, i, at)
    BY <1>0, <2>1, <2>2
  <2>4. q[at + 1] = i /\ q[at + 2] = Len(n.tr) /\ Len(q) \in Nat /\ at + 2 <= Len(q)
    BY <1>1, <1>12, <1>13, <1>14
  <2>5. ~(i < q[at + 1]) /\ at \in Nat
    BY <1>1, <2>4
  <2> QED BY <2>1, <2>3, <2>4, <2>5, EndSteps
<1>15. \A q : Fits(q, n) => q[f.at + 1] \in Int /\ q[f.at + 1] >= f.i - 1
  BY <1>0, <1>1, <1>13
<1>16. \E lw : Good(o, n, lw)
  <2>1. at \in Nat
    BY <1>1
  <2> QED BY <1>11, <1>14, <1>15, <2>1, TriedOver
<1> QED BY <1>7, <1>16

(* The current stream is put back to where the choice began.                *)
LEMMA PutBack ==
  ASSUME NEW o, NEW m, NEW lv, Good(o, m, lv), m.todo # << >>, Top(m).do = "alternative"
  PROVE  Reposition(m.s, Top(m).back) = lv[Len(m.todo)] /\ Top(m).back = lv[Len(m.todo)].pos
<1>0. PICK L : L = Len(m.todo)
  OBVIOUS
<1>1. L \in Nat \ {0} /\ Top(m) = m.todo[L] /\ Behind(lv[L], m.s)
  BY <1>0, TopIs
<1>2. Top(m).back = lv[L].pos
  <2>1. Chain(m, lv) /\ L \in 1..Len(m.todo)
    BY <1>0, <1>1 DEF Good
  <2> QED BY <1>1, <2>1 DEF Chain
<1>3. Reposition(m.s, lv[L].pos) = lv[L]
  <2>1. PICK p : p = lv[L].pos
    OBVIOUS
  <2>2. Alike(m.s, lv[L]) /\ p \in Places(lv[L])
    BY <1>1, <2>1 DEF Behind, Alike, IsStream
  <2>3. Reposition(m.s, p) = lv[L]
    BY <2>1, <2>2, Moved
  <2> QED BY <2>1, <2>3
<1> QED BY <1>0, <1>2, <1>3

LEMMA LastFailed ==
  ASSUME NEW o, NEW m, NEW lv, Good(o, m, lv), m.todo # << >>, ~m.ok, m.match = << >>,
         Top(m).do = "alternative", Top(m).i = Len(Top(m).p.ps)
  PROVE  \E lw : Good(o, Turn(Pegs, m), lw)
<1> DEFINE f == Top(m)
<1>0. PICK s : s = lv[Len(m.todo)]
  OBVIOUS
<1>1. Reposition(m.s, f.back) = s /\ IsStream(s)
  BY <1>0, PutBack, TopIs
<1>2. PICK e : e = [m EXCEPT !.s = s]
  OBVIOUS
<1>3. PICK n : n = Done(e)
  OBVIOUS
<1>4. Turn(Pegs, m) = n
  <2>1. PegBacksOut(m, f) = NextAlternative(m, f)
    BY DEF PegBacksOut
  <2>2. [m EXCEPT !.s = Reposition(@, f.back)] = e
    BY <1>1, <1>2
  <2>3. NextAlternative(m, f) = n
    BY <1>3, <2>2 DEF NextAlternative
  <2> QED BY <2>1, <2>3, TurnIs
<1>5. Has(e, m.ok, s, m.str, m.dep, m.tr, m.match, m.todo)
  BY <1>2, TopIs, Forms
<1>6. Has(n, m.ok, s, m.str, m.dep, m.tr, m.match, Replaced(m.todo, << >>))
  BY <1>3, <1>5, DoneWith
<1>7. Typed(n)
  BY <1>1, <1>6, TypedPeg, Parts
<1>8. n.s = s /\ n.tr = m.tr /\ n.match = << >> /\ n.todo = Replaced(m.todo, << >>)
  BY <1>6 DEF Has
<1>9. ~n.ok
  BY <1>6 DEF Has
<1>10. Patched(m, n)
  BY <1>8, TopIs DEF Patched
<1>11. Len(m.todo) > 1 => Behind(lv[Len(m.todo) - 1], n.s)
  BY <1>0, <1>8, StillBehind
<1>12. \E lw : Good(o, n, lw)
  BY <1>7, <1>8, <1>9, <1>10, <1>11, TurnOver
<1> QED BY <1>4, <1>12

LEMMA OtherFailed ==
  ASSUME NEW o, NEW m, NEW lv, Good(o, m, lv), m.todo # << >>, ~m.ok, m.match = << >>,
         Top(m).do \notin {"alternative", "more", "maybe", "leave", "return"}
  PROVE  \E lw : Good(o, Turn(Pegs, m), lw)
<1>1. PICK n : n = Done(m)
  OBVIOUS
<1>2. Turn(Pegs, m) = n
  <2>1. PegBacksOut(m, Top(m)) = n
    BY <1>1 DEF PegBacksOut
  <2> QED BY <2>1, TurnIs
<1>3. Has(n, m.ok, m.s, m.str, m.dep, m.tr, m.match, Replaced(m.todo, << >>))
  BY <1>1, TopIs, Forms DEF Done
<1>4. Typed(n)
  BY <1>3, TypedPeg, Parts
<1>5. n.s = m.s /\ n.tr = m.tr /\ n.match = << >> /\ n.todo = Replaced(m.todo, << >>)
  BY <1>3 DEF Has
<1>6. ~n.ok
  BY <1>3 DEF Has
<1>7. Patched(m, n)
  BY <1>5, TopIs DEF Patched
<1>8. Len(m.todo) > 1 => Behind(lv[Len(m.todo) - 1], n.s)
  BY <1>5, StillBehind
<1>9. \E lw : Good(o, n, lw)
  BY <1>4, <1>5, <1>6, <1>7, <1>8, TurnOver
<1> QED BY <1>2, <1>9

LEMMA NextFailed ==
  ASSUME NEW o, NEW m, NEW lv, Good(o, m, lv), m.todo # << >>, ~m.ok, m.match = << >>,
         Top(m).do = "alternative", Top(m).i # Len(Top(m).p.ps)
  PROVE  \E lw : Good(o, Turn(Pegs, m), lw)
<1> DEFINE f == Top(m)
           p == f.p
<1>0. PICK s, i, k, L : s = lv[Len(m.todo)] /\ i = f.i + 1 /\ k = Len(m.tr) /\ L = Len(m.todo)
  OBVIOUS
<1>1. Reposition(m.s, f.back) = s /\ IsStream(s) /\ f.back = s.pos
  BY <1>0, PutBack, TopIs
<1>2. p \in Parsers /\ p.op \in {"choice", "nunion"} /\ f.at \in Nat /\ f.at + 2 <= k /\ k \in Nat
      /\ Own(f) = {f.at + 1, f.at + 2} /\ f.i \in 1..Len(p.ps)
  BY <1>0, FrameIs
<1>3. i \in 1..Len(p.ps) /\ p.ps[i] \in Parsers
  <2>1. Len(p.ps) \in Nat \ {0} /\ \A j \in 1..Len(p.ps) : p.ps[j] \in Parsers
    BY <1>2, ChoiceIs
  <2>2. i \in 1..Len(p.ps)
    BY <1>0, <1>2, <2>1
  <2> QED BY <2>1, <2>2
<1>4. PICK fr : fr = Alternative(p, i, f.back, f.at, k)
  OBVIOUS
<1>5. /\ fr.do = "alternative" /\ fr.p = p /\ fr.i = i /\ fr.back = f.back /\ fr.at = f.at
      /\ fr.from = k
  BY <1>4 DEF Alternative
<1>6. IsFrame(fr) /\ Own(fr) = Own(f)
  <2>1. f.back \in Nat
    BY <1>1, PosIsNat
  <2>2. Own(fr) = {f.at + 1, f.at + 2}
    BY <1>5 DEF Own
  <2> QED BY <1>2, <1>3, <1>5, <2>1, <2>2 DEF IsFrame
<1>7. PICK items : items = <<fr, Parse(p.ps[i])>>
  OBVIOUS
<1>8. /\ IsSeq(items) /\ Len(items) = 2 /\ items[1] = fr /\ items[2] = Parse(p.ps[i]) /\ items # << >>
      /\ \A j \in 1..Len(items) : j = 1 \/ j = 2
      /\ \A j \in 2..Len(items) : j = 2
  BY <1>7, Two
<1>9. ToDo(items[2]) /\ Own(items[2]) = {}
  BY <1>3, <1>8, ParseToDo
<1>10. PICK e1 : e1 = [m EXCEPT !.s = s]
  OBVIOUS
<1>11. PICK e : e = [e1 EXCEPT !.ok = TRUE]
  OBVIOUS
<1>12. PICK n : n = Then(e, items)
  OBVIOUS
<1>13. Turn(Pegs, m) = n
  <2>1. PegBacksOut(m, f) = NextAlternative(m, f)
    BY DEF PegBacksOut
  <2>2. [m EXCEPT !.s = Reposition(@, f.back)] = e1
    BY <1>1, <1>10
  <2>3. <<Alternative(f.p, f.i + 1, f.back, f.at, TracePos(m)), Parse(f.p.ps[f.i + 1])>> = items
    BY <1>0, <1>4, <1>7 DEF TracePos
  <2>4. NextAlternative(m, f) = n
    BY <1>11, <1>12, <2>2, <2>3 DEF NextAlternative
  <2> QED BY <2>1, <2>4, TurnIs
<1>14. Has(n, TRUE, s, m.str, m.dep, m.tr, m.match, Replaced(m.todo, items))
  <2>1. Has(e1, m.ok, s, m.str, m.dep, m.tr, m.match, m.todo)
    BY <1>10, TopIs, Forms
  <2>2. Has(e, TRUE, s, m.str, m.dep, m.tr, m.match, m.todo)
    <3>1. Plain(e1)
      BY <2>1 DEF Has
    <3>2. Has(e, TRUE, e1.s, e1.str, e1.dep, e1.tr, e1.match, e1.todo)
      BY <1>11, <3>1, Forms
    <3> QED BY <2>1, <3>2 DEF Has
  <2>3. Plain(e)
    BY <2>2 DEF Has
  <2>4. Has(n, e.ok, e.s, e.str, e.dep, e.tr, e.match, Replaced(e.todo, items))
    BY <1>12, <2>3, Forms
  <2> QED BY <2>2, <2>4 DEF Has
<1>15. n.s = s /\ n.tr = m.tr /\ n.match = << >> /\ n.todo = Replaced(m.todo, items)
  BY <1>14 DEF Has
<1>16. Typed(n)
  <2>1. TRUE \in BOOLEAN
    OBVIOUS
  <2> QED BY <1>1, <1>14, <2>1, TypedPeg, Parts
<1>17. Keeps(m, n, items)
  <2>1. Patched(m, n)
    BY <1>15, TopIs DEF Patched
  <2>2. \A y \in Own(items[1]) : y \in Int /\ y \in Own(f)
    <3>1. Own(items[1]) = Own(f)
      BY <1>6, <1>8
    <3> QED BY <1>2, <3>1
  <2>3. \A j \in 1..Len(items) : \A y \in Own(items[j]) : y \in Int /\ (y > Len(m.tr) \/ y \in Own(Top(m)))
    BY <1>8, <1>9, <2>2
  <2>4. IsSeq(items)
    BY <1>8
  <2> QED BY <1>15, <2>1, <2>3, <2>4 DEF Keeps
<1>18. /\ Len(n.todo) = L + 1 /\ n.todo[L] = fr /\ n.todo[L + 1] = items[2] /\ L \in Nat \ {0}
       /\ \A j \in 1..(L - 1) : n.todo[j] = m.todo[j]
       /\ f = m.todo[L]
  <2>1. L \in Nat \ {0} /\ f = m.todo[L]
    BY <1>0, TopIs
  <2>2. Len(n.todo) = L - 1 + 2
    <3>1. Len(n.todo) = Len(m.todo) - 1 + Len(items)
      BY <1>17, KeptLen
    <3> QED BY <1>0, <1>8, <3>1
  <2>3. \A j \in 1..(L - 1) : n.todo[j] = m.todo[j]
    BY <1>0, <1>17, KeptBelow
  <2>4. \A j \in 1..Len(items) : n.todo[L - 1 + j] = items[j]
    BY <1>0, <1>17, KeptBelow
  <2>5. n.todo[L - 1 + 1] = fr /\ n.todo[L - 1 + 2] = items[2]
    BY <1>8, <2>4
  <2> QED BY <2>1, <2>2, <2>3, <2>5
<1>19. Level(o, n, L, s)
  <2>1. Level(o, m, L, s)
    <3>1. Levels(o, m, lv) /\ L \in 1..Len(m.todo)
      BY <1>0, <1>18 DEF Good
    <3>2. Handles(m.todo[L])
      BY <1>18 DEF Handles
    <3> QED BY <1>0, <3>1, <3>2 DEF Levels
  <2>2. PICK x \in 0..Len(m.tr) :
          \A q : Tries(q, m, L, x) => \E b : Reaches(Led(q), o, b) /\ StandsAt(b, m.todo, L, s)
    BY <2>1 DEF Level
  <2>3. x \in 0..Len(n.tr)
    BY <1>15
  <2>4. \A j \in (L + 1)..Len(n.todo) : \A y \in Own(n.todo[j]) : y > x
    BY <1>9, <1>18
  <2>5. ASSUME NEW q, Tries(q, n, L, x)
        PROVE  \E b : Reaches(Led(q), o, b) /\ StandsAt(b, n.todo, L, s)
    <3>1. \A j \in 1..L : Own(n.todo[j]) = Own(m.todo[j])
      BY <1>6, <1>18
    <3>2. Agrees(q, m, L, x)
      BY <1>15, <2>5, <3>1 DEF Tries, Agrees
    <3>3. \A j \in 1..(L - 1) : Suits(q, m.todo[j])
      BY <1>18, <2>5 DEF Tries
    <3>4. Tries(q, m, L, x)
      BY <1>18, <3>2, <3>3 DEF Tries
    <3>5. PICK b : Reaches(Led(q), o, b) /\ StandsAt(b, m.todo, L, s)
      BY <2>2, <3>4
    <3>6. Mirrored(b, n.todo, L - 1)
      BY <1>18, <3>5 DEF StandsAt, Mirrored
    <3>7. IsBind(b) /\ Len(b.todo) = L /\ Behind(b.s, s)
          /\ b.ti = f.at /\ b.todo[L].do = "parse" /\ b.todo[L].p = f.p
      BY <1>18, <3>5 DEF StandsAt
    <3>8. StandsAt(b, n.todo, L, s)
      BY <1>5, <1>18, <3>6, <3>7 DEF StandsAt
    <3> QED BY <3>5, <3>8
  <2> QED BY <2>3, <2>4, <2>5 DEF Level
<1>20. Followed(o, n)
  <2>1. ASSUME NEW q, NEW b, Fits(q, n), StandsAt(b, m.todo, Len(m.todo), lv[Len(m.todo)])
        PROVE  Steps(q, b, n, items)
    <3>1. /\ IsB(b) /\ b.ti = f.at /\ b.ti \in Nat /\ Top(b).do = "parse" /\ Top(b).p = p
          /\ Behind(b.s, n.s)
      BY <1>0, <1>15, <2>1, StandsAtTop
    <3>2. Suits(q, fr)
      BY <1>8, <1>17, <2>1, Grafted
    <3>3. q[b.ti + 1] = p.tags[i] /\ q[b.ti + 2] = Len(n.tr)
      BY <1>0, <1>5, <1>15, <3>1, <3>2 DEF Suits
    <3>4. Len(q) \in Nat /\ Len(q) >= b.ti + 2
      <4>1. Len(q) \in Nat /\ Len(q) >= k
        BY <1>0, <1>15, <2>1 DEF Fits, Agrees
      <4> QED BY <1>2, <3>1, <4>1
    <3>5. PICK back, at : back = f.back /\ at = f.at
      OBVIOUS
    <3>6. p \in Parsers /\ p.op \in {"choice", "nunion"}
      BY <1>2
    <3>7. Steps(q, b, n, <<Alternative(p, i, back, at, k), Parse(p.ps[i])>>)
      BY <1>3, <3>1, <3>3, <3>4, <3>6, ChoiceSteps
    <3> QED BY <1>4, <1>7, <3>5, <3>7
  <2>2. Handles(f) /\ f.do # "more"
    BY DEF Handles
  <2> QED BY <1>17, <2>1, <2>2, FollowsAgain
<1>21. Behind(s, n.s)
  BY <1>1, <1>15, BehindItself
<1>22. Len(m.todo) > 1 => Under(lv[Len(m.todo) - 1], fr, s)
  BY <1>0, <1>5, StillBehind DEF Under
<1>23. \E lw : Good(o, n, lw)
  <2>1. Own(items[1]) \subseteq 1..Len(n.tr)
    <3>1. Own(items[1]) = Own(f)
      BY <1>6, <1>8
    <3> QED BY <1>15, <3>1, TopIs
  <2>2. items[1] = fr /\ items # << >> /\ \A j \in 2..Len(items) : ToDo(items[j])
    BY <1>8, <1>9
  <2>3. items[1].back = s.pos
    BY <1>1, <1>5, <1>8
  <2>4. Level(o, n, Len(m.todo), s)
    BY <1>0, <1>19
  <2> QED BY <1>6, <1>15, <1>16, <1>17, <1>20, <1>21, <1>22, <2>1, <2>2, <2>3, <2>4, TurnFramed
<1> QED BY <1>13, <1>23

-----------------------------------------------------------------------------
(* Every turn of the first pass.                                           *)
LEMMA GoesOnGood ==
  ASSUME NEW o, NEW m, NEW lv, Good(o, m, lv), m.todo # << >>, m.ok, m.match = << >>
  PROVE  \E lw : Good(o, Turn(Pegs, m), lw)
<1> DEFINE f == Top(m)
<1>1. CASE ToDo(f) /\ f.do \in {"constants", "fields", "times"}
  <2>1. Walks(f)
    BY <1>1 DEF Walks
  <2> QED BY <1>1, <2>1, WalkTurn
<1>2. CASE ToDo(f) /\ f.do = "constant"
  BY <1>2, ConstantTurn
<1>3. CASE ToDo(f) /\ f.do = "dependency"
  BY <1>3, DependencyTurn
<1>4. CASE ToDo(f) /\ f.do = "transform"
  BY <1>4, TransformTurn
<1>5. CASE ToDo(f) /\ f.do = "parse"
  <2>1. f.p \in Parsers
    BY <1>5 DEF ToDo
  <2>2. f.p.op \in {"integer", "choice", "nunion", "array", "length", "optional", "apply", "call"} \cup Walked
    BY <2>1, CParserAssumption DEF WellFormed, Walked
  <2>3. CASE f.p.op \in Walked
    <3>1. Walks(f)
      BY <1>5, <2>3 DEF Walks
    <3> QED BY <1>5, <3>1, WalkTurn
  <2>4. CASE f.p.op = "integer"
    BY <1>5, <2>4, IntegerTurn
  <2>5. CASE f.p.op \in {"choice", "nunion"}
    BY <1>5, <2>5, ChoiceTurn
  <2>6. CASE f.p.op = "array"
    BY <1>5, <2>6, ArrayTurn
  <2>7. CASE f.p.op = "length"
    BY <1>5, <2>7, LengthTurn
  <2>8. CASE f.p.op = "optional"
    BY <1>5, <2>8, OptionalTurn
  <2>9. CASE f.p.op = "apply"
    BY <1>5, <2>9, ApplyTurn
  <2>10. CASE f.p.op = "call"
    BY <1>5, <2>10, CallTurn
  <2> QED BY <2>2, <2>3, <2>4, <2>5, <2>6, <2>7, <2>8, <2>9, <2>10
<1>6. CASE f.do = "recorded"
  BY <1>6, RecordedTurn
<1>7. CASE f.do = "alternative"
  BY <1>7, AlternativeOver
<1>8. CASE f.do = "more"
  BY <1>8, MoreTurn
<1>9. CASE f.do = "counted"
  BY <1>9, CountedTurn
<1>10. CASE f.do = "maybe"
  BY <1>10, MaybeOver
<1>11. CASE f.do = "leave"
  BY <1>11, LeaveTurn
<1>12. CASE f.do = "return"
  BY <1>12, ReturnTurn
<1>13. ToDo(f) \/ IsFrame(f)
  BY TopIs
<1>14. ToDo(f) => f.do \in {"constants", "fields", "times", "constant", "dependency", "transform", "parse"}
  BY DEF ToDo
<1>15. IsFrame(f) => f.do \in {"recorded", "alternative", "more", "counted", "maybe", "leave", "return"}
  BY DEF IsFrame
<1> HIDE DEF f
<1> QED BY <1>1, <1>2, <1>3, <1>4, <1>5, <1>6, <1>7, <1>8, <1>9, <1>10, <1>11, <1>12, <1>13,
           <1>14, <1>15

LEMMA BacksOutGood ==
  ASSUME NEW o, NEW m, NEW lv, Good(o, m, lv), m.todo # << >>, ~m.ok, m.match = << >>
  PROVE  \E lw : Good(o, Turn(Pegs, m), lw)
<1>1. CASE Top(m).do = "alternative" /\ Top(m).i = Len(Top(m).p.ps)
  BY <1>1, LastFailed
<1>2. CASE Top(m).do = "alternative" /\ Top(m).i # Len(Top(m).p.ps)
  BY <1>2, NextFailed
<1>3. CASE Top(m).do = "more"
  BY <1>3, MoreFailed
<1>4. CASE Top(m).do = "maybe"
  BY <1>4, MaybeFailed
<1>5. CASE Top(m).do = "leave"
  BY <1>5, LeaveTurn
<1>6. CASE Top(m).do = "return"
  BY <1>6, ReturnTurn
<1>7. CASE Top(m).do \notin {"alternative", "more", "maybe", "leave", "return"}
  BY <1>7, OtherFailed
<1> QED BY <1>1, <1>2, <1>3, <1>4, <1>5, <1>6, <1>7

LEMMA TurnGood ==
  ASSUME NEW o, NEW m, NEW lv, Good(o, m, lv), m.todo # << >>
  PROVE  \E lw : Good(o, Turn(Pegs, m), lw)
<1>1. CASE m.match # << >>
  BY <1>1, ConstTurnGood
<1>2. CASE m.match = << >> /\ m.ok
  BY <1>2, GoesOnGood
<1>3. CASE m.match = << >> /\ ~m.ok
  BY <1>3, BacksOutGood
<1> QED BY <1>1, <1>2, <1>3

-----------------------------------------------------------------------------
(* From the start on.                                                      *)
LEMMA StartGood ==
  ASSUME NEW p \in Parsers, NEW w, Len(w) \in Nat
  PROVE  \E lv : Good(BindStart(p, w), PegStart(p, w), lv)
<1>1. PICK o, m, s, f, t, none :
        o = BindStart(p, w) /\ m = PegStart(p, w) /\ s = WholeInput(w) /\ f = Parse(p) /\ t = <<f>>
        /\ none = << >>
  OBVIOUS
<1>2. IsSeq(t) /\ Len(t) = 1 /\ t[1] = f /\ IsSeq(none) /\ Len(none) = 0
  BY <1>1, Few
<1>3. IsStream(s) /\ s.pos = 0
  <2>1. s = [data |-> w, base |-> 0, size |-> Len(w), pos |-> 0]
    BY <1>1 DEF WholeInput
  <2>2. s.base = 0 /\ s.size = Len(w) /\ s.pos = 0 /\ s = [data |-> s.data, base |-> s.base, size |-> s.size, pos |-> s.pos]
    BY <2>1
  <2> QED BY <2>2 DEF Places, IsStream
<1>4. ToDo(f) /\ Own(f) = {}
  BY <1>1, ParseToDo
<1>5. f.do = "parse"
  BY <1>1 DEF Parse
<1>6. /\ m = [ok |-> TRUE, over |-> 0, s |-> s, str |-> none, dep |-> none, tr |-> none,
              match |-> none, todo |-> t]
      /\ o = [s |-> s, ti |-> 0, vals |-> none, lost |-> FALSE, over |-> FALSE, todo |-> t]
  BY <1>1 DEF PegStart, BindStart
<1>7. DOMAIN none = {}
  BY <1>1
<1>8. m.ok = TRUE /\ m.over = 0 /\ m.s = s /\ m.str = none /\ m.dep = none /\ m.tr = none
      /\ m.match = none /\ m.todo = t
  BY <1>6
<1>9. o.s = s /\ o.ti = 0 /\ o.lost = FALSE /\ o.over = FALSE /\ o.todo = t
  BY <1>6
<1>10. IsPeg(m)
  <2>1. m = [ok |-> m.ok, over |-> m.over, s |-> m.s, str |-> m.str, dep |-> m.dep, tr |-> m.tr,
             match |-> m.match, todo |-> m.todo]
    BY <1>6
  <2>2. m.ok \in BOOLEAN
    BY <1>8
  <2>3. m.over = 0
    BY <1>8
  <2>4. m.over \in Nat
    BY <2>3
  <2> QED BY <2>1, <2>2, <2>4 DEF IsPeg
<1>11. IsBind(o)
  <2>1. o = [s |-> o.s, ti |-> o.ti, vals |-> o.vals, lost |-> o.lost, over |-> o.over, todo |-> o.todo]
    BY <1>6
  <2> QED BY <1>2, <1>9, <2>1 DEF IsBind
<1>12. PICK lv : lv = [j \in {1} |-> s]
  OBVIOUS
<1>13. lv[1] = s
  BY <1>12
<1>13a. Len(m.todo) = 1 /\ m.todo[1] = f /\ Len(o.todo) = 1 /\ o.todo[1] = f
  <2>1. Len(t) = 1 /\ t[1] = f
    BY <1>2
  <2>2. m.todo = t /\ o.todo = t
    BY <1>8, <1>9
  <2> QED BY <2>1, <2>2
<1>13b. \A j \in 1..Len(m.todo) : j = 1
  BY <1>13a
<1>13c. m.match = << >> /\ m.dep = << >> /\ m.s = s
  BY <1>1, <1>8
<1>14. Sound(m)
  <2>1. \A j \in 1..Len(m.todo) : ToDo(m.todo[j])
    BY <1>4, <1>13a, <1>13b
  <2>2. ~(m.match # << >>)
    BY <1>1, <1>8
  <2>3. 1..Len(m.match) = {}
    BY <1>2, <1>8
  <2> QED BY <1>2, <1>3, <1>7, <1>8, <1>10, <2>1, <2>2, <2>3 DEF Sound
<1>15. Owned(m)
  BY <1>4, <1>13a, <1>13b DEF Owned
<1>16. Chain(m, lv)
  <2>1. Behind(s, s)
    BY <1>3, BehindItself
  <2>2. \A j \in 1..Len(m.todo) : IsStream(lv[j])
    BY <1>3, <1>13, <1>13b
  <2>3. 1..(Len(m.todo) - 1) = {}
    BY <1>13a
  <2>4. Behind(lv[Len(m.todo)], m.s)
    BY <1>13, <1>13a, <1>13c, <2>1
  <2>5. \A j \in 1..Len(m.todo) : m.todo[j].do = "alternative" => m.todo[j].back = lv[j].pos
    BY <1>5, <1>13a, <1>13b
  <2>6. 1..Len(m.match) = {}
    BY <1>13c
  <2> QED BY <2>2, <2>3, <2>4, <2>5, <2>6 DEF Chain
<1>17. Levels(o, m, lv)
  <2>1. ~Handles(f)
    BY <1>5 DEF Handles
  <2> QED BY <1>13a, <1>13b, <2>1 DEF Levels
<1>18. Followed(o, m)
  <2>1. Stands(o, m)
    <3>1. Mirrored(o, m.todo, Len(m.todo))
      BY <1>4, <1>13a, <1>13b DEF Mirrored, Mirrors
    <3>2. Behind(o.s, m.s)
      BY <1>3, <1>8, <1>9, BehindItself
    <3>3. Alike(o.s, m.s)
      BY <3>2 DEF Behind
    <3> QED BY <1>2, <1>8, <1>9, <1>11, <3>1, <3>2, <3>3 DEF Stands
  <2>2. \A q : Reaches(Led(q), o, o)
    BY ReachesItself
  <2> QED BY <2>1, <2>2 DEF Followed
<1>19. Good(o, m, lv)
  BY <1>14, <1>15, <1>16, <1>17, <1>18 DEF Good
<1> QED BY <1>1, <1>19

LEMMA ReachesGood ==
  ASSUME NEW o, NEW m, NEW lv, Good(o, m, lv), NEW r, Reaches(Pegs, m, r)
  PROVE  \E lw : Good(o, r, lw)
<1>0. PICK n \in Nat : \E f : Goes(Pegs, m, f, n) /\ f[n] = r
  BY DEF Reaches
<1>1. PICK f : Goes(Pegs, m, f, n) /\ f[n] = r
  BY <1>0
<1> DEFINE S == {i \in Nat : i <= n => \E lw : Good(o, f[i], lw)}
<1>2. 0 \in S
  <2>1. f[0] = m
    BY <1>1 DEF Goes
  <2> QED BY <2>1
<1>3. ASSUME NEW i \in S PROVE i + 1 \in S
  <2> SUFFICES ASSUME i + 1 <= n PROVE \E lw : Good(o, f[i + 1], lw)
    OBVIOUS
  <2>1. i \in 0..(n - 1) /\ i <= n
    OBVIOUS
  <2>2. PICK lw : Good(o, f[i], lw)
    BY <2>1
  <2>3. f[i].todo # << >> /\ f[i + 1] = Turn(Pegs, f[i])
    BY <1>1, <2>1 DEF Goes
  <2> QED BY <2>2, <2>3, TurnGood
<1>4. n \in S
  <2>1. S \in SUBSET Nat
    OBVIOUS
  <2> HIDE DEF S
  <2> QED BY <1>2, <1>3, <2>1, Inductive
<1> QED BY <1>1, <1>4

(* What the first pass is left in, and where that leads the second one.     *)
LEMMA PegIsGood ==
  ASSUME NEW p \in Parsers, NEW w, Len(w) \in Nat
  PROVE  \E lv : Good(BindStart(p, w), PegAll(Defs, p, w), lv)
<1>1. PICK o, m : o = BindStart(p, w) /\ m = PegStart(p, w)
  OBVIOUS
<1>2. PICK lv : Good(o, m, lv)
  BY <1>1, StartGood
<1>3. PegAll(Defs, p, w) = Run(Pegs, m)
  BY <1>1 DEF PegAll, Pegs
<1>4. Reaches(Pegs, m, Run(Pegs, m))
  BY ReachesItself, RunReaches
<1> QED BY <1>1, <1>2, <1>3, <1>4, ReachesGood

LEMMA BindFollows ==
  ASSUME NEW p \in Parsers, NEW w, Len(w) \in Nat, NEW r, r = PegAll(Defs, p, w), Recognised(r),
         NEW b, b = BindAll(Defs, p, w, r.tr), Ended(b)
  PROVE  b.lost = FALSE /\ b.ti = Len(r.tr) /\ b.over = FALSE /\ b.s.pos <= r.s.pos
<1>1. PICK o, q : o = BindStart(p, w) /\ q = r.tr
  OBVIOUS
<1>2. PICK lv : Good(o, r, lv)
  BY <1>1, PegIsGood
<1>3. r.todo = << >> /\ r.ok
  BY DEF Recognised, Ended
<1>4. Len(r.todo) = 0 /\ IsSeq(r.tr) /\ Len(r.tr) \in Nat
  BY <1>2, <1>3, SeqIs, Few DEF Good, Sound
<1>5. Fits(q, r)
  BY <1>1, <1>4 DEF Fits, Agrees
<1>6. PICK d : Reaches(Led(q), o, d) /\ Stands(d, r)
  BY <1>2, <1>3, <1>5 DEF Good, Followed
<1>7. IsBind(d) /\ d.ti = Len(r.tr) /\ Behind(d.s, r.s) /\ Len(d.todo) = 0
  BY <1>3, <1>4, <1>6 DEF Stands
<1>8. d.todo = << >>
  BY <1>7, SeqIs DEF IsBind
<1>9. b = Run(Led(q), o)
  BY <1>1 DEF BindAll, Led
<1>10. Reaches(Led(q), o, b)
  BY <1>9, ReachesItself, RunReaches
<1>11. b = d
  BY <1>6, <1>8, <1>10, EndIsOne DEF Ended
<1> QED BY <1>7, <1>11 DEF IsBind, Behind

-----------------------------------------------------------------------------
(* The calls.                                                              *)
CInv ==
  /\ start \in StartsC /\ input \in Inputs
  /\ phase # "parsing" => peg = PegAll(Defs, Rule, input)
  /\ phase = "overread" => peg.over # 0
  /\ phase \in {"binding", "accepted"} => Recognised(peg)
  /\ phase = "accepted" => result = BindAll(Defs, Rule, input, peg.tr) /\ Ended(result)

LEMMA CInvHolds == CSpec => []CInv
<1>1. CInit => CInv
  BY DEF CInit, CInv
<1>2. CInv /\ [CNext]_cVars => CInv'
  <2> SUFFICES ASSUME CInv, [CNext]_cVars PROVE CInv'
    OBVIOUS
  <2>1. CASE PegPass
    <3>1. Rule' = Rule
      BY <2>1 DEF PegPass, Rule
    <3> QED BY <2>1, <3>1 DEF PegPass, CInv
  <2>2. CASE BindPass
    <3>1. Rule' = Rule
      BY <2>2 DEF BindPass, Rule
    <3> QED BY <2>2, <3>1 DEF BindPass, CInv
  <2>3. CASE UNCHANGED cVars
    BY <2>3 DEF cVars, CInv, Rule
  <2> QED BY <2>1, <2>2, <2>3 DEF CNext
<1> QED BY <1>1, <1>2, PTL DEF CSpec

LEMMA RuleIs == ASSUME CInv PROVE Rule \in Parsers /\ Len(input) \in Nat
  BY CParserAssumption DEF CInv, Rule

(* The second pass of the C parser does what the first one did, led by the   *)
(* trace alone: for every well-formed grammar and every input, whatever      *)
(* failed attempts left in the trace, no cell and no alternative is missing  *)
(* where it looks for one, and it ends behind the last cell (mk_parser.cc).  *)
THEOREM FollowsTrace == CSpec => []TraceIsFollowed
<1>1. CInv => TraceIsFollowed
  <2> SUFFICES ASSUME CInv, phase = "accepted" PROVE ~result.lost /\ result.ti = Len(peg.tr)
    BY DEF TraceIsFollowed
  <2>1. /\ peg = PegAll(Defs, Rule, input) /\ Recognised(peg)
        /\ result = BindAll(Defs, Rule, input, peg.tr) /\ Ended(result)
    BY DEF CInv
  <2>2. result.lost = FALSE /\ result.ti = Len(peg.tr)
    BY <2>1, RuleIs, BindFollows
  <2> QED BY <2>2
<1> QED BY <1>1, CInvHolds, PTL

(* The first pass of the C parser, which checks every integer, reads one    *)
(* past the end of its stream only where its check sees nothing: where the  *)
(* integer has more whole bytes than the stream, or where it, or what was   *)
(* read before it, is not all whole bytes.  The second, which checks none,  *)
(* reads none at all past an end, and ends no further than the first one    *)
(* did (mk_parser.cc, parser_template.c).                                  *)
THEOREM ReadsWithin == CSpec => []NeverOverreads
<1>1. CInv => NeverOverreads
  <2> SUFFICES ASSUME CInv PROVE NeverOverreads
    OBVIOUS
  <2>1. ASSUME phase = "overread" PROVE Unseen(peg.s, peg.over)
    <3>1. PICK lv : Good(BindStart(Rule, input), peg, lv)
      BY <2>1, RuleIs, PegIsGood DEF CInv
    <3> QED BY <2>1, <3>1 DEF CInv, Good, Sound
  <2>2. ASSUME phase = "accepted" PROVE ~result.over /\ result.s.pos <= peg.s.pos
    <3>1. /\ peg = PegAll(Defs, Rule, input) /\ Recognised(peg)
          /\ result = BindAll(Defs, Rule, input, peg.tr) /\ Ended(result)
      BY <2>2 DEF CInv
    <3>2. result.over = FALSE /\ result.s.pos <= peg.s.pos
      BY <3>1, RuleIs, BindFollows
    <3> QED BY <3>2
  <2> QED BY <2>1, <2>2 DEF NeverOverreads
<1> QED BY <1>1, CInvHolds, PTL
=============================================================================
