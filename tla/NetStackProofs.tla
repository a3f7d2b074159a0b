--------------------------- MODULE NetStackProofs --------------------------
(***************************************************************************)
(* For any number of stacks, any frames of strangers and any losses: what a *)
(* stack (NetStack.tla) sends is accepted, because the checksum it puts at   *)
(* the end of a message is right whatever words the message has.            *)
(***************************************************************************)
EXTENDS NetStack, Arithmetic, SequenceTheorems

IsQueue(s) == s \in Seq(ToSet(s))
Wired == DOMAIN wire = Host /\ \A h \in Host : IsQueue(wire[h])
Tables == DOMAIN pc = Host /\ DOMAIN frame = Host
StackInv == Wired /\ Tables

-----------------------------------------------------------------------------
(* Queues: what is put at the end or taken from the front.                  *)
LEMMA AppendQueue ==
  ASSUME NEW s, IsQueue(s), NEW f
  PROVE  IsQueue(Append(s, f)) /\ ToSet(Append(s, f)) = ToSet(s) \cup {f}
<1> DEFINE S == ToSet(s) \cup {f}
           t == Append(s, f)
<1>1. s \in Seq(S) /\ f \in S /\ Len(s) \in Nat
  BY DEF IsQueue
<1>2. /\ t \in Seq(S) /\ Len(t) = Len(s) + 1
      /\ \A i \in 1..Len(s) : t[i] = s[i]
      /\ t[Len(s) + 1] = f
  BY <1>1, AppendProperties
<1>3. DOMAIN t = 1..(Len(s) + 1) /\ DOMAIN s = 1..Len(s)
  BY <1>1, <1>2
<1>4. ToSet(t) = S
  BY <1>1, <1>2, <1>3 DEF ToSet
<1> QED BY <1>2, <1>4 DEF IsQueue

LEMMA TailQueue ==
  ASSUME NEW s, IsQueue(s), s # << >>
  PROVE  IsQueue(Tail(s)) /\ ToSet(Tail(s)) \subseteq ToSet(s)
<1> DEFINE t == Tail(s)
<1>1. /\ t \in Seq(ToSet(s)) /\ Len(t) = Len(s) - 1 /\ Len(t) \in Nat
      /\ \A i \in 1..Len(t) : t[i] = s[i + 1]
  BY HeadTailProperties DEF IsQueue
<1> HIDE DEF t
<1>2. ToSet(t) \subseteq ToSet(s)
  BY <1>1 DEF ToSet
<1>3. t \in Seq(ToSet(t))
  BY <1>1 DEF ToSet
<1> QED BY <1>2, <1>3 DEF IsQueue, t

LEMMA EmptyQueue == IsQueue(<< >>) /\ ToSet(<< >>) = {}
  BY DEF IsQueue, ToSet

(* The kernel puts nothing on the wire but what is sent.                    *)
LEMMA DeliveredIsSent ==
  ASSUME Wired, NEW f, NEW others \in SUBSET Host, Delivered(f, others)
  PROVE  Wired' /\ \A e \in OnWire' : e \in OnWire \/ e = f
<1>1. PICK taps \in SUBSET Host :
        wire' = [g \in Host |-> IF g \in taps THEN Append(wire[g], f) ELSE wire[g]]
  BY DEF Delivered
<1>2. ASSUME NEW g \in Host
      PROVE  IsQueue(wire'[g]) /\ ToSet(wire'[g]) \subseteq ToSet(wire[g]) \cup {f}
  BY <1>1, AppendQueue DEF Wired
<1>3. Wired'
  BY <1>1, <1>2 DEF Wired
<1>4. ASSUME NEW e \in OnWire' PROVE e \in OnWire \/ e = f
  <2>1. PICK g \in Host : e \in ToSet(wire'[g])
    BY <1>4 DEF OnWire
  <2> QED BY <2>1, <1>2 DEF OnWire
<1> QED BY <1>3, <1>4

-----------------------------------------------------------------------------
(* The sum of the words.                                                    *)
(* f holds the sums of the first words.                                     *)
SumsOf(f, words, n) ==
  f \in [0..n -> Nat] /\ \A m \in 0..n : f[m] = IF m = 0 THEN 0 ELSE f[m - 1] + words[m]

LEMMA SumsExist ==
  ASSUME NEW words \in Seq(Nat)
  PROVE  \E f : SumsOf(f, words, Len(words))
<1> DEFINE P(k) == \E f : SumsOf(f, words, k)
           S == {k \in Nat : k <= Len(words) => P(k)}
<1>1. 0 \in S
  <2>1. SumsOf([m \in 0..0 |-> 0], words, 0)
    BY DEF SumsOf
  <2> QED BY <2>1
<1>2. ASSUME NEW k \in S PROVE k + 1 \in S
  <2> SUFFICES ASSUME k + 1 <= Len(words) PROVE P(k + 1)
    OBVIOUS
  <2>1. PICK f : SumsOf(f, words, k)
    OBVIOUS
  <2>2. words[k + 1] \in Nat /\ k \in Nat
    OBVIOUS
  <2> DEFINE g == [m \in 0..(k + 1) |-> IF m = k + 1 THEN f[k] + words[k + 1] ELSE f[m]]
  <2>3. \A m \in 0..k : m \in 0..(k + 1) /\ g[m] = f[m] /\ f[m] \in Nat
    BY <2>1, <2>2 DEF SumsOf
  <2>4. g[k + 1] = f[k] + words[k + 1] /\ f[k] + words[k + 1] \in Nat
    BY <2>1, <2>2 DEF SumsOf
  <2>5. g \in [0..(k + 1) -> Nat]
    BY <2>1, <2>2 DEF SumsOf
  <2> HIDE DEF g
  <2>6. ASSUME NEW m \in 0..(k + 1) PROVE g[m] = IF m = 0 THEN 0 ELSE g[m - 1] + words[m]
    <3>1. CASE m = k + 1
      BY <2>2, <2>3, <2>4, <3>1
    <3>2. CASE m \in 0..k
      <4>1. f[m] = IF m = 0 THEN 0 ELSE f[m - 1] + words[m]
        BY <2>1, <3>2 DEF SumsOf
      <4>2. m # 0 => m - 1 \in 0..k
        BY <2>2, <3>2
      <4> QED BY <2>3, <3>2, <4>1, <4>2
    <3> QED BY <2>2, <3>1, <3>2
  <2>7. SumsOf(g, words, k + 1)
    BY <2>5, <2>6 DEF SumsOf
  <2> QED BY <2>7
<1> HIDE DEF P
<1>3. \A k \in Nat : k \in S
  <2> HIDE DEF S
  <2>1. S \in SUBSET Nat
    BY DEF S
  <2> QED BY <1>1, <1>2, <2>1, Inductive
<1>4. P(Len(words))
  BY <1>3
<1> QED BY <1>4 DEF P

(* There is one such function.                                              *)
LEMMA SumsAgree ==
  ASSUME NEW u, NEW v, NEW f, NEW g, NEW n \in Nat, SumsOf(f, u, n), SumsOf(g, v, n),
         \A i \in 1..n : u[i] = v[i]
  PROVE  f[n] = g[n]
<1> DEFINE S == {k \in Nat : k <= n => f[k] = g[k]}
<1>1. 0 \in S
  BY DEF SumsOf
<1>2. ASSUME NEW k \in S PROVE k + 1 \in S
  BY DEF SumsOf
<1> HIDE DEF S
<1>3. S \in SUBSET Nat
  BY DEF S
<1>4. n \in S
  BY <1>1, <1>2, <1>3, Inductive
<1> QED BY <1>4 DEF S

LEMMA SumIs ==
  ASSUME NEW words \in Seq(Nat), NEW f, SumsOf(f, words, Len(words))
  PROVE  Sum(words) = f[Len(words)] /\ Sum(words) \in Nat
<1> DEFINE n == Len(words)
           Is(g) == g = [m \in 0..n |-> IF m = 0 THEN 0 ELSE g[m - 1] + words[m]]
           s == CHOOSE g : Is(g)
<1>1. n \in Nat
  OBVIOUS
<1>2. Is(f)
  BY DEF SumsOf
<1>3. Is(s)
  BY <1>2
<1>4. Sum(words) = s[n]
  BY DEF Sum
<1> HIDE DEF s
<1>5. \A m \in 0..n : s[m] = IF m = 0 THEN 0 ELSE s[m - 1] + words[m]
  BY <1>3
<1> DEFINE S == {k \in Nat : k <= n => s[k] = f[k]}
<1>6. 0 \in S
  BY <1>1, <1>5 DEF SumsOf
<1>7. ASSUME NEW k \in S PROVE k + 1 \in S
  <2> SUFFICES ASSUME k + 1 <= n PROVE s[k + 1] = f[k + 1]
    OBVIOUS
  <2>1. k + 1 \in 0..n /\ k + 1 # 0 /\ (k + 1) - 1 = k /\ s[k] = f[k]
    BY <1>1
  <2>2. s[k + 1] = s[k] + words[k + 1]
    BY <1>5, <2>1
  <2>3. f[k + 1] = f[k] + words[k + 1]
    BY <2>1 DEF SumsOf
  <2> QED BY <2>1, <2>2, <2>3
<1> HIDE DEF S
<1>8. S \in SUBSET Nat
  BY DEF S
<1>9. n \in S
  BY <1>1, <1>6, <1>7, <1>8, Inductive
<1> QED BY <1>1, <1>4, <1>9 DEF S, SumsOf

LEMMA SumOfAppended ==
  ASSUME NEW words \in Seq(Nat), NEW c \in Nat
  PROVE  Sum(words) \in Nat /\ Sum(Append(words, c)) = Sum(words) + c
<1> DEFINE more == Append(words, c)
           n == Len(words)
<1>1. /\ n \in Nat /\ more \in Seq(Nat) /\ Len(more) = n + 1 /\ more[n + 1] = c
      /\ \A i \in 1..n : more[i] = words[i]
  BY AppendProperties
<1> HIDE DEF more
<1>2. PICK f : SumsOf(f, words, n)
  BY SumsExist
<1>3. PICK g : SumsOf(g, more, n + 1)
  BY <1>1, SumsExist
<1>4. Sum(words) = f[n] /\ Sum(more) = g[n + 1] /\ Sum(words) \in Nat
  BY <1>1, <1>2, <1>3, SumIs
<1>5. g[n + 1] = g[n] + c
  <2>1. n + 1 \in 0..(n + 1) /\ n + 1 # 0 /\ (n + 1) - 1 = n
    BY <1>1
  <2> QED BY <1>1, <1>3, <2>1 DEF SumsOf
<1>6. SumsOf([m \in 0..n |-> g[m]], more, n)
  <2>1. \A m \in 0..n : m \in 0..(n + 1) /\ (m # 0 => m - 1 \in 0..n)
    BY <1>1
  <2> QED BY <1>3, <2>1 DEF SumsOf
<1>7. f[n] = g[n]
  <2>1. [m \in 0..n |-> g[m]][n] = g[n]
    BY <1>1
  <2>2. \A i \in 1..n : words[i] = more[i]
    BY <1>1
  <2> HIDE DEF n
  <2>3. f[n] = [m \in 0..n |-> g[m]][n]
    BY <1>1, <1>2, <1>6, <2>2, SumsAgree
  <2> QED BY <2>1, <2>3
<1> QED BY <1>4, <1>5, <1>7 DEF more

-----------------------------------------------------------------------------
(* The checksum of a sum is its remainder by Word - 1, and 0 of 0 only: it   *)
(* loses a multiple of Word - 1 with every fold.                            *)
Residue(n) == IF n = 0 THEN 0 ELSE 1 + ((n - 1) % (Word - 1))

LEMMA FoldResidue ==
  ASSUME NEW n \in Nat, n >= Word
  PROVE  Fold(n) \in 1..(n - 1) /\ Residue(Fold(n)) = Residue(n)
<1>1. Word \in Nat \ {0} /\ Word - 1 \in Nat \ {0}
  BY StackAssumption
<1>2. PICK q \in Nat, r \in 0..(Word - 1) : q = n \div Word /\ r = n % Word /\ n = q * Word + r
  BY <1>1, WholeAndRest, Zenon
<1>3. q > 0
  BY <1>1, <1>2
<1>4. PICK m \in Nat : m = q * (Word - 1) /\ m > 0 /\ n = m + q + r
  BY <1>1, <1>2, <1>3
<1>5. Fold(n) = q + r /\ q + r \in 1..(n - 1)
  BY <1>1, <1>2, <1>3, <1>4 DEF Fold
<1>6. PICK a \in Nat, b \in 0..(Word - 2) :
        a = (q + r - 1) \div (Word - 1) /\ b = (q + r - 1) % (Word - 1)
        /\ q + r - 1 = a * (Word - 1) + b
  <2>1. PICK x \in Nat, k \in Nat \ {0} : x = q + r - 1 /\ k = Word - 1
    <3>1. q + r - 1 \in Nat
      BY <1>1, <1>2, <1>3
    <3> QED BY <1>1, <3>1
  <2>2. x \div k \in Nat /\ x % k \in 0..(k - 1) /\ x = (x \div k) * k + (x % k)
    BY <2>1, WholeAndRest
  <2>3. k - 1 = Word - 2
    BY <1>1, <2>1
  <2> QED BY <2>1, <2>2, <2>3
<1>7. n - 1 = (a + q) * (Word - 1) + b
  <2>1. (a + q) * (Word - 1) = a * (Word - 1) + q * (Word - 1)
    BY <1>1, <1>2, <1>6
  <2>2. PICK y \in Nat, z \in Nat : y = a * (Word - 1) /\ z = (a + q) * (Word - 1) /\ z = y + m
    <3>1. a * (Word - 1) \in Nat /\ (a + q) * (Word - 1) \in Nat
      BY <1>1, <1>6
    <3> QED BY <1>4, <2>1, <3>1
  <2>3. n = m + q + r
    BY <1>4
  <2>4. q + r - 1 = y + b
    BY <1>6, <2>2
  <2>5. q \in Nat /\ r \in Nat /\ b \in Nat /\ m \in Nat
    BY <1>2, <1>4, <1>6
  <2>6. n - 1 = z + b
    <3>1. z = y + m /\ z \in Nat /\ y \in Nat
      BY <2>2
    <3> QED BY <2>3, <2>4, <2>5, <3>1
  <2> QED BY <2>2, <2>6
<1>8. (n - 1) % (Word - 1) = b
  <2>1. a + q \in Nat /\ b \in 0..((Word - 1) - 1)
    BY <1>1, <1>2, <1>6
  <2>2. ((a + q) * (Word - 1) + b) % (Word - 1) = b
    BY <1>1, <2>1, PlaceOf
  <2> QED BY <1>7, <2>2
<1> QED BY <1>5, <1>6, <1>8 DEF Residue

LEMMA ResidueBelow ==
  ASSUME NEW n \in Nat
  PROVE  Residue(n) \in 0..(Word - 1) /\ (n < Word => Residue(n) = n) /\ (n > 0 => Residue(n) > 0)
<1>1. Word \in Nat \ {0} /\ Word - 1 \in Nat \ {0}
  BY StackAssumption
<1>2. CASE n = 0
  BY <1>1, <1>2 DEF Residue
<1>3. CASE n > 0
  <2>1. (n - 1) % (Word - 1) \in 0..((Word - 1) - 1) /\ n - 1 \in Nat
    BY <1>1, <1>3, WholeAndRest
  <2>2. ASSUME n < Word PROVE (n - 1) % (Word - 1) = n - 1
    <3>1. n - 1 = 0 * (Word - 1) + (n - 1) /\ n - 1 \in 0..((Word - 1) - 1)
      BY <1>1, <1>3, <2>2
    <3> QED BY <1>1, <3>1, PlaceOf
  <2> QED BY <1>1, <1>3, <2>1, <2>2 DEF Residue
<1> QED BY <1>2, <1>3

(* Folding ends at the residue.                                             *)
LEMMA ChecksumIsResidue ==
  ASSUME NEW words, Sum(words) \in Nat
  PROVE  checksum(words) = Residue(Sum(words))
<1> DEFINE N == Sum(words)
           Is(g) == g = [n \in 0..N |-> IF n < Word THEN n ELSE g[Fold(n)]]
           s == CHOOSE g : Is(g)
           f == [n \in 0..N |-> Residue(n)]
<1>0. Word \in Nat \ (0..8)
  BY StackAssumption
<1>1. checksum(words) = s[N]
  BY DEF checksum
<1>2. \A n \in 0..N : n >= Word => Fold(n) \in 0..(n - 1) /\ Fold(n) \in 0..N /\ Residue(Fold(n)) = Residue(n)
  BY <1>0, FoldResidue
<1>3. \A n \in 0..N : n < Word => Residue(n) = n
  BY ResidueBelow
<1>4. Is(f)
  <2> SUFFICES ASSUME NEW n \in 0..N
               PROVE  f[n] = IF n < Word THEN n ELSE f[Fold(n)]
    OBVIOUS
  <2>1. CASE n < Word
    BY <1>3, <2>1
  <2>2. CASE n >= Word
    <3>1. f[n] = Residue(n) /\ f[Fold(n)] = Residue(Fold(n)) /\ ~(n < Word)
      BY <1>0, <1>2, <2>2
    <3> QED BY <1>2, <2>2, <3>1
  <2> QED BY <1>0, <2>1, <2>2
<1>5. Is(s)
  BY <1>4
<1> HIDE DEF s, f
<1>6. \A n \in 0..N : s[n] = IF n < Word THEN n ELSE s[Fold(n)]
  BY <1>5
<1> DEFINE S == {k \in Nat : \A n \in 0..k : n <= N => s[n] = Residue(n)}
<1>7. 0 \in S
  BY <1>0, <1>3, <1>6
<1>8. ASSUME NEW k \in S PROVE k + 1 \in S
  <2> SUFFICES ASSUME NEW n \in 0..(k + 1), n <= N PROVE s[n] = Residue(n)
    OBVIOUS
  <2>1. CASE n < Word
    BY <1>3, <1>6, <2>1
  <2>2. CASE n >= Word
    <3>1. Fold(n) \in 0..(n - 1) /\ Fold(n) \in 0..N /\ Residue(Fold(n)) = Residue(n)
      BY <1>2, <2>2
    <3>2. Fold(n) \in 0..k /\ Fold(n) <= N
      BY <3>1
    <3>3. s[Fold(n)] = Residue(Fold(n))
      BY <3>2
    <3>4. s[n] = s[Fold(n)]
      BY <1>0, <1>6, <2>2
    <3> QED BY <3>1, <3>3, <3>4
  <2> QED BY <1>0, <2>1, <2>2
<1>9. N \in S
  <2>1. S \in SUBSET Nat
    OBVIOUS
  <2> HIDE DEF S
  <2> QED BY <1>7, <1>8, <2>1, Inductive
<1> QED BY <1>1, <1>9

(* What generate appends makes the residue full.                            *)
LEMMA ResidueFull ==
  ASSUME NEW n \in Nat
  PROVE  LET c == (Word - 1 - Residue(n)) % Word
         IN  c \in Nat /\ Residue(n + c) = Word - 1
<1>0. Word \in Nat \ (0..8) /\ Word - 1 \in Nat \ {0}
  BY StackAssumption
<1>1. PICK r \in 0..(Word - 1) : r = Residue(n)
  BY ResidueBelow
<1>2. PICK c \in 0..(Word - 1) : c = Word - 1 - r /\ c % Word = c
  BY <1>0
<1>3. Residue(n + c) = Word - 1
  <2>1. CASE n = 0
    <3>1. r = 0 /\ n + c = Word - 1
      BY <1>0, <1>1, <1>2, <2>1 DEF Residue
    <3> QED BY <1>0, <3>1, ResidueBelow
  <2>2. CASE n > 0
    <3>1. PICK x \in Nat : x = n - 1
      <4>1. n - 1 \in Nat
        BY <2>2
      <4> QED BY <4>1
    <3>2. PICK k \in Nat \ {0} : k = Word - 1
      BY <1>0
    <3>3. PICK q \in Nat, b \in 0..(k - 1) : b = x % k /\ x = q * k + b
      BY <3>1, <3>2, WholeAndRest, Zenon
    <3>4. r = 1 + b
      BY <1>1, <2>2, <3>1, <3>2, <3>3 DEF Residue
    <3>5. PICK y \in Nat : y = q * k
      BY <3>2, <3>3
    <3>6. n + c - 1 = y + (k - 1) /\ n + c # 0
      <4>1. x = y + b
        BY <3>3, <3>5
      <4>2. c = k - r
        BY <1>2, <3>2
      <4> QED BY <2>2, <3>1, <3>4, <3>5, <4>1, <4>2
    <3>7. (q * k + (k - 1)) % k = k - 1
      <4>1. k - 1 \in 0..(k - 1) /\ q \in Int
        BY <3>2, <3>3
      <4> QED BY <3>2, <4>1, PlaceOf
    <3>8. (n + c - 1) % k = k - 1
      BY <3>5, <3>6, <3>7
    <3>9. Residue(n + c) = 1 + (k - 1)
      BY <3>2, <3>6, <3>8 DEF Residue
    <3> QED BY <3>2, <3>9
  <2> QED BY <2>1, <2>2
<1> QED BY <1>1, <1>2, <1>3

(* The checksum over a message and its checksum is right.                   *)
LEMMA GeneratedParses ==
  ASSUME NEW words \in Seq(Nat)
  PROVE  internet_checksum_parse(Append(words, internet_checksum_generate(words)))
<1> DEFINE c == internet_checksum_generate(words)
<1>1. Sum(words) \in Nat
  <2>1. 0 \in Nat
    OBVIOUS
  <2> QED BY <2>1, SumOfAppended
<1>2. c = (Word - 1 - Residue(Sum(words))) % Word
  BY <1>1, ChecksumIsResidue DEF internet_checksum_generate
<1>3. c \in Nat /\ Residue(Sum(words) + c) = Word - 1
  BY <1>1, <1>2, ResidueFull
<1> HIDE DEF c
<1>4. Sum(Append(words, c)) = Sum(words) + c
  BY <1>3, SumOfAppended
<1>5. Sum(Append(words, c)) \in Nat
  BY <1>1, <1>3, <1>4
<1>6. checksum(Append(words, c)) = Word - 1
  BY <1>3, <1>4, <1>5, ChecksumIsResidue
<1> QED BY <1>6 DEF internet_checksum_parse, c

-----------------------------------------------------------------------------
LEMMA InitStack == Init => StackInv
  BY EmptyQueue DEF Init, StackInv, Wired, Tables

LEMMA StrangerKeeps == StackInv /\ StrangerSends => StackInv'
  BY DeliveredIsSent DEF StackInv, StrangerSends, Tables

LEMMA ReadKeeps == ASSUME NEW h \in Host PROVE StackInv /\ Read(h) => StackInv'
<1> SUFFICES ASSUME StackInv, Read(h) PROVE StackInv'
  OBVIOUS
<1> USE DEF Read, Go
<1>1. Tables'
  BY DEF StackInv, Tables
<1>2. ASSUME NEW g \in Host PROVE IsQueue(wire'[g])
  BY TailQueue DEF StackInv, Wired
<1>3. Wired'
  BY <1>2 DEF StackInv, Wired
<1> QED BY <1>1, <1>3 DEF StackInv

(* The steps of a stack that do not touch the wire.                         *)
LEMMA QuietKeeps ==
  ASSUME NEW h \in Host
  PROVE  StackInv /\ (Parsed(h) \/ OutOfMemory(h) \/ Release(h) \/ HearArp(h) \/ update_arp(h) \/ Ignore(h))
           => StackInv'
  BY DEF StackInv, Wired, Tables, Parsed, OutOfMemory, Release, HearArp, update_arp, Ignore, Processing, Go

LEMMA AnswerKeeps == ASSUME NEW h \in Host PROVE StackInv /\ (AnswerArp(h) \/ AnswerEcho(h)) => StackInv'
<1> SUFFICES ASSUME StackInv, AnswerArp(h) \/ AnswerEcho(h) PROVE StackInv'
  OBVIOUS
<1>1. PICK answer : Delivered(answer, Host \ {h})
  BY DEF AnswerArp, AnswerEcho, send_frame
<1>2. Wired'
  BY <1>1, DeliveredIsSent DEF StackInv
<1>3. Tables'
  BY DEF StackInv, Tables, AnswerArp, AnswerEcho, Go
<1> QED BY <1>2, <1>3 DEF StackInv

-----------------------------------------------------------------------------
(* What a stack answers is what it has read: the words of an echo message    *)
(* are numbers, on the wire and in the frame it is at.                      *)
Carries(f) == f.kind = "icmp" => f.data \in Seq(Nat)
CarriesWords == /\ \A f \in OnWire : Carries(f)
                /\ \A h \in Host : Carries(frame[h])
EchoInv == StackInv /\ CarriesWords /\ SentParses

LEMMA StrangersCarry == \A f \in Strange : Carries(f) /\ f.src \notin Macs
<1>1. ASSUME NEW f \in Strange, f.kind = "icmp" PROVE f.data \in Seq(Nat)
  <2>1. f.data \in Seq(0..(Word - 1)) /\ Word \in Nat
    BY <1>1, WireAssumption, StackAssumption
  <2>2. 0..(Word - 1) \subseteq Nat
    BY <2>1
  <2> QED BY <2>1, <2>2
<1> QED BY <1>1, WireAssumption DEF Carries, Macs

LEMMA EchoAnswerParses ==
  ASSUME NEW h \in Host, NEW f, f.data \in Seq(Nat)
  PROVE  LET answer == ethernet(h, EchoAnswer(h, f)) IN Carries(answer) /\ Parses(answer)
<1> DEFINE m == [type |-> ECHORESPONSE, data |-> f.data]
<1>1. PICK c : c = internet_checksum_generate(Message(m))
  OBVIOUS
<1>2. PICK answer : answer = ethernet(h, EchoAnswer(h, f))
  OBVIOUS
<1>3. /\ answer.kind = "icmp" /\ answer.type = ECHORESPONSE
      /\ answer.data = f.data /\ answer.checksum = c
  BY <1>1, <1>2 DEF ethernet, With, EchoAnswer
<1>4. Message(m) = <<0>> \o f.data /\ Message(answer) = Message(m)
  BY <1>3 DEF Message, ECHORESPONSE
<1>5. Message(m) \in Seq(Nat)
  <2>1. <<0>> \in Seq(Nat)
    OBVIOUS
  <2> HIDE DEF m
  <2> QED BY <1>4, <2>1, ConcatProperties
<1>6. Checked(answer) = Append(Message(m), c)
  BY <1>3, <1>4 DEF Checked
<1>7. internet_checksum_parse(Checked(answer))
  BY <1>1, <1>5, <1>6, GeneratedParses
<1> QED BY <1>2, <1>3, <1>7 DEF Carries, Parses

LEMMA InitEcho == Init => EchoInv
<1> SUFFICES ASSUME Init PROVE EchoInv
  OBVIOUS
<1>1. StackInv
  BY InitStack
<1>2. OnWire = {} /\ \A h \in Host : frame[h] = NoFrame
  BY EmptyQueue DEF Init, OnWire
<1>3. NoFrame.kind # "icmp"
  BY DEF NoFrame
<1> QED BY <1>1, <1>2, <1>3 DEF EchoInv, CarriesWords, Carries, SentParses

(* A step that sends at most one frame, and one that parses if it is a       *)
(* stack's, and leaves every stack at the frame it was at or at none.       *)
LEMMA SendingKeeps ==
  ASSUME EchoInv, StackInv', NEW f, Carries(f), f.src \in Macs => Parses(f),
         \A e \in OnWire' : e \in OnWire \/ e = f,
         \A h \in Host : frame'[h] = frame[h] \/ frame'[h] = NoFrame
  PROVE  EchoInv'
<1>1. NoFrame.kind # "icmp"
  BY DEF NoFrame
<1>2. \A h \in Host : Carries(frame'[h])
  BY <1>1 DEF EchoInv, CarriesWords, Carries
<1>3. \A e \in OnWire' : Carries(e)
  BY DEF EchoInv, CarriesWords
<1>4. \A e \in OnWire' : e.src \in Macs => Parses(e)
  BY DEF EchoInv, SentParses
<1> QED BY <1>2, <1>3, <1>4 DEF EchoInv, CarriesWords, Carries, SentParses, Macs, Parses

LEMMA NoSendKeeps ==
  ASSUME EchoInv, StackInv', \A e \in OnWire' : e \in OnWire,
         \A h \in Host : frame'[h] = frame[h] \/ frame'[h] = NoFrame
  PROVE  EchoInv'
<1> DEFINE f == [kind |-> "arp", operation |-> 2]
<1>1. Carries(f) /\ Parses(f)
  BY DEF Carries, Parses
<1> HIDE DEF f
<1> QED BY <1>1, SendingKeeps

LEMMA StrangerKeepsEcho == EchoInv /\ StrangerSends => EchoInv'
<1> SUFFICES ASSUME EchoInv, StrangerSends PROVE EchoInv'
  OBVIOUS
<1>1. PICK f \in Strange : Delivered(f, Host)
  BY DEF StrangerSends
<1>2. StackInv' /\ \A e \in OnWire' : e \in OnWire \/ e = f
  BY <1>1, DeliveredIsSent, StrangerKeeps DEF EchoInv, StackInv
<1>3. \A h \in Host : frame'[h] = frame[h]
  BY DEF StrangerSends
<1>4. Carries(f) /\ f.src \notin Macs
  BY StrangersCarry
<1> QED BY <1>2, <1>3, <1>4, SendingKeeps

LEMMA ReadKeepsEcho == ASSUME NEW h \in Host PROVE EchoInv /\ Read(h) => EchoInv'
<1> SUFFICES ASSUME EchoInv, Read(h) PROVE EchoInv'
  OBVIOUS
<1>1. StackInv'
  BY ReadKeeps DEF EchoInv
<1>2. ASSUME NEW g \in Host
      PROVE  ToSet(wire'[g]) \subseteq ToSet(wire[g])
  BY TailQueue DEF Read, EchoInv, StackInv, Wired
<1>3. ASSUME NEW f \in OnWire' PROVE f \in OnWire
  <2>1. PICK g \in Host : f \in ToSet(wire'[g])
    BY <1>3 DEF OnWire
  <2> QED BY <2>1, <1>2 DEF OnWire
<1>4. Head(wire[h]) \in OnWire
  <2>1. IsQueue(wire[h]) /\ wire[h] # << >>
    BY DEF Read, EchoInv, StackInv, Wired
  <2>2. Head(wire[h]) \in ToSet(wire[h])
    BY <2>1, HeadTailProperties DEF IsQueue
  <2> QED BY <2>2 DEF OnWire
<1>5. ASSUME NEW g \in Host PROVE Carries(frame'[g])
  <2>1. frame'[g] = Head(wire[h]) \/ frame'[g] = frame[g]
    BY DEF Read, EchoInv, StackInv, Tables
  <2> QED BY <1>4, <2>1 DEF EchoInv, CarriesWords
<1>6. \A f \in OnWire' : Carries(f) /\ (f.src \in Macs => Parses(f))
  BY <1>3 DEF EchoInv, CarriesWords, SentParses
<1> QED BY <1>1, <1>5, <1>6 DEF EchoInv, CarriesWords, Carries, SentParses, Macs, Parses

LEMMA QuietKeepsEcho ==
  ASSUME NEW h \in Host
  PROVE  EchoInv /\ (Parsed(h) \/ OutOfMemory(h) \/ Release(h) \/ HearArp(h) \/ update_arp(h) \/ Ignore(h))
           => EchoInv'
<1> SUFFICES ASSUME EchoInv, Parsed(h) \/ OutOfMemory(h) \/ Release(h) \/ HearArp(h) \/ update_arp(h) \/ Ignore(h)
             PROVE  EchoInv'
  OBVIOUS
<1>1. StackInv'
  BY QuietKeeps DEF EchoInv
<1>2. UNCHANGED wire /\ \A g \in Host : frame'[g] = frame[g] \/ frame'[g] = NoFrame
  BY DEF EchoInv, StackInv, Tables, Parsed, OutOfMemory, Release, HearArp, update_arp, Ignore
<1>3. OnWire' = OnWire
  BY <1>2 DEF OnWire
<1> QED BY <1>1, <1>2, <1>3, NoSendKeeps

LEMMA AnswerArpKeepsEcho == ASSUME NEW h \in Host PROVE EchoInv /\ AnswerArp(h) => EchoInv'
<1> SUFFICES ASSUME EchoInv, AnswerArp(h) PROVE EchoInv'
  OBVIOUS
<1>1. PICK answer : answer = ethernet(h, ArpAnswer(h, frame[h]))
  OBVIOUS
<1>2. answer.kind = "arp" /\ answer.operation = 2
  BY <1>1 DEF With, ethernet, ArpAnswer
<1>3. Delivered(answer, Host \ {h})
  BY <1>1 DEF AnswerArp, send_frame
<1>4. StackInv' /\ \A e \in OnWire' : e \in OnWire \/ e = answer
  BY <1>3, DeliveredIsSent, AnswerKeeps DEF EchoInv, StackInv
<1>5. \A g \in Host : frame'[g] = frame[g]
  BY DEF AnswerArp
<1>6. Carries(answer) /\ Parses(answer)
  BY <1>2 DEF Carries, Parses
<1> QED BY <1>4, <1>5, <1>6, SendingKeeps

LEMMA AnswerEchoKeepsEcho == ASSUME NEW h \in Host PROVE EchoInv /\ AnswerEcho(h) => EchoInv'
<1> SUFFICES ASSUME EchoInv, AnswerEcho(h) PROVE EchoInv'
  OBVIOUS
<1>1. PICK answer : answer = ethernet(h, EchoAnswer(h, frame[h]))
  OBVIOUS
<1>2. frame[h].data \in Seq(Nat)
  BY DEF AnswerEcho, Processing, EchoInv, CarriesWords, Carries
<1>3. Delivered(answer, Host \ {h})
  BY <1>1 DEF AnswerEcho, send_frame
<1>4. StackInv' /\ \A e \in OnWire' : e \in OnWire \/ e = answer
  BY <1>3, DeliveredIsSent, AnswerKeeps DEF EchoInv, StackInv
<1>5. \A g \in Host : frame'[g] = frame[g]
  BY DEF AnswerEcho
<1>6. Carries(answer) /\ Parses(answer)
  BY <1>1, <1>2, EchoAnswerParses
<1> QED BY <1>4, <1>5, <1>6, SendingKeeps

LEMMA NextKeepsEcho == EchoInv /\ [Next]_vars => EchoInv'
<1>1. EchoInv /\ UNCHANGED vars => EchoInv'
  <2> SUFFICES ASSUME EchoInv, UNCHANGED vars PROVE EchoInv'
    OBVIOUS
  <2>1. StackInv' /\ UNCHANGED <<wire, frame>>
    BY DEF EchoInv, StackInv, Wired, Tables, vars
  <2>2. OnWire' = OnWire
    BY <2>1 DEF OnWire
  <2> QED BY <2>1, <2>2, NoSendKeeps
<1> QED BY <1>1, StrangerKeepsEcho, ReadKeepsEcho, QuietKeepsEcho, AnswerArpKeepsEcho,
           AnswerEchoKeepsEcho DEF Next, Turn

(* Whatever an echo request carries, and however long it is, its answer has  *)
(* a checksum the next stack accepts: every frame a stack puts on the wire   *)
(* is one that parse_ethernet takes.                                        *)
THEOREM AnswersAreAccepted == Spec => []SentParses
<1>1. EchoInv => SentParses
  BY DEF EchoInv
<1> QED BY <1>1, InitEcho, NextKeepsEcho, PTL DEF Spec
=============================================================================
