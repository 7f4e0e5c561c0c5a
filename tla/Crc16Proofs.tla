----------------------------- MODULE Crc16Proofs -----------------------------
(* What the checksum tells apart, for topics of any length.  The register  *)
(* of every turn is determined by a recursion over the turns: that there   *)
(* is a function which satisfies it, and what holds after every turn, is   *)
(* proved by looking at the first turn at which it would not.              *)
EXTENDS Crc16, WellFoundedInduction, TLAPS

(* There is a first one. *)
LEMMA FirstOf ==
  ASSUME NEW S \in SUBSET Nat, S # {}
  PROVE  \E n \in S : \A m \in S : n <= m
<1>1. PICK n \in S : \A m \in S : ~ (<<m, n>> \in OpToRel(<, Nat))
  BY NatLessThanWellFounded, WFMin
<1>2. \A m \in S : ~ (m < n)
  BY <1>1, Zenon DEF OpToRel
<1> QED
  BY <1>2

(* The places of the next register. *)
LEMMA StepMember ==
  ASSUME NEW reg \in Register, NEW bit \in BOOLEAN
  PROVE  /\ Step(reg, bit) \in Register
         /\ 0 \in Step(reg, bit) <=> (bit # (15 \in reg))
         /\ \A j \in 1 .. 15 :
              j \in Step(reg, bit) <=> ((j - 1 \in reg) # (15 \in reg /\ j \in Polynomial))
<1>1. /\ Shifted(reg, bit) \in Register
      /\ 0 \in Shifted(reg, bit) <=> bit
      /\ \A j \in 1 .. 15 : j \in Shifted(reg, bit) <=> j - 1 \in reg
  BY DEF Shifted, Register, Places
<1>2. Polynomial \in Register /\ 0 \in Polynomial
  BY DEF Polynomial, Register, Places
<1> HIDE DEF Polynomial
<1>3. CASE 15 \in reg
  <2>1. Step(reg, bit) = SymDiff(Shifted(reg, bit), Polynomial)
    BY <1>3 DEF Step
  <2>2. /\ Step(reg, bit) \in Register
        /\ \A j : j \in Step(reg, bit) <=> ((j \in Shifted(reg, bit)) # (j \in Polynomial))
    BY <1>1, <1>2, <2>1 DEF SymDiff, Register
  <2> QED
    BY <1>1, <1>2, <1>3, <2>2
<1>4. CASE 15 \notin reg
  BY <1>1, <1>4 DEF Step
<1> QED
  BY <1>3, <1>4

LEMMA BitTyped ==
  ASSUME NEW topic, NEW n
  PROVE  BitOf(topic, n) \in BOOLEAN
BY DEF BitOf, CharBit

(* A run of the register over the turns up to m. *)
IsRun(topic, f, m) ==
  /\ f \in [0 .. m -> Register]
  /\ f[0] = {}
  /\ \A n \in 1 .. m : f[n] = Step(f[n - 1], BitOf(topic, n))

LEMMA RunExists ==
  ASSUME NEW topic, NEW m \in Nat
  PROVE  \E f : IsRun(topic, f, m)
<1> DEFINE Bad == {n \in Nat : ~ \E f : IsRun(topic, f, n)}
<1>1. CASE Bad = {}
  BY <1>1
<1>2. CASE Bad # {}
  <2>1. PICK n \in Bad : \A k \in Bad : n <= k
    BY <1>2, FirstOf
  <2>2. CASE n = 0
    <3>1. IsRun(topic, [k \in 0 .. 0 |-> {}], 0)
      BY DEF IsRun, Register
    <3> QED
      BY <2>2, <3>1
  <2>3. CASE n # 0
    <3>1. n - 1 \in Nat /\ n - 1 \notin Bad
      BY <2>1, <2>3
    <3>2. PICK f : IsRun(topic, f, n - 1)
      BY <3>1
    <3> DEFINE g == [k \in 0 .. n |-> IF k = n THEN Step(f[n - 1], BitOf(topic, n)) ELSE f[k]]
    <3>3. f[n - 1] \in Register /\ \A k \in 0 .. n - 1 : f[k] \in Register
      BY <3>1, <3>2 DEF IsRun
    <3>4. g \in [0 .. n -> Register]
      BY <3>3, StepMember, BitTyped
    <3>5. g[0] = {}
      BY <2>3, <3>2 DEF IsRun
    <3>6. ASSUME NEW k \in 1 .. n
          PROVE  g[k] = Step(g[k - 1], BitOf(topic, k))
      <4>1. g[k - 1] = f[k - 1]
        OBVIOUS
      <4>2. CASE k = n
        BY <4>1, <4>2
      <4>3. CASE k # n
        <5>1. k \in 1 .. n - 1 /\ g[k] = f[k]
          BY <4>3
        <5> QED
          BY <3>2, <4>1, <5>1 DEF IsRun
      <4> QED
        BY <4>2, <4>3
    <3> HIDE DEF g
    <3>7. IsRun(topic, g, n)
      BY <3>4, <3>5, <3>6 DEF IsRun
    <3> QED
      BY <3>7
  <2> QED
    BY <2>2, <2>3
<1> QED
  BY <1>1, <1>2

LEMMA RegistersRun ==
  ASSUME NEW topic, Len(topic) \in Nat
  PROVE  IsRun(topic, Registers(topic), Turns(topic))
<1> DEFINE T == Turns(topic)
           next(f) == [n \in 0 .. T |-> IF n = 0 THEN {} ELSE Step(f[n - 1], BitOf(topic, n))]
<1>1. T \in Nat
  BY DEF Turns
<1> HIDE DEF T
<1>2. PICK f : IsRun(topic, f, T)
  BY <1>1, RunExists
<1>3. f = next(f)
  <2>1. \A n \in 0 .. T : n # 0 => n \in 1 .. T
    BY <1>1
  <2> QED
    BY <1>2, <2>1 DEF IsRun
<1>4. Registers(topic) = CHOOSE g : g = next(g)
  BY DEF Registers, T
<1>5. Registers(topic) = next(Registers(topic))
  BY <1>3, <1>4
<1> DEFINE reg == Registers(topic)
<1>6. /\ reg[0] = {} /\ DOMAIN reg = 0 .. T /\ reg = [n \in 0 .. T |-> reg[n]]
      /\ \A n \in 1 .. T : reg[n] = Step(reg[n - 1], BitOf(topic, n))
  BY <1>1, <1>5
<1> HIDE DEF reg
<1> DEFINE Bad == {n \in 0 .. T : reg[n] \notin Register}
<1>7. ASSUME Bad # {}
      PROVE  FALSE
  <2>4. Bad \in SUBSET Nat
    BY <1>1
  <2>1. PICK n \in Bad : \A k \in Bad : n <= k
    BY <1>7, <2>4, FirstOf
  <2>2. n # 0
    BY <1>6, <2>1 DEF Register
  <2>3. n - 1 \in 0 .. T /\ n - 1 \notin Bad /\ n \in 1 .. T
    BY <1>1, <2>1, <2>2
  <2> QED
    BY <1>6, <2>1, <2>3, StepMember, BitTyped
<1>8. \A n \in 0 .. T : reg[n] \in Register
  BY <1>7
<1> QED
  BY <1>6, <1>8 DEF IsRun, T, reg

-----------------------------------------------------------------------------
(* Two runs *)

SameBit(t, u, n) == BitOf(t, n) = BitOf(u, n)

(* Nothing is lost in a turn. *)
LEMMA StepInjective ==
  ASSUME NEW r \in Register, NEW s \in Register, NEW bit \in BOOLEAN,
         Step(r, bit) = Step(s, bit)
  PROVE  r = s
<1>1. 15 \in r <=> 15 \in s
  BY StepMember
<1>2. \A j \in 1 .. 15 : j - 1 \in r <=> j - 1 \in s
  BY <1>1, StepMember
<1>3. \A i \in 0 .. 14 : i \in r <=> i \in s
  <2> TAKE i \in 0 .. 14
  <2>1. i + 1 \in 1 .. 15 /\ (i + 1) - 1 = i
    OBVIOUS
  <2> QED
    BY <1>2, <2>1
<1>4. \A i \in Places : i = 15 \/ i \in 0 .. 14
  BY DEF Places
<1> QED
  BY <1>1, <1>3, <1>4 DEF Register

(* From equal bits, equal registers. *)
LEMMA SameBefore ==
  ASSUME NEW t, NEW u, NEW f, NEW g, NEW T \in Nat, IsRun(t, f, T), IsRun(u, g, T),
         NEW lo \in 0 .. T, \A n \in 1 .. lo : SameBit(t, u, n)
  PROVE  f[lo] = g[lo]
<1> DEFINE Bad == {n \in 0 .. lo : f[n] # g[n]}
<1>1. Bad \in SUBSET Nat
  OBVIOUS
<1>2. ASSUME Bad # {}
      PROVE  FALSE
  <2>1. PICK n \in Bad : \A k \in Bad : n <= k
    BY <1>1, <1>2, FirstOf
  <2>2. n # 0
    BY <2>1 DEF IsRun
  <2>3. n - 1 \in 0 .. lo /\ n - 1 \notin Bad /\ n \in 1 .. lo /\ n \in 1 .. T
    BY <2>1, <2>2
  <2> QED
    BY <2>1, <2>3 DEF IsRun, SameBit
<1> QED
  BY <1>2

(* From equal registers, back over equal bits, to equal registers. *)
LEMMA SameAfter ==
  ASSUME NEW t, NEW u, NEW f, NEW g, NEW T \in Nat, IsRun(t, f, T), IsRun(u, g, T),
         NEW hi \in 0 .. T, \A n \in hi + 1 .. T : SameBit(t, u, n), f[T] = g[T]
  PROVE  f[hi] = g[hi]
<1> DEFINE Bad == {k \in 0 .. T - hi : f[T - k] # g[T - k]}
<1>1. Bad \in SUBSET Nat
  OBVIOUS
<1>2. ASSUME Bad # {}
      PROVE  FALSE
  <2>1. PICK k \in Bad : \A l \in Bad : k <= l
    BY <1>1, <1>2, FirstOf
  <2>2. k # 0
    BY <2>1
  <2>3. k - 1 \in 0 .. T - hi /\ k - 1 \notin Bad /\ T - (k - 1) = (T - k) + 1
    BY <2>1, <2>2
  <2> DEFINE n == T - k
  <2>4. /\ n \in 0 .. T /\ n + 1 \in 1 .. T /\ n + 1 \in hi + 1 .. T /\ (n + 1) - 1 = n
        /\ f[n + 1] = g[n + 1] /\ f[n] # g[n]
    BY <2>1, <2>2, <2>3
  <2> HIDE DEF n
  <2>5. Step(f[n], BitOf(t, n + 1)) = Step(g[n], BitOf(t, n + 1))
    BY <2>4 DEF IsRun, SameBit
  <2>6. f[n] \in Register /\ g[n] \in Register
    BY <2>4 DEF IsRun
  <2> QED
    BY <2>4, <2>5, <2>6, StepInjective, BitTyped
<1>3. T - hi \in 0 .. T - hi /\ T - (T - hi) = hi
  OBVIOUS
<1> QED
  BY <1>2, <1>3

(* From equal registers, for sixteen turns: a difference between two bits  *)
(* moves up place by place, and none is pushed out.                        *)
Differ(t, u, f, g, n, m) ==
  \A j \in Places : (j \in f[n] <=> j \in g[n]) <=> (j < m => SameBit(t, u, n - j))

LEMMA Window ==
  ASSUME NEW t, NEW u, NEW f, NEW g, NEW T \in Nat, IsRun(t, f, T), IsRun(u, g, T),
         NEW lo \in Nat, lo + 16 <= T, f[lo] = g[lo], NEW m \in 0 .. 16
  PROVE  Differ(t, u, f, g, lo + m, m)
<1> DEFINE Bad == {k \in 0 .. 16 : ~ Differ(t, u, f, g, lo + k, k)}
<1>1. Bad \in SUBSET Nat
  OBVIOUS
<1>2. ASSUME Bad # {}
      PROVE  FALSE
  <2>1. PICK k \in Bad : \A l \in Bad : k <= l
    BY <1>1, <1>2, FirstOf
  <2>2. k # 0
    <3>1. Differ(t, u, f, g, lo + 0, 0)
      BY DEF Differ, Places
    <3> QED
      BY <2>1, <3>1
  <2> DEFINE n == lo + k
  <2>3. /\ k \in 1 .. 16 /\ k - 1 \in 0 .. 15 /\ k - 1 \notin Bad
        /\ n - 1 = lo + (k - 1) /\ n \in 1 .. T /\ n - 1 \in 0 .. T /\ n \in Nat
    BY <2>1, <2>2
  <2>4. Differ(t, u, f, g, n - 1, k - 1)
    BY <2>3
  <2> HIDE DEF n, Bad
  <2>5. /\ f[n] = Step(f[n - 1], BitOf(t, n)) /\ g[n] = Step(g[n - 1], BitOf(u, n))
        /\ f[n - 1] \in Register /\ g[n - 1] \in Register
    BY <2>3 DEF IsRun
  <2>6. 15 \in f[n - 1] <=> 15 \in g[n - 1]
    BY <2>3, <2>4 DEF Differ, Places
  <2>7. (0 \in f[n] <=> 0 \in g[n]) <=> SameBit(t, u, n)
    BY <2>5, <2>6, StepMember, BitTyped DEF SameBit
  <2>8. ASSUME NEW j \in 1 .. 15
        PROVE  (j \in f[n] <=> j \in g[n]) <=> (j < k => SameBit(t, u, n - j))
    <3>1. (j \in f[n] <=> j \in g[n]) <=> (j - 1 \in f[n - 1] <=> j - 1 \in g[n - 1])
      BY <2>5, <2>6, StepMember, BitTyped
    <3>2. j - 1 \in Places /\ (j - 1 < k - 1 <=> j < k) /\ (n - 1) - (j - 1) = n - j
      BY <2>3 DEF Places
    <3> QED
      BY <2>4, <3>1, <3>2 DEF Differ
  <2>9. \A j \in Places : j = 0 \/ j \in 1 .. 15
    BY DEF Places
  <2>10. 0 < k /\ n - 0 = n
    BY <2>3
  <2>11. Differ(t, u, f, g, n, k)
    BY <2>7, <2>8, <2>9, <2>10 DEF Differ
  <2> QED
    BY <2>1, <2>11 DEF Bad, n
<1> QED
  BY <1>2

(* Sixteen bits are told apart by the register, and stay so. *)
LEMMA WindowKept ==
  ASSUME NEW t, NEW u, NEW f, NEW g, NEW T \in Nat, IsRun(t, f, T), IsRun(u, g, T),
         NEW lo \in Nat, lo + 16 <= T, f[T] = g[T],
         \A n \in 1 .. T : n \in lo + 1 .. lo + 16 \/ SameBit(t, u, n),
         NEW n \in 1 .. T
  PROVE  SameBit(t, u, n)
<1>1. f[lo] = g[lo]
  <2>1. \A k \in 1 .. lo : SameBit(t, u, k)
    OBVIOUS
  <2>2. lo \in 0 .. T
    OBVIOUS
  <2> QED
    BY <2>1, <2>2, SameBefore
<1>2. f[lo + 16] = g[lo + 16]
  <2>1. \A k \in (lo + 16) + 1 .. T : SameBit(t, u, k)
    OBVIOUS
  <2>2. lo + 16 \in 0 .. T
    OBVIOUS
  <2> QED
    BY <2>1, <2>2, SameAfter
<1>3. Differ(t, u, f, g, lo + 16, 16)
  BY <1>1, Window
<1>4. ASSUME n \in lo + 1 .. lo + 16
      PROVE  SameBit(t, u, n)
  <2> DEFINE j == lo + 16 - n
  <2>1. j \in Places /\ j < 16 /\ (lo + 16) - j = n
    BY <1>4 DEF Places
  <2> HIDE DEF j
  <2> QED
    BY <1>2, <1>3, <2>1 DEF Differ
<1> QED
  BY <1>4

-----------------------------------------------------------------------------
(* Characters *)

LEMMA CharOfBits ==
  ASSUME NEW c \in Char, NEW d \in Char, \A k \in 1 .. 8 : CharBit(c, k) = CharBit(d, k)
  PROVE  c = d
<1>1. /\ (c \div 1) % 2 = 1 <=> (d \div 1) % 2 = 1
      /\ (c \div 2) % 2 = 1 <=> (d \div 2) % 2 = 1
      /\ (c \div 4) % 2 = 1 <=> (d \div 4) % 2 = 1
      /\ (c \div 8) % 2 = 1 <=> (d \div 8) % 2 = 1
      /\ (c \div 16) % 2 = 1 <=> (d \div 16) % 2 = 1
      /\ (c \div 32) % 2 = 1 <=> (d \div 32) % 2 = 1
      /\ (c \div 64) % 2 = 1 <=> (d \div 64) % 2 = 1
      /\ (c \div 128) % 2 = 1 <=> (d \div 128) % 2 = 1
  BY DEF CharBit, Power
<1>2. c \in Nat /\ d \in Nat /\ c < 256 /\ d < 256
  BY DEF Char
<1> QED
  BY <1>1, <1>2, SMT

(* The turns of a character. *)
LEMMA TurnOf ==
  ASSUME NEW topic \in Seq(Char), NEW i \in 1 .. Len(topic), NEW k \in 1 .. 8,
         NEW n \in Nat, n = 8 * (i - 1) + k
  PROVE  n \in 1 .. Turns(topic) /\ BitOf(topic, n) = CharBit(topic[i], k)
<1>1. n \in 1 .. Turns(topic) /\ n <= 8 * Len(topic)
  BY DEF Turns
<1>2. ((n - 1) \div 8) + 1 = i /\ ((n - 1) % 8) + 1 = k
  OBVIOUS
<1>3. BitOf(topic, n) = CharBit(topic[i], k)
  BY <1>1, <1>2 DEF BitOf, CharBit
<1> QED
  BY <1>1, <1>3

(* Outside the window of two neighbouring characters the bits agree. *)
LEMMA NeighbourBits ==
  ASSUME NEW t \in Seq(Char), NEW u \in Seq(Char), Len(t) = Len(u), NEW k \in 1 .. Len(t),
         \A i \in DOMAIN t : i \notin {k, k + 1} => t[i] = u[i],
         NEW n \in 1 .. Turns(t), n \notin 8 * (k - 1) + 1 .. 8 * (k - 1) + 16
  PROVE  SameBit(t, u, n)
<1> DEFINE i == (n - 1) \div 8 + 1
<1>1. CASE n > 8 * Len(t)
  <2>1. ~ (n <= 8 * Len(t))
    BY <1>1
  <2> QED
    BY <2>1 DEF SameBit, BitOf
<1>2. CASE n <= 8 * Len(t)
  <2>1. n \in Nat /\ n >= 1
    BY DEF Turns
  <2>2. i \in 1 .. Len(t)
    BY <1>2, <2>1
  <2>3. i # k /\ i # k + 1
    BY <2>1
  <2>4. t[i] = u[i]
    BY <2>2, <2>3
  <2> QED
    BY <2>4 DEF SameBit, BitOf
<1> QED
  BY <1>1, <1>2 DEF Turns

(* Two topics of one length that differ in one character, or in two        *)
(* neighbouring ones, have different checksums, however long they are and  *)
(* wherever in them they differ (datatag.cpp:40-90).                       *)
THEOREM NeighboursDiffer ==
  ASSUME NEW t \in Seq(Char), NEW u \in Seq(Char), Neighbours(t, u), Crc(t) = Crc(u)
  PROVE  t = u
<1> DEFINE T == Turns(t)
           f == Registers(t)
           g == Registers(u)
<1>1. Len(t) = Len(u) /\ Len(t) \in Nat /\ T \in Nat /\ Turns(u) = T
  BY DEF Neighbours, Turns
<1>2. IsRun(t, f, T) /\ IsRun(u, g, T)
  BY <1>1, RegistersRun
<1>3. f[T] = g[T]
  <2>1. f[T] \in Register /\ g[T] \in Register
    BY <1>1, <1>2 DEF IsRun
  <2>2. {15 - i : i \in f[T]} = {15 - i : i \in g[T]}
    BY <1>1 DEF Crc
  <2> HIDE DEF f, g, T
  <2>3. \A i \in Places : i \in f[T] <=> i \in g[T]
    <3> TAKE i \in Places
    <3>1. i \in Int /\ \A x \in Places : x \in Int
      BY DEF Places
    <3>2. \A x, y \in Places : 15 - x = 15 - y => x = y
      BY <3>1
    <3>3. i \in f[T] <=> 15 - i \in {15 - x : x \in f[T]}
      BY <2>1, <3>2 DEF Register
    <3>4. i \in g[T] <=> 15 - i \in {15 - x : x \in g[T]}
      BY <2>1, <3>2 DEF Register
    <3> QED
      BY <2>2, <3>3, <3>4
  <2> QED
    BY <2>1, <2>3 DEF Register
<1>4. PICK k \in 1 .. Len(t) : \A i \in DOMAIN t : i \notin {k, k + 1} => t[i] = u[i]
  BY DEF Neighbours
<1> DEFINE lo == 8 * (k - 1)
<1>5. lo \in Nat /\ lo + 16 <= T
  BY <1>1 DEF Turns
<1> HIDE DEF T, f, g
<1>6. \A n \in 1 .. T : n \in lo + 1 .. lo + 16 \/ SameBit(t, u, n)
  BY <1>1, <1>4, NeighbourBits DEF T
<1> HIDE DEF lo
<1>7. \A n \in 1 .. T : SameBit(t, u, n)
  BY <1>1, <1>2, <1>3, <1>5, <1>6, WindowKept
<1>8. ASSUME NEW i \in 1 .. Len(t)
      PROVE  t[i] = u[i]
  <2>1. \A b \in 1 .. 8 : CharBit(t[i], b) = CharBit(u[i], b)
    <3> TAKE b \in 1 .. 8
    <3> DEFINE n == 8 * (i - 1) + b
    <3>0. n \in Nat /\ n = 8 * (i - 1) + b
      OBVIOUS
    <3> HIDE DEF n
    <3>1. n \in 1 .. T /\ BitOf(t, n) = CharBit(t[i], b)
      BY <3>0, TurnOf DEF T
    <3>2. i \in 1 .. Len(u)
      BY <1>1
    <3>3. BitOf(u, n) = CharBit(u[i], b)
      BY <3>0, <3>2, TurnOf
    <3> QED
      BY <1>7, <3>1, <3>3 DEF SameBit
  <2>2. t[i] \in Char /\ u[i] \in Char
    BY <1>1
  <2> QED
    BY <2>1, <2>2, CharOfBits
<1> QED
  BY <1>1, <1>8
=============================================================================
