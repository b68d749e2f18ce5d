----------------------------- MODULE ElksProofs -----------------------------
(***************************************************************************)
(* What the loader accepts, what the break and the stack are kept to and   *)
(* where the environment lies, for every word size, every executable header*)
(* and every environment.                                                   *)
(***************************************************************************)
EXTENDS ElksProcess, TLAPS, WellFoundedInduction

\* Arithmetic of the widths and the roundings.
LEMMA WordType ==
    ASSUME NEW n \in Int
    PROVE  /\ ToWord(n) \in Word
           /\ n \in Word => ToWord(n) = n
  BY ElksAssumption, SMT DEF ToWord, Word

LEMMA DWordType ==
    ASSUME NEW n \in Int
    PROVE  /\ ToDWord(n) \in DWord
           /\ n \in DWord => ToDWord(n) = n
<1>1. DWordMod \in Nat /\ DWordMod > 0
  <2>1. WordMod * Para \in Nat
    BY ElksAssumption
  <2> QED
    BY <2>1, ElksAssumption
<1> QED
  BY <1>1, SMT DEF ToDWord, DWord

LEMMA EvenRounding ==
    ASSUME NEW n \in Nat
    PROVE  /\ EvenUp(n) \in Nat /\ EvenUp(n) % 2 = 0 /\ n <= EvenUp(n) /\ EvenUp(n) <= n + 1
           /\ EvenDown(n) \in Nat /\ EvenDown(n) <= n /\ (n % 2 = 0 => EvenDown(n) = n)
  BY DEF EvenUp, EvenDown

LEMMA EvenUpMonotone ==
    ASSUME NEW m \in Nat, NEW n \in Nat, m <= n
    PROVE  EvenUp(m) <= EvenUp(n)
  BY DEF EvenUp

LEMMA MultipleOfEven ==
    ASSUME NEW p \in Nat, NEW k \in Nat, p % 2 = 0
    PROVE  k * p \in Nat /\ (k * p) % 2 = 0
<1>1. PICK q \in Nat : p = 2 * q
  <2>1. p = 2 * (p \div 2) /\ p \div 2 \in Nat
    OBVIOUS
  <2> QED
    BY <2>1
<1> DEFINE kq == k * q
           kp == k * p
<1>2. kq \in Nat
  OBVIOUS
<1>3. kp = 2 * kq
  BY <1>1
<1>4. kp \in Nat /\ kp % 2 = 0
  <2> HIDE DEF kq, kp
  <2> QED
    BY <1>2, <1>3
<1> QED
  BY <1>4

\* Multiples keep their order.
LEMMA MultipleMonotone ==
    ASSUME NEW j \in Nat, NEW k \in Nat, NEW p \in Nat, j <= k
    PROVE  j * p <= k * p /\ j * p \in Nat /\ k * p \in Nat
<1> DEFINE d == k - j
           jp == j * p
           dp == d * p
<1>1. d \in Nat /\ k = j + d
  OBVIOUS
<1>2. k * p = jp + dp
  <2> HIDE DEF d
  <2> QED
    BY <1>1
<1>3. jp \in Nat /\ dp \in Nat
  <2> HIDE DEF d
  <2> QED
    BY <1>1
<1> HIDE DEF jp, dp
<1>4. jp <= jp + dp /\ jp + dp \in Nat
  BY <1>3
<1> QED
  BY <1>2, <1>3, <1>4 DEF jp

LEMMA ParaType ==
    ASSUME NEW n \in Int
    PROVE  ParaUp(n) \in Nat /\ ParaUp(n) % 2 = 0 /\ ParaUp(n) \div Para \in Nat
<1> DEFINE m == ToDWord(n + Para - 1)
           k == m \div Para
<1>1. m \in Nat /\ Para \in Nat /\ Para > 0 /\ Para % 2 = 0
  BY ElksAssumption, DWordType DEF DWord
<1>2. k \in Nat
  <2> HIDE DEF m
  <2> QED
    BY <1>1, SMT
<1>3. k * Para \in Nat /\ (k * Para) % 2 = 0
  <2> HIDE DEF k
  <2> QED
    BY <1>1, <1>2, MultipleOfEven
<1>4. ParaUp(n) = k * Para
  BY DEF ParaUp
<1>5. ParaUp(n) \div Para \in Nat
  <2> HIDE DEF k
  <2> QED
    BY <1>1, <1>3, <1>4, SMT
<1> QED
  BY <1>3, <1>4, <1>5

\* A sum that does not wrap is rounded up, and into a segment just when it fits.
LEMMA ParaRounding ==
    ASSUME NEW n \in Nat, n + Para - 1 < DWordMod
    PROVE  n <= ParaUp(n) /\ (ParaUp(n) < WordMod <=> n <= MaxSegment)
<1> DEFINE m == n + Para - 1
           k == m \div Para
           kp == k * Para
           r == m % Para
           w == WordMod \div Para
<1>1. /\ m \in Nat /\ Para \in Nat /\ Para > 0 /\ WordMod \in Nat /\ WordMod % Para = 0
  BY ElksAssumption
<1>2. ParaUp(n) = kp
  <2>1. DWordMod \in Nat
    BY ElksAssumption
  <2>2. ToDWord(n + Para - 1) = n + Para - 1
    BY <1>1, <2>1, DWordType DEF DWord
  <2> QED
    BY <2>2 DEF ParaUp
<1>3. k \in Nat /\ m = kp + r /\ r \in Nat /\ r < Para
  <2> HIDE DEF m
  <2> QED
    BY <1>1, SMT
<1>4. w \in Nat /\ WordMod = w * Para
  BY <1>1, SMT
<1>5. kp \in Nat
  <2> HIDE DEF k
  <2> QED
    BY <1>1, <1>3
<1>6. n <= kp /\ kp <= n + Para - 1
  <2> HIDE DEF kp, r
  <2> QED
    BY <1>1, <1>3, <1>5
<1>7. ASSUME n <= MaxSegment PROVE kp < WordMod
  <2> HIDE DEF kp
  <2> QED
    BY <1>1, <1>5, <1>6, <1>7 DEF MaxSegment
<1>8. ASSUME ~(n <= MaxSegment) PROVE ~(kp < WordMod)
  <2>1. w <= k
    <3> SUFFICES ASSUME ~(w <= k) PROVE FALSE
      OBVIOUS
    <3>1. k + 1 <= w /\ k + 1 \in Nat
      <4> HIDE DEF k, w
      <4> QED
        BY <1>3, <1>4
    <3>2. (k + 1) * Para <= w * Para
      <4> HIDE DEF k, w
      <4> QED
        BY <1>1, <1>4, <3>1, MultipleMonotone
    <3>3. (k + 1) * Para = kp + Para
      <4> HIDE DEF k
      <4> QED
        BY <1>1, <1>3
    <3>4. kp + Para <= WordMod
      BY <1>4, <3>2, <3>3
    <3> HIDE DEF kp
    <3> QED
      BY <1>1, <1>5, <1>6, <1>8, <3>4 DEF MaxSegment
  <2>2. w * Para <= kp
    <3> HIDE DEF w, k
    <3> QED
      BY <1>1, <1>3, <1>4, <2>1, MultipleMonotone
  <2>3. WordMod <= kp
    BY <1>4, <2>2
  <2> HIDE DEF kp
  <2> QED
    BY <1>1, <1>5, <2>3
<1> HIDE DEF kp
<1> QED
  BY <1>2, <1>6, <1>7, <1>8

\* Every offset into the segment has an address that a DWord holds.
LEMMA BaseType ==
    ASSUME NEW h \in Headers
    PROVE  Base(h) \in Nat /\ Base(h) % 2 = 0 /\ Base(h) + WordMod <= DWordMod
<1> DEFINE ss == ToWord(LoadSegment + (ParaUp(h.tseg) \div Para))
<1>1. h.tseg \in Int /\ LoadSegment \in Int /\ Para \in Nat /\ Para % 2 = 0 /\ WordMod \in Nat
  BY ElksAssumption DEF DWord, Word
<1>2. ss \in Word
  BY <1>1, ParaType, WordType
<1>3. ss \in Nat /\ ss <= WordMod
  <2> HIDE DEF ss
  <2> QED
    BY <1>1, <1>2 DEF Word
<1>4. Base(h) = ss * Para
  BY DEF Base
<1> HIDE DEF ss
<1>5. ss * Para \in Nat /\ (ss * Para) % 2 = 0 /\ ss * Para <= WordMod * Para
  BY <1>1, <1>3, MultipleOfEven, MultipleMonotone
<1> DEFINE sp1 == ss * Para
           wp == WordMod * Para
<1>6. wp \in Nat /\ wp + WordMod <= DWordMod /\ DWordMod \in Nat
  BY ElksAssumption
<1>7. sp1 \in Nat /\ sp1 <= wp
  BY <1>5
<1>8. sp1 + WordMod <= DWordMod
  <2> HIDE DEF sp1, wp
  <2> QED
    BY <1>1, <1>6, <1>7
<1> QED
  BY <1>4, <1>5, <1>8

-----------------------------------------------------------------------------
(* Sizes of strings.                                                         *)

\* A set of natural numbers that is not empty has a lowest element.
LEMMA LowestExists ==
    ASSUME NEW S \in SUBSET Nat, S # {}
    PROVE  \E h \in S : \A g \in S : h <= g
<1>1. \E h \in S : \A g \in S : <<g, h>> \notin OpToRel(<, Nat)
  BY NatLessThanWellFounded, WFMin, Zenon
<1>2. \A g, h \in Nat : <<g, h>> \notin OpToRel(<, Nat) => h <= g
  BY DEF OpToRel
<1> QED
  BY <1>1, <1>2

\* The recursive definition of the sums has a solution: if there were none up to some
\* number of strings there would be a lowest such number, which is not 0, and the
\* solution up to the number before it can be continued.
LEMMA BytesRecursion ==
    ASSUME NEW strings, Len(strings) \in Nat
    PROVE  /\ Bytes(strings, 0) = 0
           /\ \A n \in 1 .. Len(strings) :
                Bytes(strings, n) = Bytes(strings, n - 1) + strings[n]
<1> DEFINE body(f, d) == [i \in 0 .. d |-> IF i = 0 THEN 0 ELSE f[i - 1] + strings[i]]
           Bad == {d \in Nat : ~\E f : f = body(f, d)}
<1>1. Bad = {}
  <2> SUFFICES ASSUME Bad # {} PROVE FALSE
    OBVIOUS
  <2>1. PICK d \in Bad : \A e \in Bad : d <= e
    <3> HIDE DEF body
    <3> QED
      BY LowestExists
  <2>2. d \in Nat /\ ~\E f : f = body(f, d)
    OBVIOUS
  <2>3. d # 0
    <3> SUFFICES ASSUME d = 0 PROVE FALSE
      OBVIOUS
    <3> DEFINE f == [i \in 0 .. d |-> 0]
    <3>1. \A i \in 0 .. d : i = 0
      OBVIOUS
    <3>2. f = body(f, d)
      BY <3>1, Zenon
    <3> QED
      BY <2>2, <3>2
  <2>4. d - 1 \in Nat /\ d - 1 \notin Bad
    <3> HIDE DEF Bad
    <3> QED
      BY <2>1, <2>2, <2>3
  <2>5. PICK g : g = body(g, d - 1)
    BY <2>4, Zenon
  <2> DEFINE f == [i \in 0 .. d |-> IF i = d THEN g[d - 1] + strings[d] ELSE g[i]]
  <2>6. \A i \in 0 .. d : f[i] = IF i = 0 THEN 0 ELSE f[i - 1] + strings[i]
    <3> SUFFICES ASSUME NEW i \in 0 .. d
                 PROVE  f[i] = IF i = 0 THEN 0 ELSE f[i - 1] + strings[i]
      OBVIOUS
    <3>1. i # 0 => i - 1 \in 0 .. d /\ i - 1 # d
      BY <2>2
    <3>2. i # 0 => f[i - 1] = g[i - 1]
      BY <3>1, Zenon
    <3>3. CASE i = d
      BY <2>3, <3>2, <3>3, Zenon
    <3>4. CASE i # d
      <4>1. f[i] = g[i] /\ i \in 0 .. d - 1
        BY <2>2, <3>4
      <4>2. g[i] = IF i = 0 THEN 0 ELSE g[i - 1] + strings[i]
        BY <2>5, <4>1, Zenon
      <4> QED
        BY <3>2, <4>1, <4>2, Zenon
    <3> QED
      BY <3>3, <3>4
  <2>7. f = body(f, d)
    BY <2>6, Zenon
  <2> QED
    BY <2>2, <2>7
<1> DEFINE L == Len(strings)
           M == CHOOSE f : f = body(f, L)
<1>2. M = body(M, L)
  <2>1. L \notin Bad
    BY <1>1
  <2>2. \E f : f = body(f, L)
    BY <2>1, Zenon
  <2> QED
    BY <2>2, Zenon
<1>3. \A n : Bytes(strings, n) = M[n]
  BY Zenon DEF Bytes
<1> HIDE DEF M, L
<1>4. \A i \in 0 .. L : M[i] = IF i = 0 THEN 0 ELSE M[i - 1] + strings[i]
  BY <1>2, Zenon
<1>5. L \in Nat /\ L = Len(strings) /\ 0 \in 0 .. L
  BY DEF L
<1>6. M[0] = 0
  BY <1>4, <1>5, Zenon
<1>7. \A n \in 1 .. L : M[n] = M[n - 1] + strings[n]
  <2>1. \A n \in 1 .. L : n \in 0 .. L /\ n # 0
    BY <1>5
  <2> QED
    BY <1>4, <2>1, Zenon
<1> QED
  BY <1>3, <1>5, <1>6, <1>7, Zenon

\* The sums grow with every string.
LEMMA BytesGrow ==
    ASSUME NEW strings \in Seq(Nat \ {0}), NEW n \in 0 .. Len(strings)
    PROVE  /\ Bytes(strings, n) \in Nat
           /\ \A i \in 1 .. n : Bytes(strings, i) <= Bytes(strings, n)
<1> DEFINE L == Len(strings)
           B(m) == Bytes(strings, m)
           Good(m) == B(m) \in Nat /\ \A i \in 1 .. m : B(i) <= B(m)
           Bad == {m \in 0 .. L : ~Good(m)}
<1>1. L \in Nat /\ \A i \in 1 .. L : strings[i] \in Nat
  OBVIOUS
<1>2. B(0) = 0 /\ \A m \in 1 .. L : B(m) = B(m - 1) + strings[m]
  BY <1>1, BytesRecursion
<1> HIDE DEF B, L
<1>3. Bad = {}
  <2> SUFFICES ASSUME Bad # {} PROVE FALSE
    OBVIOUS
  <2>1. PICK m \in Bad : \A e \in Bad : m <= e
    <3>1. Bad \in SUBSET Nat
      BY <1>1
    <3> HIDE DEF Bad
    <3> QED
      BY <3>1, LowestExists
  <2>2. m \in 0 .. L /\ ~Good(m)
    OBVIOUS
  <2>3. m # 0
    <3>1. Good(0)
      BY <1>2
    <3> QED
      BY <2>2, <3>1
  <2>4. m - 1 \in 0 .. L /\ m \in 1 .. L
    BY <1>1, <2>2, <2>3
  <2>5. Good(m - 1)
    <3>1. m - 1 \notin Bad
      <4> HIDE DEF Bad
      <4> QED
        BY <2>1, <2>2, <2>4
    <3> QED
      BY <2>4, <3>1
  <2>6. B(m) = B(m - 1) + strings[m] /\ strings[m] \in Nat
    BY <1>1, <1>2, <2>4
  <2>7. B(m) \in Nat /\ B(m - 1) <= B(m)
    BY <2>5, <2>6
  <2>8. \A i \in 1 .. m : i = m \/ i \in 1 .. m - 1
    BY <2>2
  <2>9. \A i \in 1 .. m - 1 : B(i) <= B(m) /\ B(i) \in Int
    <3> TAKE i \in 1 .. m - 1
    <3>1. i \in 0 .. L /\ i < m
      BY <1>1, <2>2
    <3>2. Good(i)
      <4>1. i \notin Bad
        <5> HIDE DEF Bad
        <5> QED
          BY <2>1, <2>2, <3>1
      <4> QED
        BY <3>1, <4>1
    <3>3. B(i) <= B(m - 1)
      BY <2>5
    <3> QED
      BY <2>5, <2>7, <3>2, <3>3
  <2>10. Good(m)
    BY <2>7, <2>8, <2>9
  <2> QED
    BY <2>2, <2>10
<1> QED
  <2>1. n \in 0 .. L
    BY DEF L
  <2>2. Good(n)
    BY <1>3, <2>1
  <2> QED
    BY <2>2 DEF B

-----------------------------------------------------------------------------
(* What the loader computes.                                                 *)

LEMMA EnvironType ==
    ASSUME NEW e \in Environments
    PROVE  /\ EnvironSize(e) \in Nat /\ EnvironSize(e) % 2 = 0
           /\ \A base \in Int : EnvironBlock(e, base) \subseteq Word
<1>1. /\ e.argv \in Seq(Nat \ {0}) /\ e.envp \in Seq(Nat \ {0})
  BY ElksAssumption
<1>2. Len(e.argv) \in Nat /\ Len(e.envp) \in Nat
  BY <1>1
<1>3. /\ Len(Strings(e)) \in Nat
      /\ \A i \in 1 .. Len(Strings(e)) : Strings(e)[i] \in Nat
      /\ \A n \in 0 .. Len(Strings(e)) : Bytes(Strings(e), n) \in Nat
  <2>1. Strings(e) \in Seq(Nat \ {0})
    BY <1>1 DEF Strings
  <2> HIDE DEF Strings
  <2> QED
    BY <2>1, BytesGrow
<1>4. \A n \in 0 .. Len(Strings(e)) : Bytes(Strings(e), n) \in Nat
  BY <1>3
<1>5. 2 + (Len(e.argv) * 2 + 2) + (Len(e.envp) * 2 + 2)
        + Bytes(Strings(e), Len(Strings(e))) \in Nat
  <2> DEFINE all == Bytes(Strings(e), Len(Strings(e)))
             a == Len(e.argv)
             b == Len(e.envp)
  <2>1. all \in Nat /\ a \in Nat /\ b \in Nat
    BY <1>2, <1>3, <1>4
  <2> HIDE DEF all, a, b
  <2>2. 2 + (a * 2 + 2) + (b * 2 + 2) + all \in Nat
    BY <2>1
  <2> QED
    BY <2>2 DEF all, a, b
<1>6. EnvironSize(e) \in Nat /\ EnvironSize(e) % 2 = 0
  BY <1>5, EvenRounding DEF EnvironSize
<1>7. ASSUME NEW base \in Int
      PROVE  EnvironBlock(e, base) \subseteq Word
  <2>1. \A n \in Int : WordAt(n) \subseteq Word
    BY WordType DEF WordAt
  <2>2. Markers(e, base) \subseteq Word
    <3>1. /\ base + 2 * (Len(e.argv) + 1) \in Int
          /\ base + 2 * (Len(e.argv) + Len(e.envp) + 2) \in Int
      BY <1>2
    <3> QED
      BY <2>1, <3>1 DEF Markers
  <2>3. ASSUME NEW i \in 1 .. Len(Strings(e))
        PROVE  Pointer(e, base, i) \subseteq Word /\ StringBytes(e, base, i) \subseteq Word
    <3>1. base + 2 * (IF i <= Len(e.argv) THEN i ELSE i + 1) \in Int
      BY <1>3
    <3>2. Bytes(Strings(e), i - 1) \in Nat
      BY <1>3, <1>4
    <3>3. ASSUME NEW k \in 0 .. Strings(e)[i] - 1
          PROVE  base + 2 * (1 + Len(e.argv) + 1 + Len(e.envp) + 1)
                   + Bytes(Strings(e), i - 1) + k \in Int
      <4> DEFINE before == Bytes(Strings(e), i - 1)
                 a == Len(e.argv)
                 b == Len(e.envp)
      <4>1. before \in Nat /\ a \in Nat /\ b \in Nat /\ k \in Int
        BY <1>2, <1>3, <3>2
      <4> HIDE DEF before, a, b
      <4>2. base + 2 * (1 + a + 1 + b + 1) + before + k \in Int
        BY <4>1
      <4> QED
        BY <4>2 DEF before, a, b
    <3>4. StringBytes(e, base, i) \subseteq Word
      BY <3>3, WordType DEF StringBytes
    <3> QED
      BY <2>1, <3>1, <3>4 DEF Pointer
  <2> QED
    BY <2>2, <2>3 DEF EnvironBlock
<1> QED
  BY <1>6, <1>7

\* A block of the computed size that does not wrap holds its parts, and none overlap.
BlockFits(e, base) ==
    LET n == Len(Strings(e))
        parts == [i \in 1 .. 2 * n |->
                    IF i <= n THEN Pointer(e, base, i) ELSE StringBytes(e, base, i - n)]
    IN  /\ EnvironBlock(e, base) \subseteq base .. base + EnvironSize(e) - 1
        /\ \A i, j \in 1 .. 2 * n : i # j => parts[i] \cap parts[j] = {}
        /\ \A i \in 1 .. 2 * n : parts[i] \cap Markers(e, base) = {}

\* The block is a row of words, the markers and pointers, and then a row of strings.
LEMMA BlockIs ==
    ASSUME NEW e \in Environments, NEW base \in Nat, base + EnvironSize(e) < WordMod
    PROVE  BlockFits(e, base)
<1> DEFINE a == Len(e.argv)
           b == Len(e.envp)
           n == Len(Strings(e))
           s(i) == Strings(e)[i]
           B(i) == Bytes(Strings(e), i)
           first == base + 2 * (n + 3)
           Slot(j) == base + 2 * j .. base + 2 * j + 1
           place(i) == IF i <= a THEN i ELSE i + 1
           top == base + EnvironSize(e)
<1>1. /\ a \in Nat /\ b \in Nat /\ n \in Nat /\ n = a + b
      /\ \A i \in 1 .. n : s(i) \in Nat \ {0}
  <2>1. e.argv \in Seq(Nat \ {0}) /\ e.envp \in Seq(Nat \ {0})
    BY ElksAssumption
  <2>2. Strings(e) \in Seq(Nat \ {0}) /\ n = a + b
    BY <2>1 DEF Strings
  <2>3. \A strings \in Seq(Nat \ {0}) :
          /\ Len(strings) \in Nat
          /\ \A i \in 1 .. Len(strings) : strings[i] \in Nat \ {0}
    OBVIOUS
  <2>4. a \in Nat /\ b \in Nat
    BY <2>1, <2>3, Zenon
  <2> HIDE DEF Strings
  <2> QED
    BY <2>2, <2>3, <2>4, Zenon
<1>2. /\ \A i \in 0 .. n : B(i) \in Nat
      /\ \A i \in 1 .. n : B(i) = B(i - 1) + s(i)
      /\ \A j \in 0 .. n : \A i \in 1 .. j : B(i) <= B(j)
  <2>1. Strings(e) \in Seq(Nat \ {0})
    <3>1. e.argv \in Seq(Nat \ {0}) /\ e.envp \in Seq(Nat \ {0})
      BY ElksAssumption
    <3> QED
      BY <3>1 DEF Strings
  <2> HIDE DEF Strings
  <2>2. \A i \in 0 .. n : Bytes(Strings(e), i) \in Nat
                          /\ \A j \in 1 .. i : Bytes(Strings(e), j) <= Bytes(Strings(e), i)
    BY <2>1, BytesGrow
  <2>3. \A i \in 1 .. n : Bytes(Strings(e), i) = Bytes(Strings(e), i - 1) + Strings(e)[i]
    BY <1>1, BytesRecursion
  <2> QED
    BY <2>2, <2>3
<1>3. first + B(n) <= top /\ top \in Nat /\ top < WordMod
  <2> DEFINE all == B(n)
  <2>1. all \in Nat
    <3> HIDE DEF n, B
    <3>1. \A m \in Nat : m \in 0 .. m
      OBVIOUS
    <3> QED
      BY <1>1, <1>2, <3>1, Zenon
  <2>2. EnvironSize(e) = EvenUp(2 + (a * 2 + 2) + (b * 2 + 2) + all)
    BY DEF EnvironSize
  <2> HIDE DEF all, a, b, n
  <2>3. 2 + (a * 2 + 2) + (b * 2 + 2) + all = 2 * (n + 3) + all
        /\ 2 * (n + 3) + all \in Nat
    BY <1>1, <2>1
  <2>4. 2 * (n + 3) + all <= EnvironSize(e) /\ EnvironSize(e) \in Nat
    BY <2>2, <2>3, EvenRounding
  <2>5. base + 2 * (n + 3) + all <= base + EnvironSize(e)
    BY <1>1, <2>1, <2>4
  <2> QED
    BY <2>4, <2>5 DEF all
<1> HIDE DEF a, b, n, s, B, top
<1>4. first \in Nat /\ WordMod \in Nat /\ B(n) \in Nat /\ first <= top
  BY <1>1, <1>2, <1>3, ElksAssumption
<1>5. ASSUME NEW x \in base .. top PROVE ToWord(x) = x
  BY <1>3, <1>4, SMT DEF ToWord
<1>6. ASSUME NEW j \in 0 .. n + 2
      PROVE  /\ WordAt(base + 2 * j) = Slot(j)
             /\ Slot(j) \subseteq base .. first - 1
  <2>1. base + 2 * j \in base .. top /\ base + 2 * j + 1 \in base .. top
        /\ base + 2 * j + 1 <= first - 1
    BY <1>1, <1>3, <1>4
  <2>2. ToWord(base + 2 * j) = base + 2 * j /\ ToWord(base + 2 * j + 1) = base + 2 * j + 1
    BY <1>5, <2>1
  <2>3. WordAt(base + 2 * j) = {base + 2 * j, base + 2 * j + 1}
    BY <2>2, Zenon DEF WordAt
  <2>4. Slot(j) = {base + 2 * j, base + 2 * j + 1}
    <3>1. \A x \in Int : x .. x + 1 = {x, x + 1}
      OBVIOUS
    <3>2. base + 2 * j \in Int
      BY <1>1
    <3> QED
      BY <3>1, <3>2, Zenon
  <2>5. Slot(j) \subseteq base .. first - 1
    BY <1>1, <2>1
  <2> HIDE DEF Slot, first
  <2> QED
    BY <2>3, <2>4, <2>5, Zenon
<1>7. \A j, k \in 0 .. n + 2 : j # k => Slot(j) \cap Slot(k) = {}
  BY <1>1
<1>8. Markers(e, base) = Slot(0) \cup Slot(a + 1) \cup Slot(n + 2)
  <2>1. /\ 0 \in 0 .. n + 2 /\ a + 1 \in 0 .. n + 2 /\ n + 2 \in 0 .. n + 2
        /\ base + 2 * 0 = base /\ a + b + 2 = n + 2
    BY <1>1
  <2>2. /\ WordAt(base + 2 * 0) = Slot(0) /\ WordAt(base + 2 * (a + 1)) = Slot(a + 1)
        /\ WordAt(base + 2 * (n + 2)) = Slot(n + 2)
    BY <1>6, <2>1
  <2>3. Markers(e, base) = WordAt(base + 2 * 0) \cup WordAt(base + 2 * (a + 1))
                             \cup WordAt(base + 2 * (n + 2))
    BY <2>1, Zenon DEF Markers, a, b
  <2> HIDE DEF Slot
  <2> QED
    BY <2>2, <2>3, Zenon
<1>9. \A i \in 1 .. n : /\ place(i) \in 0 .. n + 2 /\ Pointer(e, base, i) = Slot(place(i))
                        /\ place(i) \notin {0, a + 1, n + 2}
  <2> TAKE i \in 1 .. n
  <2>1. place(i) \in 0 .. n + 2 /\ place(i) \notin {0, a + 1, n + 2}
    BY <1>1
  <2>2. WordAt(base + 2 * place(i)) = Slot(place(i))
    BY <1>6, <2>1
  <2>3. Pointer(e, base, i) = WordAt(base + 2 * place(i))
    BY Zenon DEF Pointer, a
  <2> HIDE DEF Slot, place
  <2> QED
    BY <2>1, <2>2, <2>3, Zenon
<1>10. \A i, j \in 1 .. n : i # j => place(i) # place(j)
  BY <1>1
<1>11. \A i \in 1 .. n : /\ StringBytes(e, base, i) \subseteq first + B(i - 1) .. first + B(i) - 1
                         /\ B(i - 1) \in Nat /\ B(i) \in Nat /\ B(i) <= B(n)
  <2> TAKE i \in 1 .. n
  <2>1. B(i - 1) \in Nat /\ B(i) \in Nat /\ B(i) = B(i - 1) + s(i) /\ s(i) \in Nat /\ B(i) <= B(n)
    <3>1. i - 1 \in 0 .. n /\ i \in 0 .. n /\ n \in 0 .. n
      BY <1>1
    <3> QED
      BY <1>1, <1>2, <3>1
  <2>2. base + 2 * (1 + a + 1 + b + 1) = first
    BY <1>1
  <2>3. ASSUME NEW k \in 0 .. s(i) - 1
        PROVE  /\ ToWord(first + B(i - 1) + k) = first + B(i - 1) + k
               /\ first + B(i - 1) + k \in first + B(i - 1) .. first + B(i) - 1
    <3>1. first + B(i - 1) + k \in base .. top
          /\ first + B(i - 1) + k \in first + B(i - 1) .. first + B(i) - 1
      BY <1>1, <1>3, <1>4, <2>1
    <3> QED
      BY <1>5, <3>1
  <2>4. StringBytes(e, base, i) = {ToWord(first + B(i - 1) + k) : k \in 0 .. s(i) - 1}
    BY <2>2, Zenon DEF StringBytes, a, b, B, s
  <2> HIDE DEF first
  <2>5. StringBytes(e, base, i) \subseteq first + B(i - 1) .. first + B(i) - 1
    BY <2>3, <2>4
  <2> QED
    BY <2>1, <2>5
<1>12. \A i \in 1 .. n : StringBytes(e, base, i) \subseteq first .. top - 1
  <2> HIDE DEF first
  <2> QED
    BY <1>3, <1>4, <1>11
<1>13. \A i, j \in 1 .. n :
         i # j => StringBytes(e, base, i) \cap StringBytes(e, base, j) = {}
  <2> HIDE DEF first
  <2>1. ASSUME NEW i \in 1 .. n, NEW j \in 1 .. n, i < j
        PROVE  StringBytes(e, base, i) \cap StringBytes(e, base, j) = {}
    <3>1. B(i) <= B(j - 1) /\ B(i) \in Nat /\ B(j - 1) \in Nat
      <4>1. j - 1 \in 0 .. n /\ i \in 1 .. j - 1 /\ i \in 0 .. n
        BY <1>1, <2>1
      <4> QED
        BY <1>2, <4>1
    <3> QED
      BY <1>4, <1>11, <3>1
  <2>2. \A i, j \in 1 .. n : i # j => i < j \/ j < i
    BY <1>1
  <2> QED
    BY <2>1, <2>2
<1>14. Markers(e, base) \subseteq base .. first - 1
  <2>1. 0 \in 0 .. n + 2 /\ a + 1 \in 0 .. n + 2 /\ n + 2 \in 0 .. n + 2
    BY <1>1
  <2> HIDE DEF Slot, first
  <2> QED
    BY <1>6, <1>8, <2>1
<1>15. \A i \in 1 .. n : /\ Pointer(e, base, i) \subseteq base .. first - 1
                         /\ Pointer(e, base, i) \cap Markers(e, base) = {}
                         /\ StringBytes(e, base, i) \cap Markers(e, base) = {}
  <2> TAKE i \in 1 .. n
  <2>1. Pointer(e, base, i) \subseteq base .. first - 1
    <3> HIDE DEF Slot, first, place
    <3> QED
      BY <1>6, <1>9
  <2>2. Pointer(e, base, i) \cap Markers(e, base) = {}
    <3>1. 0 \in 0 .. n + 2 /\ a + 1 \in 0 .. n + 2 /\ n + 2 \in 0 .. n + 2
      BY <1>1
    <3> HIDE DEF Slot, place
    <3> QED
      BY <1>7, <1>8, <1>9, <3>1
  <2>3. StringBytes(e, base, i) \cap Markers(e, base) = {}
    <3> HIDE DEF first
    <3> QED
      BY <1>4, <1>12, <1>14
  <2> QED
    BY <2>1, <2>2, <2>3
<1>16. \A i, j \in 1 .. n : i # j => Pointer(e, base, i) \cap Pointer(e, base, j) = {}
  <2> HIDE DEF Slot, place
  <2> QED
    BY <1>7, <1>9, <1>10
<1>17. \A i, j \in 1 .. n : Pointer(e, base, i) \cap StringBytes(e, base, j) = {}
  <2> HIDE DEF first
  <2> QED
    BY <1>4, <1>12, <1>15
<1>18. EnvironBlock(e, base) \subseteq base .. top - 1
  <2>1. \A X : X \subseteq base .. first - 1 \/ X \subseteq first .. top - 1
                => X \subseteq base .. top - 1
    BY <1>1, <1>3, <1>4
  <2>2. EnvironBlock(e, base) = Markers(e, base)
          \cup UNION {Pointer(e, base, i) \cup StringBytes(e, base, i) : i \in 1 .. n}
    BY Zenon DEF EnvironBlock, n
  <2> HIDE DEF first
  <2>3. Markers(e, base) \subseteq base .. top - 1
    BY <1>14, <2>1
  <2>4. \A i \in 1 .. n : /\ Pointer(e, base, i) \subseteq base .. top - 1
                          /\ StringBytes(e, base, i) \subseteq base .. top - 1
    BY <1>12, <1>15, <2>1
  <2> QED
    BY <2>2, <2>3, <2>4
<1> DEFINE parts == [i \in 1 .. 2 * n |->
                       IF i <= n THEN Pointer(e, base, i) ELSE StringBytes(e, base, i - n)]
<1>19. \A i \in 1 .. 2 * n :
         \/ i \in 1 .. n /\ parts[i] = Pointer(e, base, i)
         \/ i - n \in 1 .. n /\ i > n /\ parts[i] = StringBytes(e, base, i - n)
  BY <1>1
<1> HIDE DEF parts
<1>20. \A i \in 1 .. 2 * n : parts[i] \cap Markers(e, base) = {}
  BY <1>15, <1>19, Zenon
<1>21. \A i, j \in 1 .. 2 * n : i # j => parts[i] \cap parts[j] = {}
  <2> TAKE i, j \in 1 .. 2 * n
  <2> HAVE i # j
  <2>1. i - n # j - n
    BY <1>1
  <2>2. \A X, Y : X \cap Y = {} => Y \cap X = {}
    OBVIOUS
  <2>3. CASE i \in 1 .. n /\ parts[i] = Pointer(e, base, i)
    BY <1>16, <1>17, <1>19, <2>3, Zenon
  <2>4. CASE i - n \in 1 .. n /\ parts[i] = StringBytes(e, base, i - n)
    BY <1>13, <1>17, <1>19, <2>1, <2>2, <2>4, ZenonT(60)
  <2> QED
    BY <1>19, <2>3, <2>4
<1>22. EnvironBlock(e, base) \subseteq base .. base + EnvironSize(e) - 1
  <2>1. \A size \in Nat : (base + size) - 1 = base + size - 1
    OBVIOUS
  <2>2. top = base + EnvironSize(e) /\ EnvironSize(e) \in Nat
    BY EnvironType, Zenon DEF top
  <2> QED
    BY <1>18, <2>1, <2>2, Zenon
<1> QED
  BY <1>20, <1>21, <1>22, Zenon DEF BlockFits, parts, n

LEMMA HeaderType ==
    ASSUME NEW h \in Headers
    PROVE  /\ h.dseg \in Nat /\ h.bseg \in Nat
           /\ StackSize(h) \in Word \ {0} /\ HeapSize(h) \in Word \ {0}
  BY ElksAssumption DEF StackSize, HeapSize, DWord

\* What fits is no more than what is asked for.
LEMMA NeededType ==
    ASSUME NEW h \in Headers, NEW e \in Environments
    PROVE  /\ Sections(h, e) \in Nat /\ Needed(h, e) \in Nat
           /\ Sections(h, e) <= Needed(h, e)
<1> DEFINE len == Sections(h, e)
<1>1. len \in Nat /\ HeapSize(h) \in Nat /\ MaxSegment \in Nat
  BY HeaderType, EnvironType, ElksAssumption DEF Sections, MaxSegment, Word
<1> HIDE DEF len
<1>2. \A heap, max \in Nat :
        LET all == IF heap < max THEN len + heap ELSE IF len < max THEN max ELSE len
        IN  all \in Nat /\ len <= all
  BY <1>1
<1> QED
  BY <1>1, <1>2 DEF Needed, len

\* The code's sum is the exact one unless it wraps, and what wraps does not fit.
LEMMA SegmentHolds ==
    ASSUME NEW h \in Headers, NEW e \in Environments
    PROVE  /\ SegmentSize(h, e) \in Nat /\ SegmentSize(h, e) % 2 = 0
           /\ ~SumWraps(h, e) => /\ Sections(h, e) <= SegmentSize(h, e)
                                 /\ Refused(h, e) <=> ~Fits(h, e)
           /\ SumWraps(h, e) => ~Fits(h, e)
<1> DEFINE len == Sections(h, e)
           heap == HeapSize(h)
           cut == ToDWord(len)
           all == IF heap < MaxSegment THEN ToDWord(cut + heap)
                  ELSE IF cut < MaxSegment THEN MaxSegment ELSE cut
           need == Needed(h, e)
<1>1. /\ len \in Nat /\ heap \in Nat /\ MaxSegment \in Nat /\ need \in Nat /\ len <= need
      /\ WordMod \in Nat /\ Para \in Nat /\ Para > 0 /\ DWordMod \in Nat
      /\ need = IF heap < MaxSegment THEN len + heap
                ELSE IF len < MaxSegment THEN MaxSegment ELSE len
  BY HeaderType, NeededType, ElksAssumption DEF Needed, MaxSegment, Word
<1>2. SegmentSize(h, e) = ParaUp(all)
  BY DEF SegmentSize
<1>3. all \in Int
  <2>1. cut \in Int /\ ToDWord(cut + heap) \in Int
    <3>1. cut \in Int
      BY <1>1, DWordType DEF DWord
    <3> HIDE DEF cut, heap
    <3> QED
      BY <1>1, <3>1, DWordType DEF DWord
  <2> HIDE DEF cut, heap
  <2> QED
    BY <1>1, <2>1
<1>4. ASSUME ~SumWraps(h, e) PROVE all = need /\ need + Para - 1 < DWordMod
  <2>1. need + Para - 1 < DWordMod
    <3>1. ~(need + Para - 1 >= DWordMod)
      BY <1>4 DEF SumWraps
    <3> HIDE DEF need
    <3> QED
      BY <1>1, <3>1
  <2>2. need \in DWord /\ len \in DWord
    <3> HIDE DEF need, len
    <3> QED
      BY <1>1, <2>1 DEF DWord
  <2>3. cut = len
    BY <1>1, <2>2, DWordType
  <2>4. heap < MaxSegment => ToDWord(cut + heap) = need
    <3>1. heap < MaxSegment => cut + heap = need
      BY <1>1, <2>3
    <3> QED
      BY <1>1, <2>2, <3>1, DWordType
  <2> HIDE DEF cut, heap, len, need
  <2> QED
    BY <1>1, <2>1, <2>3, <2>4
<1>5. ParaUp(all) \in Nat /\ ParaUp(all) % 2 = 0
  <2> HIDE DEF all
  <2> QED
    BY <1>3, ParaType
<1>6. ASSUME ~SumWraps(h, e)
      PROVE  len <= SegmentSize(h, e) /\ (Refused(h, e) <=> ~Fits(h, e))
  <2>1. need <= ParaUp(need) /\ (ParaUp(need) < WordMod <=> need <= MaxSegment)
    <3> HIDE DEF need
    <3> QED
      BY <1>1, <1>4, <1>6, ParaRounding
  <2>2. SegmentSize(h, e) = ParaUp(need) /\ ParaUp(need) \in Nat
    <3>1. all = need
      BY <1>4, <1>6
    <3> HIDE DEF all, need
    <3> QED
      BY <1>2, <1>5, <3>1
  <2>3. Refused(h, e) <=> ~(ParaUp(need) < WordMod)
    <3> HIDE DEF need
    <3> QED
      BY <1>1, <2>2 DEF Refused
  <2>4. Fits(h, e) <=> need <= MaxSegment
    BY DEF Fits
  <2>5. len <= SegmentSize(h, e)
    <3> HIDE DEF need, len
    <3> QED
      BY <1>1, <2>1, <2>2
  <2> HIDE DEF need
  <2> QED
    BY <2>1, <2>3, <2>4, <2>5
<1>7. ASSUME SumWraps(h, e) PROVE ~Fits(h, e)
  <2>1. need + Para - 1 >= DWordMod
    BY <1>7 DEF SumWraps
  <2> DEFINE wp == WordMod * Para
  <2>2. DWordMod >= wp + WordMod /\ wp \in Nat
    BY ElksAssumption
  <2>3. ~(need <= WordMod - Para)
    <3> HIDE DEF need, wp
    <3> QED
      BY <1>1, <2>1, <2>2
  <2> HIDE DEF need
  <2> QED
    BY <2>3 DEF Fits, MaxSegment, need
<1> HIDE DEF all
<1> QED
  BY <1>2, <1>5, <1>6, <1>7

-----------------------------------------------------------------------------
(* The inductive invariant: of the layout of a program whose sizes do not    *)
(* wrap it keeps what both the break and the stack check are compared with.  *)

Layout ==
    phase = "running" /\ ~SumWraps(header, env) =>
        /\ t_stackLow = Base(header) + t_begstack - t_minstack
        /\ t_enddata + t_minstack <= t_begstack
        /\ t_enddata <= t_endbrk
        /\ t_endbrk <= EvenUp(t_begstack - t_minstack)

IndInv == TypeOK /\ Layout /\ PushStaysInStack /\ OversizeRefused

\* The fields of struct exe hold what is put into them, whatever the header says.
LEMMA LoadType ==
    ASSUME IndInv, NEW h \in Headers, NEW e \in Environments, Load(h, e)
    PROVE  TypeOK'
<1>1. /\ EnvironSize(e) \in Int /\ SegmentSize(h, e) \in Nat /\ Base(h) \in Int
      /\ StackSize(h) \in Word /\ h.dseg \in Int /\ h.bseg \in Int
      /\ WordMod \in Nat /\ Word \subseteq Int
  BY EnvironType, SegmentHolds, HeaderType, BaseType, ElksAssumption DEF Word
<1>2. t_endseg' \in Word
  BY <1>1 DEF Load, Refused, Word
<1>3. t_begstack' \in Word
  <2>1. ToWord(t_endseg' - EnvironSize(e)) \in Word
    BY <1>1, <1>2, WordType
  <2>2. \A n \in Word : EvenDown(n) \in Word
    BY <1>1 DEF EvenDown, Word
  <2> QED
    BY <2>1, <2>2 DEF Load
<1>4. t_enddata' \in Word
  BY <1>1, WordType DEF Load
<1>5. t_endbrk' \in Word
  <2>1. EvenUp(t_enddata') \in Int
    BY <1>1, <1>4 DEF EvenUp
  <2> QED
    BY <2>1, WordType DEF Load
<1>6. t_minstack' \in Word
  BY <1>1 DEF Load
<1>7. t_stackLow' \in DWord
  <2>1. Base(h) + t_begstack' - t_minstack' \in Int
    BY <1>1, <1>3, <1>6
  <2> QED
    BY <2>1, DWordType DEF Load
<1>8. sp' \in Word
  <2>1. t_begstack' - EnvironSize(e) \in Int
    BY <1>1, <1>3
  <2> QED
    BY <2>1, WordType DEF Load
<1>9. EnvironBlock(e, sp') \subseteq Word
  BY <1>1, <1>8, EnvironType
<1>10. /\ phase' \in {"running", "exited"} /\ header' = h /\ env' = e
       /\ wrote'.by \in {"none", "loader"} /\ wrote'.offsets \subseteq Word
  BY <1>9 DEF Load, Nothing
<1> QED
  BY <1>2, <1>3, <1>4, <1>5, <1>6, <1>7, <1>8, <1>10 DEF TypeOK

LEMMA LoadStep ==
    ASSUME IndInv, NEW h \in Headers, NEW e \in Environments, Load(h, e)
    PROVE  IndInv'
<1> DEFINE slen == EnvironSize(e)
           len == SegmentSize(h, e)
           stack == StackSize(h)
           data == h.dseg + h.bseg
           base == Base(h)
<1>1. TypeOK'
  BY LoadType
<1>2. /\ header' = h /\ env' = e /\ wrote'.by # "push" /\ phase' # "refused" /\ ~Refused(h, e)
  BY DEF Load, Nothing
<1>3. OversizeRefused'
  BY <1>2, SegmentHolds, Zenon DEF OversizeRefused
<1>4. PushStaysInStack'
  BY <1>2, Zenon DEF PushStaysInStack
<1>5. ASSUME ~SumWraps(h, e) PROVE Layout'
  <2>1. /\ slen \in Nat /\ slen % 2 = 0 /\ len \in Nat /\ len % 2 = 0
        /\ stack \in Nat /\ data \in Nat /\ base \in Nat /\ base + WordMod <= DWordMod
        /\ data + stack + slen <= len /\ len < WordMod
        /\ WordMod \in Nat /\ DWordMod \in Nat
    <3>1. len < WordMod
      <4>1. ~(len >= WordMod)
        BY Zenon DEF Load, Refused
      <4>2. len \in Nat /\ WordMod \in Nat
        BY SegmentHolds, ElksAssumption
      <4> HIDE DEF len
      <4> QED
        BY <4>1, <4>2
    <3>2. /\ slen \in Nat /\ slen % 2 = 0 /\ len \in Nat /\ len % 2 = 0
          /\ stack \in Nat /\ data \in Nat /\ base \in Nat /\ base + WordMod <= DWordMod
          /\ WordMod \in Nat /\ DWordMod \in Nat
      <4>1. slen \in Nat /\ slen % 2 = 0 /\ len \in Nat /\ len % 2 = 0
        BY EnvironType, SegmentHolds
      <4>2. base \in Nat /\ base + WordMod <= DWordMod /\ WordMod \in Nat /\ DWordMod \in Nat
        BY BaseType, ElksAssumption
      <4>3. stack \in Word /\ data \in Nat /\ Word \subseteq Nat
        BY HeaderType, <4>2 DEF Word
      <4> QED
        BY <4>1, <4>2, <4>3
    <3>3. Sections(h, e) = data + stack + slen
      BY DEF Sections
    <3>4. Sections(h, e) <= len
      BY <1>5, SegmentHolds
    <3> HIDE DEF slen, len, stack, data, base
    <3> QED
      BY <3>1, <3>2, <3>3, <3>4
  <2>2. /\ t_begstack' = EvenDown(ToWord(len - slen)) /\ t_minstack' = stack
        /\ t_enddata' = ToWord(data) /\ t_endbrk' = ToWord(EvenUp(ToWord(data)))
        /\ t_stackLow' = ToDWord(base + t_begstack' - t_minstack')
    BY DEF Load
  <2> HIDE DEF slen, len, stack, data, base
  <2>3. t_begstack' = len - slen /\ len - slen \in Nat /\ (len - slen) % 2 = 0
    <3>1. len - slen \in Nat /\ (len - slen) % 2 = 0 /\ len - slen \in Word
      BY <2>1 DEF Word
    <3>2. ToWord(len - slen) = len - slen
      BY <3>1, WordType
    <3> QED
      BY <2>2, <3>1, <3>2, EvenRounding
  <2>4. t_enddata' = data /\ data + stack <= len - slen
    <3>1. data \in Word /\ data + stack <= len - slen
      BY <2>1 DEF Word
    <3> QED
      BY <2>1, <2>2, <3>1, WordType
  <2>5. base + (len - slen) - stack \in DWord
    BY <2>1, <2>4 DEF DWord
  <2>6. t_stackLow' = base + t_begstack' - t_minstack'
    BY <2>1, <2>2, <2>3, <2>5, DWordType
  <2>7. /\ data <= EvenUp(data) /\ EvenUp(data) \in Nat
        /\ EvenUp(data) <= EvenUp(len - slen - stack)
        /\ EvenUp(len - slen - stack) <= len - slen
    <3>1. len - slen - stack \in Nat /\ data <= len - slen - stack
      BY <2>1, <2>4
    <3>2. EvenUp(len - slen - stack) <= len - slen
      <4>1. \A a, b \in Nat : b <= a /\ a % 2 = 0 => EvenUp(b) <= a
        BY DEF EvenUp
      <4>2. len - slen - stack <= len - slen
        BY <2>1
      <4> QED
        BY <2>3, <3>1, <4>1, <4>2
    <3> QED
      BY <2>1, <3>1, <3>2, EvenRounding, EvenUpMonotone
  <2>8. t_endbrk' = EvenUp(data)
    <3>1. EvenUp(data) \in Word
      <4>1. EvenUp(len - slen - stack) \in Int
        BY <2>1 DEF EvenUp
      <4> QED
        BY <2>1, <2>3, <2>7, <4>1 DEF Word
    <3>2. ToWord(data) = data
      BY <2>2, <2>4
    <3>3. ToWord(EvenUp(data)) = EvenUp(data)
      BY <2>7, <3>1, WordType
    <3> QED
      BY <2>2, <3>2, <3>3
  <2>9. /\ t_stackLow' = Base(header)' + t_begstack' - t_minstack'
        /\ t_enddata' + t_minstack' <= t_begstack'
        /\ t_enddata' <= t_endbrk'
        /\ t_endbrk' <= EvenUp(t_begstack' - t_minstack')
    <3>1. Base(header)' = base
      BY <1>2 DEF base
    <3> QED
      BY <2>2, <2>3, <2>4, <2>6, <2>7, <2>8, <3>1
  <2> QED
    BY <2>9 DEF Layout
<1>6. ASSUME SumWraps(h, e) PROVE Layout'
  BY <1>2, <1>6, Zenon DEF Layout
<1> QED
  BY <1>1, <1>3, <1>4, <1>5, <1>6 DEF IndInv

LEMMA PushStep ==
    ASSUME IndInv, Push
    PROVE  IndInv'
<1> DEFINE newsp == ToWord(sp - 2)
           base == Base(header)
<1>1. newsp \in Word /\ header \in Headers /\ phase = "running"
  <2>1. sp - 2 \in Int
    BY ElksAssumption DEF IndInv, TypeOK, Word
  <2> QED
    BY <2>1, WordType DEF IndInv, TypeOK, Push
<1> HIDE DEF newsp
<1>2. CASE StackOverflow(newsp) \/ ~Writable(WordAt(newsp))
  BY <1>2 DEF Push, Exit, layout, Nothing, newsp, IndInv, TypeOK, Layout,
              PushStaysInStack, OversizeRefused
<1>3. CASE ~StackOverflow(newsp) /\ Writable(WordAt(newsp))
  <2>1. /\ sp' = newsp /\ wrote' = [by |-> "push", offsets |-> WordAt(newsp)]
        /\ UNCHANGED <<phase, layout, t_endbrk>>
    BY <1>3 DEF Push, newsp
  <2>2. /\ t_endseg \in 0 .. WordMod - 1 /\ t_stackLow \in Nat /\ t_endbrk \in Nat
        /\ t_begstack \in Nat /\ t_minstack \in Nat /\ t_enddata \in Nat
        /\ newsp \in 0 .. WordMod - 1 /\ WordMod \in Nat
    BY <1>1, ElksAssumption DEF IndInv, TypeOK, Word, DWord
  <2>3. base \in Nat
    BY <1>1, BaseType
  <2>4. t_stackLow <= base + newsp
    <3> HIDE DEF base
    <3>1. ~(t_stackLow # 0 /\ base + newsp < t_stackLow)
      BY <1>3, Zenon DEF StackOverflow, base
    <3> QED
      BY <2>2, <2>3, <3>1
  <2>5. WordAt(newsp) = {newsp, ToWord(newsp + 1)}
    <3>1. ToWord(newsp) = newsp
      BY <1>1, <2>2, WordType
    <3> QED
      BY <3>1 DEF WordAt
  <2>6. newsp < t_endseg /\ newsp + 1 <= WordMod - 1
    <3>1. newsp < t_endseg
      BY <1>3, <2>5 DEF Writable
    <3> QED
      BY <2>2, <3>1
  <2>7. ToWord(newsp + 1) = newsp + 1
    <3>1. newsp + 1 \in Word
      BY <2>2, <2>6 DEF Word
    <3> QED
      BY <2>2, <3>1, WordType
  <2>8. WordAt(newsp) = {newsp, newsp + 1}
    BY <2>5, <2>7
  <2>9. \A off \in WordAt(newsp) : /\ t_stackLow <= base + off
                                   /\ off < t_endseg /\ base + off < RamSize
    <3>1. \A off \in WordAt(newsp) : off < t_endseg /\ base + off < RamSize
      BY <1>3, Zenon DEF Writable, base
    <3>2. t_stackLow <= base + (newsp + 1)
      <4> HIDE DEF base
      <4> QED
        BY <2>2, <2>3, <2>4
    <3> HIDE DEF base
    <3> QED
      BY <2>4, <2>8, <3>1, <3>2
  <2>10. ASSUME newsp % 2 = 0, ~SumWraps(header, env) PROVE t_endbrk <= newsp
    <3> DEFINE limit == t_begstack - t_minstack
    <3>1. /\ t_stackLow = base + t_begstack - t_minstack
          /\ t_enddata + t_minstack <= t_begstack /\ t_endbrk <= EvenUp(limit)
      BY <1>1, <2>10 DEF IndInv, Layout
    <3>2. limit \in Nat /\ limit <= newsp
      <4> HIDE DEF base
      <4> QED
        BY <2>2, <2>3, <2>4, <3>1
    <3> HIDE DEF limit
    <3>3. EvenUp(newsp) = newsp
      BY <2>2, <2>10 DEF EvenUp
    <3>4. EvenUp(limit) <= EvenUp(newsp)
      BY <2>2, <3>2, EvenUpMonotone
    <3>5. EvenUp(limit) \in Nat
      BY <3>2, EvenRounding
    <3> QED
      BY <2>2, <3>1, <3>3, <3>4, <3>5
  <2>11. PushStaysInStack'
    <3>1. newsp % 2 = 0 /\ ~SumWraps(header, env)
            => WordAt(newsp) \cap 0 .. t_endbrk - 1 = {}
      BY <2>2, <2>8, <2>10
    <3> QED
      BY <2>1, <2>9, <3>1 DEF PushStaysInStack, layout
  <2>12. WordAt(newsp) \subseteq Word
    BY <2>2, <2>6, <2>8 DEF Word
  <2>13. TypeOK'
    BY <1>1, <2>1, <2>12 DEF IndInv, TypeOK, layout
  <2>14. Layout' /\ OversizeRefused'
    BY <2>1 DEF IndInv, Layout, OversizeRefused, layout
  <2> QED
    BY <2>11, <2>13, <2>14 DEF IndInv
<1> QED
  BY <1>2, <1>3

\* The break stays in its 16 bits; unless the sizes wrapped, it moves between the
\* end of the bss and the lowest SP.
LEMMA BreakStep ==
    ASSUME IndInv,
           (\E newbrk \in Breaks : SysBreak(newbrk))
             \/ (\E incr \in Increments, off \in Results : SysSbrk(incr, off))
    PROVE  IndInv'
<1>1. phase = "running" /\ TypeOK /\ Layout
  BY DEF IndInv, SysBreak, SysSbrk
<1>2. /\ t_enddata \in Nat /\ t_endbrk \in Word /\ t_begstack \in 0 .. WordMod - 1
      /\ t_minstack \in 0 .. WordMod - 1 /\ WordMod \in Nat /\ Word \subseteq Nat
  BY <1>1, ElksAssumption DEF TypeOK, Word
<1>3. \A b \in Int : KeptBreak(b) \in Word
  BY WordType DEF KeptBreak
<1>4. ASSUME ~SumWraps(header, env), NEW b \in Nat, BreakAllowed(b)
      PROVE  /\ t_enddata <= KeptBreak(b)
             /\ KeptBreak(b) <= EvenUp(t_begstack - t_minstack)
  <2>1. t_enddata + t_minstack <= t_begstack
    BY <1>1, <1>4 DEF Layout
  <2>2. t_begstack - t_minstack \in Nat /\ t_begstack - t_minstack \in DWord
    <3> DEFINE wp == WordMod * Para
    <3>1. wp \in Nat /\ DWordMod >= wp + WordMod /\ DWordMod \in Nat
      BY ElksAssumption
    <3> HIDE DEF wp
    <3> QED
      BY <1>2, <2>1, <3>1 DEF DWord
  <2>3. b <= t_begstack - t_minstack /\ t_enddata <= b
    <3>1. ToDWord(t_begstack - t_minstack) = t_begstack - t_minstack
      BY <2>2, DWordType
    <3> QED
      BY <1>4, <3>1 DEF BreakAllowed
  <2>4. b \in Word
    BY <1>2, <2>3 DEF Word
  <2>5. KeptBreak(b) = b
    BY <2>4, WordType DEF KeptBreak
  <2>6. t_begstack - t_minstack <= EvenUp(t_begstack - t_minstack)
        /\ EvenUp(t_begstack - t_minstack) \in Nat
    BY <2>2, EvenRounding
  <2> QED
    BY <2>2, <2>3, <2>5, <2>6
<1>5. ASSUME NEW newbrk \in Breaks, SysBreak(newbrk)
      PROVE  IndInv'
  <2>1. newbrk \in Nat
    BY ElksAssumption DEF Word
  <2>2. /\ t_endbrk' \in Word
        /\ ~SumWraps(header, env) =>
             t_enddata <= t_endbrk' /\ t_endbrk' <= EvenUp(t_begstack - t_minstack)
    <3>1. CASE BreakAllowed(newbrk)
      BY <1>3, <1>4, <1>5, <2>1, <3>1 DEF SysBreak
    <3>2. CASE ~BreakAllowed(newbrk)
      BY <1>1, <1>2, <1>5, <3>2 DEF SysBreak, Layout
    <3> QED
      BY <3>1, <3>2
  <2> QED
    BY <1>1, <1>5, <2>2
    DEF SysBreak, IndInv, TypeOK, Layout, PushStaysInStack, OversizeRefused, Nothing, layout
<1>6. ASSUME NEW incr \in Increments, NEW off \in Results, SysSbrk(incr, off)
      PROVE  IndInv'
  <2>1. incr \in Nat /\ off \in Int /\ off + 1 \in Int
    BY ElksAssumption DEF Word
  <2>2. CASE incr # 0 /\ ~BreakAllowed(t_endbrk + incr)
    BY <1>1, <1>6, <2>2
    DEF SysSbrk, IndInv, TypeOK, Layout, PushStaysInStack, OversizeRefused, Nothing, layout
  <2>3. CASE ~(incr # 0 /\ ~BreakAllowed(t_endbrk + incr))
    <3>1. /\ KeptBreak(t_endbrk + incr) \in Word
          /\ ~SumWraps(header, env) =>
               /\ t_enddata <= KeptBreak(t_endbrk + incr)
               /\ KeptBreak(t_endbrk + incr) <= EvenUp(t_begstack - t_minstack)
      <4>1. t_endbrk + incr \in Nat
        BY <1>2, <2>1
      <4>2. CASE incr = 0
        <5>1. KeptBreak(t_endbrk + incr) = t_endbrk
          BY <1>2, <4>2, WordType DEF KeptBreak
        <5> QED
          BY <1>1, <1>2, <5>1 DEF Layout
      <4>3. CASE BreakAllowed(t_endbrk + incr)
        BY <1>3, <1>4, <4>1, <4>3
      <4> QED
        BY <2>3, <4>2, <4>3
    <3>2. WordAt(off) \subseteq Word
      BY <2>1, WordType DEF WordAt
    <3>3. CASE Writable(WordAt(off))
      BY <1>1, <1>6, <2>3, <3>1, <3>2, <3>3
      DEF SysSbrk, IndInv, TypeOK, Layout, PushStaysInStack, OversizeRefused, layout
    <3>4. CASE ~Writable(WordAt(off))
      BY <1>1, <1>6, <2>3, <3>4
      DEF SysSbrk, Exit, IndInv, TypeOK, Layout, PushStaysInStack, OversizeRefused,
          Nothing, layout
    <3> QED
      BY <3>3, <3>4
  <2> QED
    BY <2>2, <2>3
<1> QED
  BY <1>5, <1>6

LEMMA OtherSteps ==
    ASSUME IndInv,
           \/ \E h \in Headers, e \in Environments : LoadError(h, e)
           \/ Pop \/ SysExit \/ Done \/ UNCHANGED vars
           \/ \E value \in StackPointers : SetSP(value)
    PROVE  IndInv'
<1> USE DEF IndInv, TypeOK, Layout, PushStaysInStack, OversizeRefused, Nothing, layout
<1>1. ASSUME NEW h \in Headers, NEW e \in Environments, LoadError(h, e)
      PROVE  IndInv'
  <2>1. ~Fits(h, e)
    BY <1>1, SegmentHolds, Zenon DEF LoadError
  <2> QED
    BY <1>1, <2>1 DEF LoadError
<1>2. CASE Pop
  <2>1. ToWord(sp + 2) \in Word
    <3>1. sp + 2 \in Int
      BY ElksAssumption DEF Word
    <3> QED
      BY <3>1, WordType
  <2> QED
    BY <1>2, <2>1 DEF Pop, Exit
<1>3. CASE SysExit
  BY <1>3 DEF SysExit, Exit
<1>4. CASE Done \/ UNCHANGED vars
  BY <1>4 DEF Done, vars
<1>5. CASE \E value \in StackPointers : SetSP(value)
  <2>1. StackPointers \subseteq Word
    BY ElksAssumption
  <2> QED
    BY <1>5, <2>1 DEF SetSP
<1> QED
  BY <1>1, <1>2, <1>3, <1>4, <1>5

LEMMA Inductive == Spec => []IndInv
<1>1. Init => IndInv
  <2>1. 0 \in Word /\ 0 \in DWord
    <3>1. 0 % WordMod \in Word => 0 \in Word
      BY ElksAssumption DEF Word
    <3>2. ToDWord(0) \in DWord
      BY DWordType
    <3>3. WordMod * Para \in Nat
      BY ElksAssumption
    <3> QED
      BY <3>3, ElksAssumption DEF Word, DWord
  <2> QED
    BY <2>1 DEF Init, IndInv, TypeOK, Layout, PushStaysInStack, OversizeRefused, Nothing
<1>2. IndInv /\ [Next]_vars => IndInv'
  BY LoadStep, PushStep, BreakStep, OtherSteps DEF Next
<1> QED
  BY <1>1, <1>2, PTL DEF Spec

-----------------------------------------------------------------------------
(* The environment block is written by Load() alone: what the other steps    *)
(* leave behind is not the loader's.                                         *)

LEMMA LoadFits ==
    ASSUME IndInv, NEW h \in Headers, NEW e \in Environments, Load(h, e)
    PROVE  EnvironFits'
<1> DEFINE size == EnvironSize(e)
<1>1. TypeOK'
  BY LoadType
<1>2. size \in Nat /\ t_begstack' \in 0 .. WordMod - 1 /\ WordMod \in Nat
  BY <1>1, EnvironType, ElksAssumption DEF TypeOK, Word
<1>3. env' = e /\ sp' = ToWord(t_begstack' - size)
  BY DEF Load
<1>4. ASSUME size <= t_begstack', wrote'.by = "loader" PROVE EnvironFits'
  <2>1. ToWord(t_begstack' - size) = t_begstack' - size
    <3>1. t_begstack' - size \in Word
      <4>1. \A a \in 0 .. WordMod - 1, b \in Nat : b <= a => a - b \in 0 .. WordMod - 1
        BY <1>2
      <4> HIDE DEF size
      <4> QED
        BY <1>2, <1>4, <4>1, Zenon DEF Word
    <3> HIDE DEF size
    <3> QED
      BY <1>2, <3>1, WordType
  <2>2. sp' \in Nat /\ sp' + size = t_begstack' /\ sp' + size < WordMod
        /\ sp' + size - 1 = t_begstack' - 1
    <3> HIDE DEF size
    <3> QED
      BY <1>2, <1>3, <1>4, <2>1
  <2> HIDE DEF size
  <2>3. BlockFits(e, sp')
    BY <2>2, BlockIs DEF size
  <2>4. wrote'.offsets = EnvironBlock(e, sp')
    <3>1. Nothing.by # "loader"
      BY DEF Nothing
    <3> QED
      BY <1>4, <3>1 DEF Load
  <2> QED
    BY <1>3, <2>2, <2>3, <2>4, ZenonT(60) DEF EnvironFits, BlockFits, size
<1>5. ASSUME ~(size <= t_begstack' /\ wrote'.by = "loader") PROVE EnvironFits'
  BY <1>3, <1>5, Zenon DEF EnvironFits, size
<1> QED
  BY <1>4, <1>5

LEMMA FitsStep ==
    ASSUME IndInv, EnvironFits, [Next]_vars
    PROVE  EnvironFits'
<1>1. CASE \E h \in Headers, e \in Environments : Load(h, e)
  BY <1>1, LoadFits
<1>2. CASE UNCHANGED vars \/ Done
  BY <1>2 DEF Done, vars, layout, EnvironFits
<1>3. ASSUME wrote'.by # "loader" PROVE EnvironFits'
  BY <1>3, Zenon DEF EnvironFits
<1>4. CASE \/ \E h \in Headers, e \in Environments : LoadError(h, e)
           \/ Push \/ Pop \/ SysExit
           \/ \E value \in StackPointers : SetSP(value)
           \/ \E newbrk \in Breaks : SysBreak(newbrk)
           \/ \E incr \in Increments, off \in Results : SysSbrk(incr, off)
  <2>1. wrote'.by # "loader"
    BY <1>4 DEF LoadError, Push, Pop, Exit, SysExit, SetSP, SysBreak, SysSbrk, Nothing
  <2> QED
    BY <1>3, <2>1
<1> QED
  BY <1>1, <1>2, <1>4 DEF Next

-----------------------------------------------------------------------------
\* The variables keep their types: whatever sizes the header gives and however
\* they wrap, what the loader and the system calls keep of them is a Word, and
\* the lowest SP a DWord.
THEOREM TypeCorrect == Spec => []TypeOK
<1>1. IndInv => TypeOK
  BY DEF IndInv
<1> QED
  BY <1>1, Inductive, PTL

\* The loader refuses no program that fits into a segment, and of those that do
\* not it accepts exactly those whose sizes wrap in its 32-bit sum into one that
\* it lets pass.
THEOREM LoaderRefusesOversize == Spec => []OversizeRefused
<1>1. IndInv => OversizeRefused
  BY DEF IndInv
<1> QED
  BY <1>1, Inductive, PTL

\* The break never grows past the lowest SP that a push may leave, for every
\* header whose sum does not wrap.
THEOREM BreakStaysBelowStackLow == Spec => []BreakBelowStackLow
<1>1. IndInv => BreakBelowStackLow
  <2> SUFFICES ASSUME IndInv, phase = "running", ~SumWraps(header, env)
               PROVE  /\ t_enddata <= t_endbrk
                      /\ Base(header) + t_endbrk <= EvenUp(t_stackLow)
                      /\ t_stackLow <= Base(header) + t_begstack
    BY DEF BreakBelowStackLow
  <2> DEFINE base == Base(header)
             limit == t_begstack - t_minstack
  <2>1. /\ t_begstack \in Nat /\ t_minstack \in Nat /\ t_endbrk \in Nat /\ t_enddata \in Nat
        /\ header \in Headers
    BY ElksAssumption DEF IndInv, TypeOK, Word
  <2>2. base \in Nat /\ base % 2 = 0
    BY <2>1, BaseType
  <2>3. /\ t_stackLow = base + t_begstack - t_minstack
        /\ t_enddata + t_minstack <= t_begstack
        /\ t_enddata <= t_endbrk /\ t_endbrk <= EvenUp(limit)
    BY DEF IndInv, Layout
  <2> HIDE DEF base
  <2>4. limit \in Nat /\ t_stackLow = base + limit
    BY <2>1, <2>2, <2>3
  <2>5. \A b, n \in Nat : b % 2 = 0 => EvenUp(b + n) = b + EvenUp(n)
    BY DEF EvenUp
  <2>6. EvenUp(t_stackLow) = base + EvenUp(limit) /\ EvenUp(limit) \in Nat
    <3> HIDE DEF limit
    <3> QED
      BY <2>2, <2>4, <2>5, EvenRounding
  <2>7. base + t_endbrk <= EvenUp(t_stackLow)
    <3> HIDE DEF limit
    <3> QED
      BY <2>1, <2>2, <2>3, <2>6
  <2>8. t_stackLow <= base + t_begstack
    BY <2>1, <2>2, <2>4
  <2> QED
    BY <2>3, <2>7, <2>8 DEF base
<1> QED
  BY <1>1, Inductive, PTL

\* Whatever the strings of argv and envp are, the block calc_environ() makes
\* room for holds all write_environ() puts into it, and no two parts overlap.
THEOREM EnvironmentFits == Spec => []EnvironFits
<1>1. Init => EnvironFits
  BY DEF Init, EnvironFits, Nothing
<1>2. IndInv /\ EnvironFits /\ [Next]_vars => EnvironFits'
  BY FitsStep
<1> QED
  BY <1>1, <1>2, Inductive, PTL DEF Spec

\* A push never writes below the lowest SP nor past the segment, for every header,
\* though SP wraps and is not checked when it is loaded; with SP even and sizes
\* that do not wrap, never into the heap.
THEOREM PushesStayInStack == Spec => []PushStaysInStack
<1>1. IndInv => PushStaysInStack
  BY DEF IndInv
<1> QED
  BY <1>1, Inductive, PTL
=============================================================================
