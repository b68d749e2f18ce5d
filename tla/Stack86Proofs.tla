---------------------------- MODULE Stack86Proofs ----------------------------
(***************************************************************************)
(* push() and pop() implement the stack of CallStack, for every width,     *)
(* every size of memory and every program.                                 *)
(***************************************************************************)
EXTENDS Stack86Ref, SequenceTheorems, WellFoundedInduction, TLAPS

USE ShadowAssumption, MemoryAssumption

-----------------------------------------------------------------------------
(* Powers of two and the numbers that sets of bits stand for.                *)

Power == [b \in 0 .. 16 |-> 2 ^ b]

\* Powers of two, which the provers compute for numerals only.
LEMMA Powers ==
    /\ Power[0] = 1 /\ Power[1] = 2 /\ Power[2] = 4 /\ Power[3] = 8
    /\ Power[4] = 16 /\ Power[5] = 32 /\ Power[6] = 64 /\ Power[7] = 128
    /\ Power[8] = 256 /\ Power[9] = 512 /\ Power[10] = 1024 /\ Power[11] = 2048
    /\ Power[12] = 4096 /\ Power[13] = 8192 /\ Power[14] = 16384
    /\ Power[15] = 32768 /\ Power[16] = 65536
  BY DEF Power

\* What arithmetic needs to know of them.
LEMMA PowerFacts ==
    /\ \A b \in 0 .. 16 : 2 ^ b = Power[b]
    /\ \A b \in 0 .. 16 : Power[b] \in Nat \ {0}
    /\ \A b \in 1 .. 16 : Power[b] = 2 * Power[b - 1]
    /\ \A b, c \in 0 .. 16 : Power[b] < Power[c] => b < c
<1>1. \A b \in 0 .. 16 : 2 ^ b = Power[b]
  BY DEF Power
<1>2. \A b \in 0 .. 16 : Power[b] \in Nat \ {0}
  BY Powers
<1>3. \A b \in 1 .. 16 : Power[b] = 2 * Power[b - 1]
  BY Powers
<1>4. \A b, c \in 0 .. 16 : Power[b] < Power[c] => b < c
  BY Powers
<1> QED
  BY <1>1, <1>2, <1>3, <1>4

\* A Word has twice the bits of a Byte.
LEMMA Widths ==
    /\ WordMod = ByteMod * ByteMod /\ ByteMod \in Nat /\ WordMod \in Nat
    /\ ByteMod >= 4 /\ WordMod >= 16 /\ WordMod % 2 = 0
    /\ \E k \in 0 .. 16 : ByteMod = Power[k]
    /\ \E k \in 0 .. 16 : WordMod = Power[k]
<1>1. PICK width \in 2 .. 8 : ByteMod = 2 ^ width
  BY StackAssumption
<1>2. ByteMod = Power[width] /\ WordMod = ByteMod * ByteMod /\ width \in 0 .. 16
  <2>1. width \in 0 .. 16
    OBVIOUS
  <2> QED
    BY <1>1, <2>1, PowerFacts, StackAssumption
<1>3. \/ ByteMod = 4 /\ WordMod = 16
      \/ ByteMod = 8 /\ WordMod = 64
      \/ ByteMod = 16 /\ WordMod = 256
      \/ ByteMod = 32 /\ WordMod = 1024
      \/ ByteMod = 64 /\ WordMod = 4096
      \/ ByteMod = 128 /\ WordMod = 16384
      \/ ByteMod = 256 /\ WordMod = 65536
  <2>1. \/ width = 2 \/ width = 3 \/ width = 4 \/ width = 5 \/ width = 6 \/ width = 7
        \/ width = 8
    OBVIOUS
  <2>2. \/ ByteMod = 4 \/ ByteMod = 8 \/ ByteMod = 16 \/ ByteMod = 32 \/ ByteMod = 64
        \/ ByteMod = 128 \/ ByteMod = 256
    BY <1>2, <2>1, Powers
  <2>3. \A m, n : m = n => m * m = n * n
    OBVIOUS
  <2>4. /\ ByteMod = 4 => WordMod = 4 * 4
        /\ ByteMod = 8 => WordMod = 8 * 8
        /\ ByteMod = 16 => WordMod = 16 * 16
        /\ ByteMod = 32 => WordMod = 32 * 32
        /\ ByteMod = 64 => WordMod = 64 * 64
        /\ ByteMod = 128 => WordMod = 128 * 128
        /\ ByteMod = 256 => WordMod = 256 * 256
    BY <1>2, <2>3, Zenon
  <2> QED
    BY <2>2, <2>4
<1>4. \E k \in 0 .. 16 : WordMod = Power[k]
  BY <1>3, Powers
<1>5. ByteMod >= 4 /\ WordMod >= 16 /\ WordMod % 2 = 0
  BY <1>3
<1> QED
  BY <1>2, <1>4, <1>5

\* A set of natural numbers that is not empty has a lowest element.
LEMMA LowestExists ==
    ASSUME NEW S \in SUBSET Nat, S # {}
    PROVE  \E h \in S : \A g \in S : h <= g
<1>1. \E h \in S : \A g \in S : <<g, h>> \notin OpToRel(<, Nat)
  BY NatLessThanWellFounded, WFMin, Zenon
<1>2. \A g, h \in Nat : <<g, h>> \notin OpToRel(<, Nat) => h <= g
  BY DEF OpToRel
<1> QED
  BY <1>1, <1>2

\* The recursive definition of the sums has a solution: were there none up to some bit,
\* there would be a lowest such bit.
LEMMA NumberRecursion ==
    ASSUME NEW S
    PROVE  \E f : /\ Number(S) = f[16] /\ f[0] = 0
                  /\ \A i \in 1 .. 16 :
                       f[i] = f[i - 1] + (IF i - 1 \in S THEN Power[i - 1] ELSE 0)
<1> DEFINE bit(j) == IF j \in S THEN 2 ^ j ELSE 0
           body(f, d) == [i \in 0 .. d |-> IF i = 0 THEN 0 ELSE f[i - 1] + bit(i - 1)]
           Bad == {d \in Nat : ~\E f : f = body(f, d)}
           M == CHOOSE f : f = body(f, 16)
<1>1. Number(S) = M[16]
  BY Zenon DEF Number
<1> HIDE DEF bit
<1>2. Bad = {}
  <2> SUFFICES ASSUME Bad # {} PROVE FALSE
    OBVIOUS
  <2>1. PICK d \in Bad : \A e \in Bad : d <= e
    <3> HIDE DEF body
    <3> QED
      BY LowestExists
  <2>2. d \in Nat /\ ~\E f : f = body(f, d)
    OBVIOUS
  <2>3. d # 0
    <3> SUFFICES ASSUME d = 0 PROVE FALSE
      OBVIOUS
    <3> DEFINE f == [i \in 0 .. d |-> 0]
    <3>1. \A i \in 0 .. d : i = 0
      OBVIOUS
    <3>2. f = body(f, d)
      BY <3>1, Zenon
    <3> QED
      BY <2>2, <3>2
  <2>4. d - 1 \in Nat /\ d - 1 \notin Bad
    <3> HIDE DEF Bad
    <3> QED
      BY <2>1, <2>2, <2>3
  <2>5. PICK g : g = body(g, d - 1)
    BY <2>4, Zenon
  <2> DEFINE f == [i \in 0 .. d |-> IF i = d THEN g[d - 1] + bit(d - 1) ELSE g[i]]
  <2>6. \A i \in 0 .. d : f[i] = IF i = 0 THEN 0 ELSE f[i - 1] + bit(i - 1)
    <3> SUFFICES ASSUME NEW i \in 0 .. d
                 PROVE  f[i] = IF i = 0 THEN 0 ELSE f[i - 1] + bit(i - 1)
      OBVIOUS
    <3>1. i # 0 => i - 1 \in 0 .. d /\ i - 1 # d
      BY <2>2
    <3>2. i # 0 => f[i - 1] = g[i - 1]
      BY <3>1, Zenon
    <3>3. CASE i = d
      BY <2>3, <3>2, <3>3, Zenon
    <3>4. CASE i # d
      <4>1. f[i] = g[i] /\ i \in 0 .. d - 1
        BY <2>2, <3>4
      <4>2. g[i] = IF i = 0 THEN 0 ELSE g[i - 1] + bit(i - 1)
        BY <2>5, <4>1, Zenon
      <4> QED
        BY <3>2, <4>1, <4>2, Zenon
    <3> QED
      BY <3>3, <3>4
  <2>7. f = body(f, d)
    BY <2>6, Zenon
  <2> QED
    BY <2>2, <2>7
<1>3. M = body(M, 16)
  <2>1. 16 \in Nat /\ 16 \notin Bad
    BY <1>2
  <2>2. \E f : f = body(f, 16)
    BY <2>1, Zenon
  <2> QED
    BY <2>2, Zenon
<1> HIDE DEF M
<1>4. \A i \in 0 .. 16 : M[i] = IF i = 0 THEN 0 ELSE M[i - 1] + bit(i - 1)
  BY <1>3, Zenon
<1>5. M[0] = 0
  <2>1. 0 \in 0 .. 16
    OBVIOUS
  <2> QED
    BY <1>4, <2>1, Zenon
<1>6. \A i \in 1 .. 16 : M[i] = M[i - 1] + (IF i - 1 \in S THEN Power[i - 1] ELSE 0)
  <2> TAKE i \in 1 .. 16
  <2>1. i \in 0 .. 16 /\ i # 0 /\ i - 1 \in 0 .. 16
    OBVIOUS
  <2>2. M[i] = M[i - 1] + bit(i - 1)
    BY <1>4, <2>1, Zenon
  <2>3. bit(i - 1) = IF i - 1 \in S THEN Power[i - 1] ELSE 0
    BY <2>1, PowerFacts, Zenon DEF bit
  <2> QED
    BY <2>2, <2>3, Zenon
<1> QED
  BY <1>1, <1>5, <1>6, Zenon

\* Bits below the k-th make a number below the k-th power of two.
LEMMA NumberBelow ==
    ASSUME NEW S, NEW k \in 0 .. 16, \A b \in 0 .. 15 : b \in S => b < k
    PROVE  Number(S) \in 0 .. Power[k] - 1
<1>1. PICK f : /\ Number(S) = f[16] /\ f[0] = 0
               /\ \A i \in 1 .. 16 :
                    f[i] = f[i - 1] + (IF i - 1 \in S THEN Power[i - 1] ELSE 0)
  BY NumberRecursion, Zenon
<1> DEFINE lesser(i) == IF i <= k THEN i ELSE k
           Good(i) == f[i] \in 0 .. Power[lesser(i)] - 1
           Bad == {i \in 0 .. 16 : ~Good(i)}
<1>2. Bad = {}
  <2> SUFFICES ASSUME Bad # {} PROVE FALSE
    OBVIOUS
  <2>1. PICK m \in Bad : \A i \in Bad : m <= i
    <3> HIDE DEF Good
    <3> QED
      BY LowestExists
  <2>2. m \in 0 .. 16 /\ ~Good(m)
    OBVIOUS
  <2>3. m # 0
    BY <1>1, <2>2, PowerFacts, Powers
  <2>4. m - 1 \in 0 .. 16 /\ m \in 1 .. 16
    BY <2>2, <2>3
  <2>5. Good(m - 1)
    <3>1. m - 1 \notin Bad
      <4> HIDE DEF Bad
      <4> QED
        BY <2>1, <2>2, <2>4
    <3> QED
      BY <2>4, <3>1
  <2>6. f[m] = f[m - 1] + (IF m - 1 \in S THEN Power[m - 1] ELSE 0)
    BY <1>1, <2>4
  <2>7. CASE m <= k
    <3>1. lesser(m) = m /\ lesser(m - 1) = m - 1
      BY <2>4, <2>7
    <3>2. f[m - 1] \in 0 .. Power[m - 1] - 1
      BY <2>5, <3>1
    <3>3. Power[m - 1] \in Nat /\ Power[m] = 2 * Power[m - 1]
      BY <2>4, PowerFacts
    <3>4. f[m] \in 0 .. Power[m] - 1
      BY <2>6, <3>2, <3>3
    <3> QED
      BY <2>2, <3>1, <3>4
  <2>8. CASE m > k
    <3>1. m - 1 \notin S /\ lesser(m) = k /\ lesser(m - 1) = k
      BY <2>4, <2>8
    <3>2. f[m] = f[m - 1]
      BY <2>5, <2>6, <3>1, PowerFacts
    <3> QED
      BY <2>2, <2>5, <3>1, <3>2
  <2> QED
    BY <2>2, <2>4, <2>7, <2>8
<1>3. 16 \in 0 .. 16 /\ lesser(16) = k
  OBVIOUS
<1>4. Good(16)
  BY <1>2, <1>3
<1> QED
  BY <1>1, <1>3, <1>4

\* What PUSHF and LAHF make is a word and a byte.
LEMMA NumberOfBits ==
    /\ \A S \in SUBSET FlagBits : Number(S) \in Word
    /\ \A S \in SUBSET LowBits : Number(S) \in Byte
<1>1. ASSUME NEW n, NEW k \in 0 .. 16, n = Power[k],
             NEW S \in SUBSET {b \in 0 .. 15 : 2 ^ b < n}
      PROVE  Number(S) \in 0 .. n - 1
  <2>1. ASSUME NEW b \in 0 .. 15, b \in S PROVE b < k
    <3>1. b \in 0 .. 16
      OBVIOUS
    <3>2. 2 ^ b < n
      BY <2>1
    <3>3. Power[b] < Power[k]
      BY <1>1, <3>1, <3>2, PowerFacts, Zenon
    <3> QED
      BY <3>1, <3>3, PowerFacts, Zenon
  <2>2. Number(S) \in 0 .. Power[k] - 1
    BY <2>1, NumberBelow
  <2> QED
    BY <1>1, <2>2
<1>2. PICK k \in 0 .. 16 : WordMod = Power[k]
  BY Widths
<1>3. PICK j \in 0 .. 16 : ByteMod = Power[j]
  BY Widths
<1>4. \A S \in SUBSET FlagBits : Number(S) \in 0 .. WordMod - 1
  BY <1>1, <1>2, Zenon DEF FlagBits
<1>5. \A S \in SUBSET LowBits : Number(S) \in 0 .. ByteMod - 1
  BY <1>1, <1>3, Zenon DEF LowBits
<1> QED
  BY <1>4, <1>5 DEF Word, Byte

-----------------------------------------------------------------------------
(* Arithmetic of words.                                                      *)

\* A number cut to a Word is one.
LEMMA ToWordType ==
    ASSUME NEW n \in Int
    PROVE  ToWord(n) \in Word
  BY SMT DEF ToWord, Word

\* The only multiple of w nearer to zero than w is zero.
LEMMA Multiple ==
    ASSUME NEW w \in Nat \ {0}, NEW d \in Int, -w < w * d, w * d < w
    PROVE  d = 0
<1>1. ASSUME d >= 1 PROVE FALSE
  <2>1. w * (d - 1) >= 0
    BY <1>1, SMT
  <2>2. w * (d - 1) = w * d - w
    BY SMT
  <2> QED
    BY <2>1, <2>2
<1>2. ASSUME d <= -1 PROVE FALSE
  <2>1. w * (-1 - d) >= 0
    BY <1>2, SMT
  <2>2. w * (-1 - d) = -w - w * d
    BY SMT
  <2> QED
    BY <2>1, <2>2
<1> QED
  BY <1>1, <1>2

\* ToWord() is what a division leaves over.
LEMMA ToWordDivision ==
    ASSUME NEW n \in Int
    PROVE  \E q \in Int : n = WordMod * q + ToWord(n)
<1> DEFINE w == WordMod
<1>1. w \in Nat \ {0}
  BY ShadowAssumption
<1> HIDE DEF w
<1>2. n = w * (n \div w) + (n % w) /\ n \div w \in Int
  BY <1>1
<1> QED
  BY <1>2 DEF ToWord, w

\* There is only one such remainder.
LEMMA ToWordUnique ==
    ASSUME NEW n \in Int, NEW r \in Word, NEW q \in Int, n = WordMod * q + r
    PROVE  ToWord(n) = r
<1> DEFINE w == WordMod
           t == ToWord(n)
<1>1. w \in Nat \ {0}
  BY ShadowAssumption
<1>2. PICK p \in Int : n = w * p + t
  BY ToWordDivision
<1>3. t \in 0 .. w - 1 /\ r \in 0 .. w - 1
  BY ToWordType DEF Word
<1>4. n = w * q + r
  OBVIOUS
<1> HIDE DEF w, t
<1>5. w * (p - q) = w * p - w * q
  BY <1>1
<1>6. w * (p - q) = r - t
  BY <1>1, <1>2, <1>3, <1>4, <1>5
<1>7. -w < r - t /\ r - t < w
  BY <1>1, <1>3
<1>8. p - q = 0
  BY <1>1, <1>6, <1>7, Multiple
<1>9. p = q
  BY <1>8
<1> QED
  BY <1>2, <1>3, <1>4, <1>9, <1>1 DEF t

\* A word is its own remainder.
LEMMA ToWordOfWord ==
    ASSUME NEW w \in Word
    PROVE  ToWord(w) = w
<1>1. w = WordMod * 0 + w /\ w \in Int
  BY ShadowAssumption DEF Word
<1> QED
  BY <1>1, ToWordUnique

\* Reducing a summand first does not matter.
LEMMA ToWordSum ==
    ASSUME NEW n \in Int, NEW i \in Int
    PROVE  ToWord(ToWord(n) + i) = ToWord(n + i)
<1>1. ToWord(n) \in Word /\ ToWord(n) \in Int /\ ToWord(n + i) \in Word /\ ToWord(n + i) \in Int
  BY ToWordType, ShadowAssumption DEF Word
<1>2. PICK q \in Int : n = WordMod * q + ToWord(n)
  BY ToWordDivision
<1>3. PICK p \in Int : n + i = WordMod * p + ToWord(n + i)
  BY ToWordDivision
<1> DEFINE a == ToWord(n)
           b == ToWord(n + i)
           wp == WordMod * p
           wq == WordMod * q
<1>4. /\ n = wq + a /\ n + i = wp + b
      /\ a \in Int /\ b \in Word /\ b \in Int /\ wp \in Int /\ wq \in Int
      /\ WordMod * (p - q) = wp - wq
  BY <1>1, <1>2, <1>3, ShadowAssumption
<1> HIDE DEF a, b, wp, wq
<1>5. a + i = WordMod * (p - q) + b
  BY <1>4
<1>6. p - q \in Int /\ a + i \in Int /\ b \in Word
  BY <1>4
<1>7. ToWord(a + i) = b
  BY <1>5, <1>6, ToWordUnique
<1> QED
  BY <1>7 DEF a, b

\* Offsets less than a turn apart are different.
LEMMA ToWordDistinct ==
    ASSUME NEW x \in Int, NEW i \in Int, NEW j \in Int,
           i - j < WordMod, j - i < WordMod, ToWord(x + i) = ToWord(x + j)
    PROVE  i = j
<1>0. x + i \in Int /\ x + j \in Int
  OBVIOUS
<1>1. PICK p \in Int : x + i = WordMod * p + ToWord(x + i)
  BY <1>0, ToWordDivision, Zenon
<1>2. PICK q \in Int : x + j = WordMod * q + ToWord(x + j)
  BY <1>0, ToWordDivision, Zenon
<1>3. ToWord(x + i) \in Int
  BY ToWordType DEF Word
<1> DEFINE t == ToWord(x + i)
           wp == WordMod * p
           wq == WordMod * q
<1>4. /\ x + i = wp + t /\ x + j = wq + t /\ t \in Int /\ wp \in Int /\ wq \in Int
      /\ WordMod * (p - q) = wp - wq
  BY <1>1, <1>2, <1>3
<1> HIDE DEF t, wp, wq
<1>5. WordMod * (p - q) = i - j
  BY <1>4
<1>6. p - q = 0
  BY <1>5, Multiple
<1>7. WordMod * 0 = 0
  OBVIOUS
<1>8. i - j = 0
  BY <1>5, <1>6, <1>7
<1> QED
  BY <1>8

\* A word is put together from the bytes it is taken apart into.
LEMMA WordBytes ==
    ASSUME NEW w \in Word
    PROVE  Low(w) \in Byte /\ High(w) \in Byte /\ Low(w) + ByteMod * High(w) = w
<1> DEFINE b == ByteMod
<1>1. b \in Nat \ {0} /\ w \in Nat /\ w < b * b
  BY Widths DEF Word
<1> HIDE DEF b
<1>2. w % b \in 0 .. b - 1 /\ w \div b \in Nat /\ (w % b) + b * (w \div b) = w
  BY <1>1, SMT
<1>3. w \div b < b
  BY <1>1, SMT
<1> QED
  BY <1>2, <1>3 DEF b, Low, High, Byte

\* Two bytes make a word.
LEMMA BytesWord ==
    ASSUME NEW l \in Byte, NEW h \in Byte
    PROVE  l + ByteMod * h \in Word
<1> DEFINE b == ByteMod
           bh == b * h
<1>1. b \in Nat \ {0} /\ l \in 0 .. b - 1 /\ h \in 0 .. b - 1 /\ WordMod = b * b
  BY Widths DEF Byte
<1> HIDE DEF b
<1>2. bh \in Nat /\ bh <= b * (b - 1) /\ b * (b - 1) = b * b - b /\ b * b \in Nat
  <2>1. h \in Nat /\ b - 1 - h \in Nat
    BY <1>1
  <2>2. b * (b - 1 - h) \in Nat /\ b * h \in Nat /\ b * (b - 1 - h) = b * (b - 1) - b * h
    BY <1>1, <2>1
  <2>3. b * (b - 1) = b * b - b /\ b * b \in Nat
    BY <1>1
  <2> QED
    BY <1>1, <2>2, <2>3
<1> HIDE DEF bh
<1>3. l + bh \in 0 .. b * b - 1
  <2> DEFINE bb == b * b
  <2>1. bh \in Nat /\ bh <= bb - b /\ bb \in Nat
    BY <1>2
  <2> HIDE DEF bb
  <2>2. l + bh \in 0 .. bb - 1
    BY <1>1, <2>1
  <2> QED
    BY <2>2 DEF bb
<1> QED
  BY <1>1, <1>3 DEF b, bh, Word

\* AH has no bits but those SAHF may set.
LEMMA BitsOfByte ==
    ASSUME NEW n \in Byte
    PROVE  Bits(n) \subseteq LowBits
<1> SUFFICES ASSUME NEW b \in Bits(n) PROVE b \in LowBits
  OBVIOUS
<1> DEFINE p == 2 ^ b
<1>1. b \in 0 .. 15 /\ (n \div p) % 2 = 1
  BY DEF Bits, FlagBits
<1>2. p \in Nat \ {0}
  <2>1. b \in 0 .. 16
    BY <1>1
  <2> QED
    BY <2>1, PowerFacts, Zenon
<1> HIDE DEF p
<1>3. n \in Nat /\ n < ByteMod
  BY DEF Byte
<1>4. ~(n < p)
  <2> SUFFICES ASSUME n < p PROVE FALSE
    OBVIOUS
  <2>1. n \div p = 0
    BY <1>2, <1>3, SMT
  <2> QED
    BY <1>1, <2>1
<1>5. p < ByteMod
  BY <1>2, <1>3, <1>4
<1> QED
  BY <1>1, <1>5, Zenon DEF p, LowBits

-----------------------------------------------------------------------------
(* Types.                                                                    *)

\* Addresses are numbers, in RAM or beyond it.
LEMMA AddressType ==
    ASSUME sreg \in [Segs -> Word], NEW seg \in Segs, NEW off \in Int
    PROVE  Address(seg, off) \in Nat
<1>1. sreg[seg] \in Nat /\ Para \in Nat
  BY DEF Word
<1>2. sreg[seg] * Para \in Nat
  BY <1>1
<1>3. ToWord(off) \in Nat
  BY ToWordType DEF Word
<1> QED
  BY <1>2, <1>3 DEF Address

\* Both bytes of a word that may be read or written are in RAM.
LEMMA AllowedInRam ==
    ASSUME sreg \in [Segs -> Word], NEW flag, NEW seg \in Segs, NEW off \in Int,
           Allowed(flag, seg, off, 2)
    PROVE  Address(seg, off) \in Ram /\ Address(seg, off + 1) \in Ram
<1>1. Address(seg, off) \in Nat /\ Address(seg, off + 1) \in Nat
  BY AddressType
<1>2. Address(seg, off + 0) < RamSize /\ Address(seg, off + 1) < RamSize
  <2>1. 0 \in 0 .. 2 - 1 /\ 1 \in 0 .. 2 - 1
    OBVIOUS
  <2> QED
    BY <2>1, Zenon DEF Allowed
<1>3. off + 0 = off
  OBVIOUS
<1> QED
  BY <1>1, <1>2, <1>3 DEF Ram

\* What a permitted pop returns is a word.
LEMMA PoppedType ==
    ASSUME MemoryTypeOK, sp \in Int, NEW n \in Nat, ~PopRefused(n), NEW i \in 1 .. n
    PROVE  Popped(i) \in Word
<1> DEFINE off == sp + 2 * (i - 1)
<1>1. off \in Int /\ "SS" \in Segs /\ sreg \in [Segs -> Word] /\ ram \in [Ram -> Byte]
  BY DEF MemoryTypeOK, ShadowTypeOK, Segs
<1>2. Allowed("fRead", "SS", off, 2)
  BY Zenon DEF PopRefused, CanRead
<1> HIDE DEF off
<1>3. Address("SS", off) \in Ram /\ Address("SS", off + 1) \in Ram
  BY <1>1, <1>2, AllowedInRam
<1>4. ram[Address("SS", off)] \in Byte /\ ram[Address("SS", off + 1)] \in Byte
  BY <1>1, <1>3
<1>5. Popped(i) = ram[Address("SS", off)] + ByteMod * ram[Address("SS", off + 1)]
  BY Zenon DEF Popped, off
<1> QED
  BY <1>4, <1>5, BytesWord, Zenon

\* Memory stays memory when a word is stored,
LEMMA WithType ==
    ASSUME NEW m \in [Ram -> Byte], NEW w \in Word, NEW seg, NEW off
    PROVE  With(m, seg, off, w) \in [Ram -> Byte]
<1>1. Low(w) \in Byte /\ High(w) \in Byte
  BY WordBytes
<1>2. \A a, b : [m EXCEPT ![a] = Low(w), ![b] = High(w)] \in [Ram -> Byte]
  BY <1>1
<1> QED
  BY <1>2, Zenon DEF With

\* and so does its shadow.
LEMMA ReadableType ==
    ASSUME NEW m \in [Ram -> SUBSET Flag], NEW seg, NEW off
    PROVE  Readable(m, seg, off) \in [Ram -> SUBSET Flag]
  BY DEF Readable, Flag

\* What push() leaves,
LEMMA PushType ==
    ASSUME TypeOK, NEW w \in Word, Push(w)
    PROVE  sp' \in Word /\ ram' \in [Ram -> Byte] /\ shadowRam' \in [Ram -> SUBSET Flag]
<1>1. sp - 2 * 1 \in Int /\ ram \in [Ram -> Byte] /\ shadowRam \in [Ram -> SUBSET Flag]
  BY DEF TypeOK, MemoryTypeOK, ShadowTypeOK, Word
<1> QED
  BY <1>1, ToWordType, WithType, ReadableType, Zenon DEF Push, Pushed

\* and two calls of it.
LEMMA PushBothType ==
    ASSUME TypeOK, NEW w \in Word, NEW v \in Word, PushBoth(w, v)
    PROVE  sp' \in Word /\ ram' \in [Ram -> Byte] /\ shadowRam' \in [Ram -> SUBSET Flag]
<1>1. sp - 2 * 2 \in Int /\ ram \in [Ram -> Byte] /\ shadowRam \in [Ram -> SUBSET Flag]
  BY DEF TypeOK, MemoryTypeOK, ShadowTypeOK, Word
<1> QED
  BY <1>1, ToWordType, WithType, ReadableType, Zenon DEF PushBoth, Pushed

\* IP and SP stay words.
LEMMA AfterType ==
    ASSUME TypeOK, NEW n \in Int
    PROVE  After(n) \in Word /\ AfterPops(n) \in Word
<1>1. ip + n \in Int /\ sp + 2 * n \in Int
  BY DEF TypeOK, Word
<1> QED
  BY <1>1, ToWordType, Zenon DEF After, AfterPops

\* What stays when an instruction is executed.
LEMMA ExecutesType ==
    ASSUME TypeOK, NEW name, NEW length, Executes(name, length)
    PROVE  /\ kind' \in {"elks", "dos", "bin"} /\ stackLow' \in Nat /\ uses' \in Programs
           /\ status = "running" /\ status' = "running"
  BY DEF TypeOK, Executes

\* Types, for what pushes,
LEMMA PushesType ==
    ASSUME TypeOK, Pushes
    PROVE  TypeOK'
<1>1. /\ ip \in Word /\ ax \in Word /\ sp \in Word /\ flags \subseteq FlagBits
      /\ sreg \in [Segs -> Word] /\ "CS" \in Segs
  BY DEF TypeOK, MemoryTypeOK, ShadowTypeOK, Segs
<1>2. ASSUME NEW r \in Segs \cup {"AX", "SP"}, PushReg(r) PROVE TypeOK'
  <2>1. Register(r) \in Word
    BY <1>1 DEF Register, Segs
  <2>2. Executes("PUSH", 1) /\ Push(Register(r)) /\ ip' = After(1)
        /\ UNCHANGED <<ax, flags, sreg>>
    BY <1>2, Zenon DEF PushReg
  <2>3. sp' \in Word /\ ram' \in [Ram -> Byte] /\ shadowRam' \in [Ram -> SUBSET Flag]
    BY <2>1, <2>2, PushType
  <2> QED
    BY <1>1, <2>2, <2>3, AfterType, ExecutesType DEF TypeOK, MemoryTypeOK, ShadowTypeOK
<1>3. ASSUME NEW target \in Targets, CallNear(target) PROVE TypeOK'
  <2>1. Executes("CALL", 3) /\ Push(After(3)) /\ ip' = target /\ UNCHANGED <<ax, flags, sreg>>
    BY <1>3, Zenon DEF CallNear
  <2>2. After(3) \in Word /\ target \in Word
    BY AfterType, StackAssumption
  <2>3. sp' \in Word /\ ram' \in [Ram -> Byte] /\ shadowRam' \in [Ram -> SUBSET Flag]
    BY <2>1, <2>2, PushType
  <2> QED
    BY <1>1, <2>1, <2>2, <2>3, ExecutesType DEF TypeOK, MemoryTypeOK, ShadowTypeOK
<1>4. ASSUME NEW seg \in Segments, NEW target \in Targets, CallFar(seg, target) PROVE TypeOK'
  <2>1. /\ Executes("CALLF", 5) /\ PushBoth(sreg["CS"], After(5)) /\ ip' = target
        /\ sreg' = [sreg EXCEPT !["CS"] = seg] /\ UNCHANGED <<ax, flags>>
    BY <1>4, Zenon DEF CallFar
  <2>2. After(5) \in Word /\ target \in Word /\ seg \in Word /\ sreg["CS"] \in Word
    BY <1>1, AfterType, StackAssumption
  <2>3. sp' \in Word /\ ram' \in [Ram -> Byte] /\ shadowRam' \in [Ram -> SUBSET Flag]
    BY <2>1, <2>2, PushBothType
  <2>4. sreg' \in [Segs -> Word]
    BY <1>1, <2>1, <2>2
  <2> QED
    BY <1>1, <2>1, <2>2, <2>3, <2>4, ExecutesType DEF TypeOK, MemoryTypeOK, ShadowTypeOK
<1>5. ASSUME Pushf PROVE TypeOK'
  <2> DEFINE w == Number((flags \cap Kept) \cup Forced)
  <2>1. Executes("PUSHF", 1) /\ Push(w) /\ ip' = After(1) /\ UNCHANGED <<ax, flags, sreg>>
    BY <1>5, Zenon DEF Pushf
  <2>2. w \in Word
    <3>1. (flags \cap Kept) \cup Forced \in SUBSET FlagBits
      BY StackAssumption
    <3> QED
      BY <3>1, NumberOfBits, Zenon
  <2> HIDE DEF w
  <2>3. sp' \in Word /\ ram' \in [Ram -> Byte] /\ shadowRam' \in [Ram -> SUBSET Flag]
    BY <2>1, <2>2, PushType
  <2> QED
    BY <1>1, <2>1, <2>3, AfterType, ExecutesType DEF TypeOK, MemoryTypeOK, ShadowTypeOK
<1> QED
  BY <1>2, <1>3, <1>4, <1>5 DEF Pushes

\* The words that pops return, and SP after them.
LEMMA PopsType ==
    ASSUME TypeOK, NEW n \in 1 .. 3, Pops(n)
    PROVE  /\ \A i \in 1 .. n : Popped(i) \in Word
           /\ AfterPops(n) \in Word
           /\ \A drop \in Word : ToWord(AfterPops(n) + drop) \in Word
           /\ ram' \in [Ram -> Byte] /\ shadowRam' \in [Ram -> SUBSET Flag]
<1>1. ~PopRefused(n) /\ UNCHANGED <<ram, shadowRam>>
  BY Zenon DEF Pops
<1>2. MemoryTypeOK /\ sp \in Int
  BY DEF TypeOK, Word
<1>3. \A i \in 1 .. n : Popped(i) \in Word
  BY <1>1, <1>2, PoppedType
<1>4. AfterPops(n) \in Word
  BY AfterType
<1>5. ASSUME NEW drop \in Word PROVE ToWord(AfterPops(n) + drop) \in Word
  <2>1. AfterPops(n) + drop \in Int
    BY <1>4 DEF Word
  <2> QED
    BY <2>1, ToWordType
<1> QED
  BY <1>1, <1>2, <1>3, <1>4, <1>5 DEF MemoryTypeOK, ShadowTypeOK

\* what takes words off,
LEMMA TakesType ==
    ASSUME TypeOK, Takes
    PROVE  TypeOK'
<1>1. /\ ip \in Word /\ ax \in Word /\ sp \in Word /\ flags \subseteq FlagBits
      /\ sreg \in [Segs -> Word] /\ "CS" \in Segs
  BY DEF TypeOK, MemoryTypeOK, ShadowTypeOK, Segs
<1>2. ASSUME PopReg("AX") PROVE TypeOK'
  <2>1. /\ Executes("POP", 1) /\ Pops(1) /\ ax' = Popped(1) /\ sp' = AfterPops(1)
        /\ ip' = After(1) /\ UNCHANGED <<flags, sreg>>
    BY <1>2 DEF PopReg
  <2>2. 1 \in 1 .. 3 /\ 1 \in 1 .. 1
    OBVIOUS
  <2>3. /\ ax' \in Word /\ sp' \in Word
        /\ ram' \in [Ram -> Byte] /\ shadowRam' \in [Ram -> SUBSET Flag]
    BY <2>1, <2>2, PopsType, Zenon
  <2> QED
    BY <1>1, <2>1, <2>3, AfterType, ExecutesType DEF TypeOK, MemoryTypeOK, ShadowTypeOK
<1>3. ASSUME NEW r \in {"DS", "ES"}, PopSeg(r) PROVE TypeOK'
  <2>1. /\ Executes("POP", 1) /\ Pops(1) /\ sreg' = [sreg EXCEPT ![r] = Popped(1)]
        /\ sp' = AfterPops(1) /\ ip' = After(1) /\ UNCHANGED <<ax, flags>>
    BY <1>3 DEF PopSeg
  <2>2. 1 \in 1 .. 3 /\ 1 \in 1 .. 1
    OBVIOUS
  <2>3. /\ Popped(1) \in Word /\ sp' \in Word
        /\ ram' \in [Ram -> Byte] /\ shadowRam' \in [Ram -> SUBSET Flag]
    BY <2>1, <2>2, PopsType, Zenon
  <2>4. sreg' \in [Segs -> Word]
    BY <1>1, <2>1, <2>3
  <2> QED
    BY <1>1, <2>1, <2>3, <2>4, AfterType, ExecutesType DEF TypeOK, MemoryTypeOK, ShadowTypeOK
<1>4. ASSUME NEW drop \in Drops \cup {0}, Ret(drop) PROVE TypeOK'
  <2>1. /\ Executes("RET", IF drop = 0 THEN 1 ELSE 3) /\ Pops(1) /\ ip' = Popped(1)
        /\ sp' = ToWord(AfterPops(1) + drop) /\ UNCHANGED <<ax, flags, sreg>>
    BY <1>4 DEF Ret
  <2>2. 1 \in 1 .. 3 /\ 1 \in 1 .. 1 /\ drop \in Word
    BY StackAssumption DEF Word
  <2>3. /\ ip' \in Word /\ sp' \in Word
        /\ ram' \in [Ram -> Byte] /\ shadowRam' \in [Ram -> SUBSET Flag]
    BY <2>1, <2>2, PopsType, Zenon
  <2> QED
    BY <1>1, <2>1, <2>3, ExecutesType DEF TypeOK, MemoryTypeOK, ShadowTypeOK
<1>5. ASSUME NEW drop \in Drops \cup {0}, RetFar(drop) PROVE TypeOK'
  <2>1. /\ Executes("RETF", IF drop = 0 THEN 1 ELSE 3) /\ Pops(2) /\ ip' = Popped(1)
        /\ sreg' = [sreg EXCEPT !["CS"] = Popped(2)]
        /\ sp' = ToWord(AfterPops(2) + drop) /\ UNCHANGED <<ax, flags>>
    BY <1>5 DEF RetFar
  <2>2. 2 \in 1 .. 3 /\ 1 \in 1 .. 2 /\ 2 \in 1 .. 2 /\ drop \in Word
    BY StackAssumption DEF Word
  <2>3. /\ ip' \in Word /\ sp' \in Word /\ Popped(2) \in Word
        /\ ram' \in [Ram -> Byte] /\ shadowRam' \in [Ram -> SUBSET Flag]
    BY <2>1, <2>2, PopsType, Zenon
  <2>4. sreg' \in [Segs -> Word]
    BY <1>1, <2>1, <2>3
  <2> QED
    BY <1>1, <2>1, <2>3, <2>4, ExecutesType DEF TypeOK, MemoryTypeOK, ShadowTypeOK
<1>6. ASSUME Iret PROVE TypeOK'
  <2>1. /\ Executes("IRET", 1) /\ Pops(3) /\ ip' = Popped(1)
        /\ sreg' = [sreg EXCEPT !["CS"] = Popped(2)]
        /\ flags' = Bits(Popped(3)) \cup {AlwaysOne} /\ sp' = AfterPops(3) /\ ax' = ax
    BY <1>6 DEF Iret
  <2>2. 3 \in 1 .. 3 /\ 1 \in 1 .. 3 /\ 2 \in 1 .. 3
    OBVIOUS
  <2>3. /\ ip' \in Word /\ sp' \in Word /\ Popped(2) \in Word
        /\ ram' \in [Ram -> Byte] /\ shadowRam' \in [Ram -> SUBSET Flag]
    BY <2>1, <2>2, PopsType, Zenon
  <2>4. sreg' \in [Segs -> Word]
    BY <1>1, <2>1, <2>3
  <2>5. flags' \subseteq FlagBits
    BY <2>1, StackAssumption DEF Bits
  <2> QED
    BY <1>1, <2>1, <2>3, <2>4, <2>5, ExecutesType DEF TypeOK, MemoryTypeOK, ShadowTypeOK
<1>7. ASSUME Popf PROVE TypeOK'
  <2>1. /\ Executes("POPF", 1) /\ Pops(1) /\ flags' = Bits(Popped(1)) \cup {AlwaysOne}
        /\ sp' = AfterPops(1) /\ ip' = After(1) /\ UNCHANGED <<ax, sreg>>
    BY <1>7 DEF Popf
  <2>2. 1 \in 1 .. 3
    OBVIOUS
  <2>3. /\ sp' \in Word
        /\ ram' \in [Ram -> Byte] /\ shadowRam' \in [Ram -> SUBSET Flag]
    BY <2>1, <2>2, PopsType, Zenon
  <2>4. flags' \subseteq FlagBits
    BY <2>1, StackAssumption DEF Bits
  <2> QED
    BY <1>1, <2>1, <2>3, <2>4, AfterType, ExecutesType DEF TypeOK, MemoryTypeOK, ShadowTypeOK
<1> QED
  BY <1>2, <1>3, <1>4, <1>5, <1>6, <1>7 DEF Takes

\* what changes to another stack,
LEMMA SwitchesType ==
    ASSUME TypeOK, Switches
    PROVE  TypeOK'
<1>1. /\ ip \in Word /\ ax \in Word /\ sp \in Word /\ flags \subseteq FlagBits
      /\ sreg \in [Segs -> Word] /\ "SS" \in Segs /\ 1 \in 1 .. 3 /\ 1 \in 1 .. 1
  BY DEF TypeOK, MemoryTypeOK, ShadowTypeOK, Segs
<1>2. ASSUME PopReg("SP") PROVE TypeOK'
  <2>1. /\ Executes("POP", 1) /\ Pops(1) /\ ax' = ax /\ sp' = Popped(1)
        /\ ip' = After(1) /\ UNCHANGED <<flags, sreg>>
    BY <1>2 DEF PopReg
  <2>2. sp' \in Word /\ ram' \in [Ram -> Byte] /\ shadowRam' \in [Ram -> SUBSET Flag]
    BY <1>1, <2>1, PopsType, Zenon
  <2> QED
    BY <1>1, <2>1, <2>2, AfterType, ExecutesType DEF TypeOK, MemoryTypeOK, ShadowTypeOK
<1>3. ASSUME PopSeg("SS") PROVE TypeOK'
  <2>1. /\ Executes("POP", 1) /\ Pops(1) /\ sreg' = [sreg EXCEPT !["SS"] = Popped(1)]
        /\ sp' = AfterPops(1) /\ ip' = After(1) /\ UNCHANGED <<ax, flags>>
    BY <1>3 DEF PopSeg
  <2>2. /\ Popped(1) \in Word /\ sp' \in Word
        /\ ram' \in [Ram -> Byte] /\ shadowRam' \in [Ram -> SUBSET Flag]
    BY <1>1, <2>1, PopsType, Zenon
  <2>3. sreg' \in [Segs -> Word]
    BY <1>1, <2>1, <2>2
  <2> QED
    BY <1>1, <2>1, <2>2, <2>3, AfterType, ExecutesType DEF TypeOK, MemoryTypeOK, ShadowTypeOK
<1>4. ASSUME NEW newss \in Segments, NEW newsp \in Stacks, SetStack(newss, newsp) PROVE TypeOK'
  <2>1. newss \in Word /\ newsp \in Word
    BY StackAssumption
  <2>2. /\ Executes("MOV", 2) /\ sreg' = [sreg EXCEPT !["SS"] = newss] /\ sp' = newsp
        /\ ip' = After(2) /\ UNCHANGED <<ax, flags, ram, shadowRam>>
    BY <1>4 DEF SetStack
  <2>3. sreg' \in [Segs -> Word]
    BY <1>1, <2>1, <2>2
  <2> QED
    BY <1>1, <2>1, <2>2, <2>3, AfterType, ExecutesType DEF TypeOK, MemoryTypeOK, ShadowTypeOK
<1> QED
  BY <1>2, <1>3, <1>4 DEF Switches

\* what does none of these, where SAHF and LAHF move bits between AH and the flags,
LEMMA OthersType ==
    ASSUME TypeOK, Others
    PROVE  TypeOK'
<1>1. /\ ip \in Word /\ ax \in Word /\ sp \in Word /\ flags \subseteq FlagBits
      /\ ram \in [Ram -> Byte] /\ shadowRam \in [Ram -> SUBSET Flag]
      /\ sreg \in [Segs -> Word]
  BY DEF TypeOK, MemoryTypeOK, ShadowTypeOK
<1>2. 0 \in FlagBits
  BY Powers, Widths DEF FlagBits
<1>3. ASSUME NEW off \in Stacks, StoreWord(off) PROVE TypeOK'
  <2>1. /\ Executes("MOV", 3) /\ ram' = With(ram, "SS", off, ax)
        /\ shadowRam' = Readable(shadowRam, "SS", off)
        /\ ip' = After(3) /\ UNCHANGED <<ax, sp, flags, sreg>>
    BY <1>3, Zenon DEF StoreWord
  <2>2. ram' \in [Ram -> Byte] /\ shadowRam' \in [Ram -> SUBSET Flag]
    BY <1>1, <2>1, WithType, ReadableType, Zenon
  <2> QED
    BY <1>1, <2>1, <2>2, AfterType, ExecutesType DEF TypeOK, MemoryTypeOK, ShadowTypeOK
<1>4. ASSUME NEW target \in Targets, Jump(target) PROVE TypeOK'
  <2>1. target \in Word
    BY StackAssumption
  <2> QED
    BY <1>1, <1>4, <2>1, ExecutesType DEF Jump, memoryVars, TypeOK, MemoryTypeOK, ShadowTypeOK
<1>5. ASSUME Sahf PROVE TypeOK'
  <2>1. flags' \subseteq FlagBits
    BY <1>1, <1>5 DEF Sahf, Bits
  <2> QED
    BY <1>1, <1>5, <2>1, AfterType, ExecutesType
    DEF Sahf, memoryVars, TypeOK, MemoryTypeOK, ShadowTypeOK
<1>6. ASSUME Lahf PROVE TypeOK'
  <2> DEFINE h == Number(flags \cap LowBits \cap Kept)
  <2>1. /\ Executes("LAHF", 1) /\ ax' = Low(ax) + ByteMod * h /\ ip' = After(1)
        /\ UNCHANGED <<sp, flags, memoryVars>>
    BY <1>6, Zenon DEF Lahf
  <2>2. h \in Byte
    <3>1. flags \cap LowBits \cap Kept \in SUBSET LowBits
      OBVIOUS
    <3> QED
      BY <3>1, NumberOfBits, Zenon
  <2> HIDE DEF h
  <2>3. ax' \in Word
    <3>1. Low(ax) \in Byte
      BY <1>1, WordBytes
    <3> QED
      BY <2>1, <2>2, <3>1, BytesWord, Zenon
  <2> QED
    BY <1>1, <2>1, <2>3, AfterType, ExecutesType
    DEF memoryVars, TypeOK, MemoryTypeOK, ShadowTypeOK
<1>7. ASSUME NEW b \in Kept \ {AlwaysOne}, SetFlag(b) PROVE TypeOK'
  <2>1. b \in FlagBits
    BY StackAssumption
  <2> QED
    BY <1>1, <1>7, <2>1, AfterType, ExecutesType
    DEF SetFlag, memoryVars, TypeOK, MemoryTypeOK, ShadowTypeOK
<1>8. ASSUME NEW intno, NEW answer \in Answers, Syscall(intno, answer) PROVE TypeOK'
  <2>1. answer \in Word
    BY StackAssumption
  <2>2. flags' \subseteq FlagBits
    BY <1>1, <1>2, <1>8 DEF Syscall
  <2> QED
    BY <1>1, <1>8, <2>1, <2>2, AfterType, ExecutesType
    DEF Syscall, memoryVars, TypeOK, MemoryTypeOK, ShadowTypeOK
<1> QED
  BY <1>3, <1>4, <1>5, <1>6, <1>7, <1>8 DEF Others

\* the ends of a program
LEMMA EndsType ==
    ASSUME TypeOK, Ends \/ Exited \/ UNCHANGED stackVars
    PROVE  TypeOK'
<1>1. CASE Ends
  <2>1. RuntimeError
    BY <1>1 DEF Ends, Trap, AccessRefused
  <2> QED
    BY <2>1 DEF RuntimeError, memoryVars, TypeOK, MemoryTypeOK, ShadowTypeOK
<1>2. CASE Exited \/ UNCHANGED stackVars
  BY <1>2 DEF Exited, stackVars, memoryVars, TypeOK, MemoryTypeOK, ShadowTypeOK
<1> QED
  BY <1>1, <1>2

\* and what the loaders leave.
LEMMA InitType == Init => TypeOK
<1> SUFFICES ASSUME Init PROVE TypeOK
  OBVIOUS
<1>1. PICK l \in Loaded :
        /\ kind = l.kind /\ sp = l.sp /\ stackLow = l.stackLow
        /\ shadowRam = [a \in Ram |-> IF l.readable THEN {"fRead", "fWrite"} ELSE {"fWrite"}]
  BY DEF Init
<1>2. l \in [kind : {"elks", "dos", "bin"}, sp : Word, stackLow : Nat, readable : BOOLEAN]
  BY StackAssumption
<1>3. 0 \in Word /\ 0 \in Byte
  BY DEF Word, Byte
<1>4. ram \in [Ram -> Byte] /\ sreg \in [Segs -> Word]
  BY <1>3 DEF Init
<1>5. shadowRam \in [Ram -> SUBSET Flag]
  BY <1>1 DEF Flag
<1>6. flags \subseteq FlagBits
  BY StackAssumption DEF Init
<1> QED
  BY <1>1, <1>2, <1>3, <1>4, <1>5, <1>6 DEF Init, TypeOK, MemoryTypeOK, ShadowTypeOK

\* Whatever instructions follow each other, words stay words and flags are bits of a
\* word, also where IP, SP and segments come from memory the program wrote.
THEOREM TypeCorrect == Spec => []TypeOK
<1>1. TypeOK /\ [Next]_stackVars => TypeOK'
  BY PushesType, TakesType, SwitchesType, OthersType, EndsType DEF Next
<1> QED
  BY <1>1, InitType, PTL DEF Spec

-----------------------------------------------------------------------------
(* The words between SP and base.  Memory and segment are parameters here,   *)
(* so that what is said of a state can be said of the next one.              *)

Place(ss, x) == ss * Para + ToWord(x)
WordFrom(m, ss, x) == m[Place(ss, x)] + ByteMod * m[Place(ss, x + 1)]

Known == [i \in 1 .. Depth |-> WordAt(base - 2 * i)]
Even  == ToWord(base - sp) % 2 = 0

\* All the known words are in RAM.
Held == \A k \in 0 .. 2 * Depth - 1 : Place(sreg["SS"], sp + k) \in Ram

\* What the refinement rests on.  Bit 1 of the flags is always one: PUSHF and LAHF copy
\* it, and the abstract flags do not have it.
HInv == TypeOK /\ base \in Word /\ Even /\ Held /\ AlwaysOne \in flags

\* An address in the stack segment.
LEMMA AddressIsPlace == \A x : Address("SS", x) = Place(sreg["SS"], x)
  BY Zenon DEF Address, Place

\* Offsets can be added up before they are cut to a Word,
LEMMA PlaceSum ==
    ASSUME NEW ss, NEW x \in Int, NEW i \in Int
    PROVE  Place(ss, ToWord(x) + i) = Place(ss, x + i)
  BY ToWordSum, Zenon DEF Place

\* also where a word wraps.
LEMMA WordFromSum ==
    ASSUME NEW m, NEW ss, NEW x \in Int, NEW i \in Int
    PROVE  WordFrom(m, ss, ToWord(x) + i) = WordFrom(m, ss, x + i)
<1>1. i + 1 \in Int /\ (x + i) + 1 = x + (i + 1) /\ (ToWord(x) + i) + 1 = ToWord(x) + (i + 1)
  BY ToWordType DEF Word
<1>2. Place(ss, ToWord(x) + i) = Place(ss, x + i)
  BY PlaceSum
<1>3. Place(ss, (ToWord(x) + i) + 1) = Place(ss, (x + i) + 1)
  BY <1>1, PlaceSum, ZenonT(60)
<1> QED
  BY <1>2, <1>3, Zenon DEF WordFrom

\* Offsets less than a segment apart are different bytes.
LEMMA PlaceDistinct ==
    ASSUME NEW ss \in Nat, NEW x \in Int, NEW i \in Int, NEW j \in Int,
           i # j, i - j < WordMod, j - i < WordMod
    PROVE  Place(ss, x + i) # Place(ss, x + j)
<1>1. x + i \in Int /\ x + j \in Int
  OBVIOUS
<1>2. ToWord(x + i) # ToWord(x + j)
  BY ToWordDistinct, Zenon
<1>3. ToWord(x + i) \in Int /\ ToWord(x + j) \in Int
  BY <1>1, ToWordType DEF Word
<1>4. ss * Para \in Int
  OBVIOUS
<1>5. \A l, u, v \in Int : l + u = l + v => u = v
  OBVIOUS
<1> QED
  BY <1>2, <1>3, <1>4, <1>5, Zenon DEF Place

\* How far base is from SP.
LEMMA DepthIs ==
    ASSUME base \in Word, sp \in Word, Even
    PROVE  /\ Depth \in Nat /\ 2 * Depth <= WordMod - 2 /\ 2 * Depth < WordMod
           /\ ToWord(sp + 2 * Depth) = base
<1> DEFINE t == ToWord(base - sp)
<1>1. t \in Word /\ t % 2 = 0 /\ Depth = t \div 2 /\ base - sp \in Int
  BY ToWordType DEF Even, Depth, Word
<1>2. WordMod \in Nat /\ WordMod % 2 = 0
  BY Widths
<1>3. ToWord(t + sp) = base
  <2>1. ToWord(t + sp) = ToWord((base - sp) + sp)
    BY <1>1, ToWordSum DEF Word
  <2>2. (base - sp) + sp = base
    BY DEF Word
  <2>3. ToWord(base) = base
    BY ToWordOfWord
  <2> QED
    BY <2>1, <2>2, <2>3, Zenon
<1> HIDE DEF t
<1>4. Depth \in Nat /\ 2 * Depth = t
  BY <1>1 DEF Word
<1>5. t + sp = sp + 2 * Depth
  BY <1>1, <1>4 DEF Word
<1>6. ToWord(sp + 2 * Depth) = base
  BY <1>3, <1>5, Zenon
<1>7. 2 * Depth <= WordMod - 2
  BY <1>1, <1>2, <1>4 DEF Word
<1> QED
  BY <1>2, <1>4, <1>6, <1>7

\* The number of words determines what is known.
LEMMA KnownIs ==
    base \in Word /\ sp \in Word =>
      \A d \in Nat :
        2 * d < WordMod /\ ToWord(sp + 2 * d) = base =>
          /\ Depth = d /\ Even
          /\ Known = [i \in 1 .. d |-> WordFrom(ram, sreg["SS"], sp + 2 * (d - i))]
<1> SUFFICES ASSUME base \in Word, sp \in Word, NEW d \in Nat, 2 * d < WordMod,
                    ToWord(sp + 2 * d) = base
             PROVE  /\ Depth = d /\ Even
                    /\ Known = [i \in 1 .. d |-> WordFrom(ram, sreg["SS"], sp + 2 * (d - i))]
  BY Zenon
<1>1. sp + 2 * d \in Int /\ sp \in Int /\ -sp \in Int /\ base \in Int
  BY DEF Word
<1>2. ToWord(base - sp) = 2 * d
  <2>1. ToWord(ToWord(sp + 2 * d) + (-sp)) = ToWord((sp + 2 * d) + (-sp))
    BY <1>1, ToWordSum
  <2>2. base + (-sp) = base - sp /\ (sp + 2 * d) + (-sp) = 2 * d
    BY <1>1
  <2>3. ToWord(2 * d) = 2 * d
    <3>1. 2 * d \in Word
      BY DEF Word
    <3> QED
      BY <3>1, ToWordOfWord
  <2> QED
    BY <2>1, <2>2, <2>3, Zenon
<1>3. Depth = d
  BY <1>2 DEF Depth
<1>4. Even
  BY <1>2 DEF Even
<1>5. ASSUME NEW i \in 1 .. d
      PROVE  WordAt(base - 2 * i) = WordFrom(ram, sreg["SS"], sp + 2 * (d - i))
  <2>1. -2 * i \in Int /\ base - 2 * i = base + (-2 * i)
        /\ (sp + 2 * d) + (-2 * i) = sp + 2 * (d - i)
    BY <1>1
  <2>2. WordFrom(ram, sreg["SS"], ToWord(sp + 2 * d) + (-2 * i))
          = WordFrom(ram, sreg["SS"], (sp + 2 * d) + (-2 * i))
    BY <1>1, <2>1, WordFromSum
  <2>3. WordAt(base - 2 * i) = WordFrom(ram, sreg["SS"], base - 2 * i)
    BY Zenon DEF WordAt, WordFrom, Address, Place
  <2> QED
    BY <2>1, <2>2, <2>3, Zenon
<1>6. Known = [i \in 1 .. d |-> WordFrom(ram, sreg["SS"], sp + 2 * (d - i))]
  BY <1>3, <1>5, Zenon DEF Known
<1> QED
  BY <1>3, <1>4, <1>6

\* The same of the next state.
LEMMA KnownIsNext ==
    (base \in Word /\ sp \in Word =>
      \A d \in Nat :
        2 * d < WordMod /\ ToWord(sp + 2 * d) = base =>
          /\ Depth = d /\ Even
          /\ Known = [i \in 1 .. d |-> WordFrom(ram, sreg["SS"], sp + 2 * (d - i))])'
  BY KnownIs, PTL

\* What is known is a sequence of words, the one at SP last.
LEMMA KnownType ==
    ASSUME HInv
    PROVE  /\ Known \in Seq(Word) /\ Len(Known) = Depth /\ Depth \in Nat
           /\ \A i \in 1 .. Depth :
                Known[i] = WordFrom(ram, sreg["SS"], sp + 2 * (Depth - i))
<1>1. /\ base \in Word /\ sp \in Word /\ Even /\ Held
      /\ sreg \in [Segs -> Word] /\ ram \in [Ram -> Byte] /\ "SS" \in Segs
  BY DEF HInv, TypeOK, MemoryTypeOK, ShadowTypeOK, Segs
<1>2. Depth \in Nat /\ 2 * Depth < WordMod /\ ToWord(sp + 2 * Depth) = base
  BY <1>1, DepthIs
<1>3. Known = [i \in 1 .. Depth |-> WordFrom(ram, sreg["SS"], sp + 2 * (Depth - i))]
  BY <1>1, <1>2, KnownIs, Zenon
<1>4. ASSUME NEW i \in 1 .. Depth
      PROVE  WordFrom(ram, sreg["SS"], sp + 2 * (Depth - i)) \in Word
  <2> DEFINE k == 2 * (Depth - i)
  <2>1. k \in 0 .. 2 * Depth - 1 /\ k + 1 \in 0 .. 2 * Depth - 1 /\ (sp + k) + 1 = sp + (k + 1)
    BY <1>1, <1>2 DEF Word
  <2> HIDE DEF k
  <2>2. Place(sreg["SS"], sp + k) \in Ram /\ Place(sreg["SS"], (sp + k) + 1) \in Ram
    BY <1>1, <2>1, Zenon DEF Held
  <2>3. /\ ram[Place(sreg["SS"], sp + k)] \in Byte
        /\ ram[Place(sreg["SS"], (sp + k) + 1)] \in Byte
    BY <1>1, <2>2
  <2>4. WordFrom(ram, sreg["SS"], sp + k) \in Word
    BY <2>3, BytesWord, Zenon DEF WordFrom
  <2> QED
    BY <2>4, Zenon DEF k
<1> DEFINE e(i) == WordFrom(ram, sreg["SS"], sp + 2 * (Depth - i))
<1>5. Known = [i \in 1 .. Depth |-> e(i)] /\ \A i \in 1 .. Depth : e(i) \in Word
  BY <1>3, <1>4, Zenon
<1>6. \A i \in 1 .. Depth : Known[i] = e(i)
  BY <1>5, Zenon
<1> HIDE DEF e
<1>7. Known \in Seq(Word) /\ Len(Known) = Depth
  BY <1>2, <1>5
<1> QED
  BY <1>2, <1>6, <1>7 DEF e

\* A stack that begins at SP has nothing known on it.
LEMMA NothingKnown ==
    ASSUME sp' \in Word, base' = sp'
    PROVE  base' \in Word /\ Even' /\ Held' /\ Known' = <<>>
<1>1. sp' + 2 * 0 = sp' /\ 2 * 0 < WordMod /\ 0 \in Nat
  <2>1. \A x \in Word : x + 2 * 0 = x
    BY DEF Word
  <2>2. 2 * 0 < WordMod /\ 0 \in Nat
    OBVIOUS
  <2> QED
    BY <2>1, <2>2, Zenon
<1>2. ToWord(sp' + 2 * 0) = base'
  BY <1>1, ToWordOfWord, Zenon
<1>3. /\ Depth' = 0 /\ Even'
      /\ Known' = [i \in 1 .. 0 |-> WordFrom(ram', sreg'["SS"], sp' + 2 * (0 - i))]
  BY <1>1, <1>2, KnownIsNext, Zenon
<1>4. Known' = <<>>
  <2> DEFINE e(i) == WordFrom(ram', sreg'["SS"], sp' + 2 * (0 - i))
  <2>1. Known' = [i \in 1 .. 0 |-> e(i)]
    BY <1>3, Zenon
  <2> HIDE DEF e
  <2> QED
    BY <2>1
<1>5. Held'
  <2>1. \A k : k \notin 0 .. 2 * Depth' - 1
    BY <1>3
  <2> QED
    BY <2>1, Zenon DEF Held
<1> QED
  BY <1>3, <1>4, <1>5

\* Taking words and then some bytes off.
LEMMA DropKnown ==
    ASSUME HInv, NEW k \in Nat, NEW drop \in Nat, NEW n, n = 2 * k + drop,
           sp' = ToWord(sp + n), Drop(n), ram' = ram, sreg'["SS"] = sreg["SS"]
    PROVE  /\ base' \in Word /\ Even' /\ Held'
           /\ Known' = IF drop % 2 = 0 /\ k + drop \div 2 <= Len(Known)
                         THEN SubSeq(Known, 1, Len(Known) - k - drop \div 2) ELSE <<>>
<1>1. base \in Word /\ sp \in Word /\ sp \in Int /\ Even /\ Held
  BY DEF HInv, TypeOK, Word
<1>2. Depth \in Nat /\ 2 * Depth < WordMod /\ ToWord(sp + 2 * Depth) = base
  BY <1>1, DepthIs
<1>3. n \in Nat /\ sp + n \in Int /\ sp' \in Word /\ Len(Known) = Depth
  BY <1>1, ToWordType, KnownType
<1>4. CASE drop % 2 = 0 /\ k + drop \div 2 <= Depth
  <2> DEFINE d == Depth - k - drop \div 2
             ss == sreg["SS"]
             dep == Depth
  <2>1. n % 2 = 0 /\ n <= 2 * dep /\ d \in Nat /\ 2 * d = 2 * dep - n /\ d <= dep
    BY <1>2, <1>3, <1>4
  <2>2. base' = base
    BY <2>1 DEF Drop
  <2> HIDE DEF d, ss, dep
  <2>3. dep \in Nat /\ 2 * dep < WordMod /\ ToWord(sp + 2 * dep) = base /\ dep = Depth
    BY <1>2 DEF dep
  <2>4. ToWord(sp' + 2 * d) = base' /\ 2 * d < WordMod
    <3>1. ToWord(ToWord(sp + n) + 2 * d) = ToWord((sp + n) + 2 * d)
      BY <1>3, <2>1, ToWordSum
    <3>2. (sp + n) + 2 * d = sp + 2 * dep /\ 2 * d < WordMod
      BY <1>1, <1>3, <2>1, <2>3
    <3> QED
      BY <2>2, <2>3, <3>1, <3>2, Zenon
  <2>5. /\ Depth' = d /\ Even'
        /\ Known' = [i \in 1 .. d |-> WordFrom(ram', sreg'["SS"], sp' + 2 * (d - i))]
    BY <1>1, <1>3, <2>1, <2>2, <2>4, KnownIsNext, Zenon
  <2>6. ASSUME NEW i \in 1 .. d
        PROVE  i \in 1 .. dep /\ WordFrom(ram', sreg'["SS"], sp' + 2 * (d - i)) = Known[i]
    <3>1. i \in 1 .. dep /\ 2 * (d - i) \in Int /\ (sp + n) + 2 * (d - i) = sp + 2 * (dep - i)
      BY <1>1, <1>3, <2>1, <2>3
    <3>2. WordFrom(ram, ss, ToWord(sp + n) + 2 * (d - i)) = WordFrom(ram, ss, (sp + n) + 2 * (d - i))
      BY <1>3, <3>1, WordFromSum
    <3>3. Known[i] = WordFrom(ram, sreg["SS"], sp + 2 * (dep - i))
      BY <2>3, <3>1, KnownType, Zenon
    <3> QED
      BY <3>1, <3>2, <3>3, Zenon DEF ss
  <2>7. Known' = [i \in 1 .. d |-> Known[i]]
    BY <2>5, <2>6, Zenon
  <2>8. Known' = SubSeq(Known, 1, d)
    <3> DEFINE known == Known
    <3>1. known \in Seq(Word) /\ Len(known) = dep
      BY <2>3, KnownType
    <3>2. Known' = [i \in 1 .. d |-> known[i]]
      BY <2>7
    <3> HIDE DEF known
    <3>3. SubSeq(known, 1, d) = [i \in 1 .. d |-> known[i]]
      BY <2>1, <2>3, <3>1
    <3> QED
      BY <3>2, <3>3 DEF known
  <2>9. Held'
    <3>1. ASSUME NEW j \in 0 .. 2 * d - 1
          PROVE  Place(sreg["SS"], ToWord(sp + n) + j) \in Ram
      <4>1. j \in Int /\ n + j \in 0 .. 2 * Depth - 1 /\ (sp + n) + j = sp + (n + j)
        BY <1>1, <1>3, <2>1, <2>3
      <4>2. Place(sreg["SS"], ToWord(sp + n) + j) = Place(sreg["SS"], (sp + n) + j)
        BY <1>3, <4>1, PlaceSum
      <4> QED
        BY <1>1, <4>1, <4>2, Zenon DEF Held
    <3> QED
      BY <2>5, <3>1, Zenon DEF Held
  <2> QED
    BY <1>1, <1>3, <1>4, <2>2, <2>5, <2>8, <2>9 DEF d
<1>5. CASE ~(drop % 2 = 0 /\ k + drop \div 2 <= Depth)
  <2>1. ~(n % 2 = 0 /\ n <= 2 * Depth)
    BY <1>2, <1>3, <1>5
  <2>2. base' = sp'
    BY <2>1, Zenon DEF Drop
  <2> QED
    BY <1>3, <1>5, <2>2, NothingKnown
<1> QED
  BY <1>4, <1>5, Zenon

\* A word that was stored is read back, and no other byte changes.
LEMMA StoredWord ==
    ASSUME sreg \in [Segs -> Word], NEW m \in [Ram -> Byte], NEW off \in Int, NEW w \in Word,
           Place(sreg["SS"], off) \in Ram, Place(sreg["SS"], off + 1) \in Ram
    PROVE  /\ WordFrom(With(m, "SS", off, w), sreg["SS"], off) = w
           /\ \A a \in Ram : a # Place(sreg["SS"], off) /\ a # Place(sreg["SS"], off + 1)
                              => With(m, "SS", off, w)[a] = m[a]
<1> DEFINE p == Place(sreg["SS"], off)
           q == Place(sreg["SS"], off + 1)
           m2 == With(m, "SS", off, w)
<1>1. m2 = [m EXCEPT ![p] = Low(w), ![q] = High(w)]
  <2>1. Address("SS", off) = p /\ Address("SS", off + 1) = q
    BY AddressIsPlace, Zenon
  <2>2. m2 = [m EXCEPT ![Address("SS", off)] = Low(w), ![Address("SS", off + 1)] = High(w)]
    BY Zenon DEF With
  <2> HIDE DEF p, q, m2
  <2> QED
    BY <2>1, <2>2
<1>2. p # q
  <2>1. sreg["SS"] \in Nat
    BY DEF Segs, Word
  <2>2. 0 \in Int /\ 1 \in Int /\ 0 # 1 /\ 0 - 1 < WordMod /\ 1 - 0 < WordMod /\ off + 0 = off
    BY Widths
  <2> QED
    BY <2>1, <2>2, PlaceDistinct, Zenon
<1>3. p \in Ram /\ q \in Ram
  OBVIOUS
<1> HIDE DEF p, q, m2
<1>4. m2[p] = Low(w) /\ m2[q] = High(w) /\ \A a \in Ram : a # p /\ a # q => m2[a] = m[a]
  BY <1>1, <1>2, <1>3
<1>5. Low(w) + ByteMod * High(w) = w
  BY WordBytes
<1>6. WordFrom(m2, sreg["SS"], off) = m2[p] + ByteMod * m2[q]
  BY Zenon DEF WordFrom, p, q
<1>7. WordFrom(m2, sreg["SS"], off) = w
  BY <1>4, <1>5, <1>6, Zenon
<1> QED
  BY <1>4, <1>7, Zenon DEF p, q, m2

\* Two sequences one after the other, as a function.
LEMMA ConcatIs ==
    ASSUME NEW S, NEW s \in Seq(S), NEW t \in Seq(S)
    PROVE  s \o t = [i \in 1 .. Len(s) + Len(t) |-> IF i <= Len(s) THEN s[i] ELSE t[i - Len(s)]]
<1> DEFINE u == s \o t
           e(i) == IF i <= Len(s) THEN s[i] ELSE t[i - Len(s)]
<1>1. u \in Seq(S) /\ Len(u) = Len(s) + Len(t) /\ \A i \in 1 .. Len(s) + Len(t) : u[i] = e(i)
  BY ConcatProperties, Zenon
<1> HIDE DEF u, e
<1>2. u = [i \in 1 .. Len(u) |-> u[i]]
  BY <1>1
<1>3. u = [i \in 1 .. Len(s) + Len(t) |-> e(i)]
  BY <1>1, <1>2, Zenon
<1> QED
  BY <1>3, Zenon DEF u, e

\* Pushing n words.
LEMMA PushKnown ==
    ASSUME HInv, NEW n \in 1 .. 2, sp' = ToWord(sp - 2 * n), Adds, sreg'["SS"] = sreg["SS"],
           NEW words \in Seq(Word), Len(words) = n,
           2 * Depth + 2 * n < WordMod =>
             \A k \in 0 .. 2 * Depth - 1 :
               ram'[Place(sreg["SS"], sp + k)] = ram[Place(sreg["SS"], sp + k)],
           \A j \in 1 .. n : WordFrom(ram', sreg["SS"], sp - 2 * j) = words[j],
           \A k \in 0 .. 2 * n - 1 : Place(sreg["SS"], (sp - 2 * n) + k) \in Ram
    PROVE  /\ base' \in Word /\ Even' /\ Held'
           /\ Known' = IF Len(Known) + Len(words) < WordMod \div 2
                         THEN Known \o words ELSE <<>>
<1> DEFINE ss == sreg["SS"]
           dep == Depth
           known == Known
           x == sp - 2 * n
<1>1. base \in Word /\ sp \in Word /\ sp \in Int /\ Even /\ Held /\ x \in Int /\ x = sp - 2 * n
  BY DEF HInv, TypeOK, Word
<1>2. dep \in Nat /\ 2 * dep <= WordMod - 2 /\ ToWord(sp + 2 * dep) = base
  BY <1>1, DepthIs
<1>3. sp' = ToWord(x) /\ sp' \in Word /\ sp' \in Int
  BY <1>1, ToWordType DEF Word
<1>4. known \in Seq(Word) /\ Len(known) = dep
  BY KnownType
<1>5. ToWord(sp - sp') = 2 * n
  <2> DEFINE t == ToWord(x)
  <2>1. t \in Int /\ sp' = t
    BY <1>3
  <2>2. ToWord(t + 2 * n) = sp
    <3>1. ToWord(t + 2 * n) = ToWord(x + 2 * n)
      BY <1>1, ToWordSum
    <3>2. x + 2 * n = sp
      BY <1>1
    <3> QED
      BY <1>1, <3>1, <3>2, ToWordOfWord, Zenon
  <2> HIDE DEF t
  <2>3. t + 2 * n \in Int /\ -t \in Int /\ (t + 2 * n) + (-t) = 2 * n /\ sp + (-t) = sp - t
    BY <1>1, <2>1
  <2>4. ToWord(ToWord(t + 2 * n) + (-t)) = ToWord((t + 2 * n) + (-t))
    BY <2>3, ToWordSum
  <2>5. 2 * n \in Word
    <3>1. WordMod \in Nat /\ WordMod >= 16
      BY Widths
    <3> QED
      BY <3>1 DEF Word
  <2>6. ToWord(2 * n) = 2 * n
    BY <2>5, ToWordOfWord
  <2> QED
    BY <2>1, <2>2, <2>3, <2>4, <2>6, Zenon
<1>6. base' = IF 2 * dep + 2 * n < WordMod THEN base ELSE sp'
  BY <1>5, Zenon DEF Adds
<1>7. 2 * dep + 2 * n < WordMod <=> Len(known) + Len(words) < WordMod \div 2
  <2>1. WordMod \in Nat /\ WordMod % 2 = 0
    BY Widths
  <2> HIDE DEF dep, known
  <2> QED
    BY <1>2, <1>4, <2>1
<1>8. CASE 2 * dep + 2 * n < WordMod
  <2> DEFINE d == dep + n
  <2>1. d \in Nat /\ 2 * d < WordMod /\ d = dep + n /\ base' = base
    BY <1>2, <1>6, <1>8
  <2>2. ToWord(sp' + 2 * d) = base'
    <3>1. x + 2 * d = sp + 2 * dep /\ 2 * d \in Int
      BY <1>1, <1>2, <2>1
    <3>2. ToWord(ToWord(x) + 2 * d) = ToWord(x + 2 * d)
      BY <1>1, <3>1, ToWordSum
    <3> QED
      BY <1>2, <1>3, <2>1, <3>1, <3>2, Zenon
  <2> HIDE DEF d, dep, x
  <2>3. /\ Depth' = d /\ Even'
        /\ Known' = [i \in 1 .. d |-> WordFrom(ram', sreg'["SS"], sp' + 2 * (d - i))]
    BY <1>1, <1>3, <2>1, <2>2, KnownIsNext, Zenon
  <2>4. ASSUME NEW i \in 1 .. d
        PROVE  WordFrom(ram', ss, sp' + 2 * (d - i)) = WordFrom(ram', ss, sp + 2 * (dep - i))
    <3>1. 2 * (d - i) \in Int /\ x + 2 * (d - i) = sp + 2 * (dep - i)
      BY <1>1, <1>2, <2>1
    <3>2. WordFrom(ram', ss, ToWord(x) + 2 * (d - i)) = WordFrom(ram', ss, x + 2 * (d - i))
      BY <1>1, <3>1, WordFromSum
    <3> QED
      BY <1>3, <3>1, <3>2, Zenon
  <2>5. ASSUME NEW i \in 1 .. dep
        PROVE  WordFrom(ram', ss, sp + 2 * (dep - i)) = known[i]
    <3> DEFINE k == 2 * (dep - i)
    <3>1. k \in 0 .. 2 * dep - 1 /\ k + 1 \in 0 .. 2 * dep - 1 /\ (sp + k) + 1 = sp + (k + 1)
      BY <1>1, <1>2
    <3> HIDE DEF k
    <3>2. \A y \in 0 .. 2 * dep - 1 : ram'[Place(ss, sp + y)] = ram[Place(ss, sp + y)]
      BY <1>8, Zenon DEF dep, ss
    <3>3. /\ ram'[Place(ss, sp + k)] = ram[Place(ss, sp + k)]
          /\ ram'[Place(ss, (sp + k) + 1)] = ram[Place(ss, (sp + k) + 1)]
      BY <3>1, <3>2, Zenon
    <3>4. WordFrom(ram', ss, sp + k) = WordFrom(ram, ss, sp + k)
      BY <3>3, Zenon DEF WordFrom
    <3>5. known[i] = WordFrom(ram, ss, sp + 2 * (dep - i))
      BY KnownType, Zenon DEF ss, dep, known
    <3> QED
      BY <3>4, <3>5, Zenon DEF k
  <2>6. ASSUME NEW i \in 1 .. d, ~(i <= dep)
        PROVE  WordFrom(ram', ss, sp + 2 * (dep - i)) = words[i - dep]
    <3>1. i - dep \in 1 .. n /\ sp + 2 * (dep - i) = sp - 2 * (i - dep)
      BY <1>1, <1>2, <2>1, <2>6
    <3> QED
      BY <3>1, Zenon DEF ss
  <2>7. ASSUME NEW i \in 1 .. d
        PROVE  WordFrom(ram', ss, sp' + 2 * (d - i)) = IF i <= dep THEN known[i] ELSE words[i - dep]
    <3>1. i <= dep => i \in 1 .. dep
      BY <1>2, <2>1
    <3> QED
      BY <2>4, <2>5, <2>6, <3>1, Zenon
  <2>8. Known' = [i \in 1 .. d |-> IF i <= dep THEN known[i] ELSE words[i - dep]]
    BY <2>3, <2>7, Zenon DEF ss
  <2>9. known \o words = [i \in 1 .. d |-> IF i <= dep THEN known[i] ELSE words[i - dep]]
    <3> HIDE DEF known
    <3>1. known \o words = [i \in 1 .. Len(known) + Len(words) |->
                              IF i <= Len(known) THEN known[i] ELSE words[i - Len(known)]]
      BY <1>4, ConcatIs
    <3> QED
      BY <1>4, <2>1, <3>1, Zenon
  <2>10. Held'
    <3>1. ASSUME NEW j \in 0 .. 2 * d - 1 PROVE Place(ss, ToWord(x) + j) \in Ram
      <4>1. Place(ss, ToWord(x) + j) = Place(ss, x + j)
        BY <1>1, PlaceSum
      <4>2. CASE j < 2 * n
        <5>1. j \in 0 .. 2 * n - 1
          BY <4>2
        <5> QED
          BY <4>1, <5>1, Zenon DEF ss, x
      <4>3. CASE ~(j < 2 * n)
        <5>1. j - 2 * n \in 0 .. 2 * dep - 1 /\ x + j = sp + (j - 2 * n)
          BY <1>1, <1>2, <2>1, <4>3
        <5>2. \A y \in 0 .. 2 * dep - 1 : Place(ss, sp + y) \in Ram
          BY <1>1, Zenon DEF Held, ss, dep
        <5> QED
          BY <4>1, <5>1, <5>2, Zenon
      <4> QED
        BY <4>2, <4>3
    <3> QED
      BY <1>3, <2>3, <3>1, Zenon DEF Held, ss
  <2>11. Known' = known \o words
    BY <2>8, <2>9, Zenon
  <2> QED
    BY <1>1, <1>7, <1>8, <2>1, <2>3, <2>10, <2>11, Zenon DEF known
<1>9. CASE ~(2 * dep + 2 * n < WordMod)
  <2>1. base' = sp'
    BY <1>6, <1>9, Zenon
  <2> QED
    BY <1>3, <1>7, <1>9, <2>1, NothingKnown, Zenon DEF known
<1> QED
  BY <1>8, <1>9, Zenon

\* Where the n-th push writes.
LEMMA PushPlace ==
    ASSUME HInv, NEW k \in 1 .. 2, ~PushRefused(k), NEW n \in 1 .. k
    PROVE  /\ Pushed(n) \in Int /\ sp - 2 * n \in Int
           /\ Place(sreg["SS"], Pushed(n)) = Place(sreg["SS"], sp - 2 * n)
           /\ Place(sreg["SS"], Pushed(n) + 1) = Place(sreg["SS"], (sp - 2 * n) + 1)
           /\ \A m : WordFrom(m, sreg["SS"], Pushed(n)) = WordFrom(m, sreg["SS"], sp - 2 * n)
           /\ Place(sreg["SS"], Pushed(n)) \in Ram
           /\ Place(sreg["SS"], Pushed(n) + 1) \in Ram
<1> DEFINE x == sp - 2 * n
<1>1. /\ x \in Int /\ sreg \in [Segs -> Word] /\ "SS" \in Segs
  BY DEF HInv, TypeOK, MemoryTypeOK, ShadowTypeOK, Word, Segs
<1>2. Pushed(n) = ToWord(x)
  BY Zenon DEF Pushed
<1> HIDE DEF x
<1>3. ToWord(x) \in Int
  BY <1>1, ToWordType DEF Word
<1>4. 0 \in Int /\ 1 \in Int /\ x + 0 = x /\ ToWord(x) + 0 = ToWord(x)
  BY <1>1, <1>3
<1>5. Place(sreg["SS"], ToWord(x)) = Place(sreg["SS"], x)
  <2>1. Place(sreg["SS"], ToWord(x) + 0) = Place(sreg["SS"], x + 0)
    BY <1>1, <1>4, PlaceSum
  <2> QED
    BY <1>4, <2>1, Zenon
<1>6. Place(sreg["SS"], ToWord(x) + 1) = Place(sreg["SS"], x + 1)
  BY <1>1, <1>4, PlaceSum, Zenon
<1>7. ASSUME NEW m PROVE WordFrom(m, sreg["SS"], ToWord(x)) = WordFrom(m, sreg["SS"], x)
  <2>1. WordFrom(m, sreg["SS"], ToWord(x) + 0) = WordFrom(m, sreg["SS"], x + 0)
    BY <1>1, <1>4, WordFromSum
  <2> QED
    BY <1>4, <2>1, Zenon
<1>8. Allowed("fWrite", "SS", Pushed(n), 2)
  BY Zenon DEF PushRefused, CanWrite
<1>9. Address("SS", Pushed(n)) \in Ram /\ Address("SS", Pushed(n) + 1) \in Ram
  BY <1>1, <1>2, <1>3, <1>8, AllowedInRam, Zenon
<1>10. Place(sreg["SS"], Pushed(n)) \in Ram /\ Place(sreg["SS"], Pushed(n) + 1) \in Ram
  BY <1>9, AddressIsPlace, Zenon
<1> QED
  BY <1>1, <1>2, <1>3, <1>5, <1>6, <1>7, <1>10, Zenon DEF x

\* The known words are not where the pushes write.
LEMMA PushSpares ==
    ASSUME HInv, NEW k \in 1 .. 2, ~PushRefused(k), NEW n \in 1 .. k,
           2 * Depth + 2 * k < WordMod, NEW j \in 0 .. 2 * Depth - 1
    PROVE  /\ Place(sreg["SS"], sp + j) \in Ram
           /\ Place(sreg["SS"], sp + j) # Place(sreg["SS"], Pushed(n))
           /\ Place(sreg["SS"], sp + j) # Place(sreg["SS"], Pushed(n) + 1)
<1>1. /\ sp \in Int /\ sp \in Word /\ base \in Word /\ Even /\ Held
      /\ sreg["SS"] \in Nat /\ WordMod \in Nat
  BY DEF HInv, TypeOK, MemoryTypeOK, ShadowTypeOK, Word, Segs
<1>2. Depth \in Nat
  BY <1>1, DepthIs
<1>3. ASSUME NEW c \in 0 .. 1
      PROVE  Place(sreg["SS"], sp + j) # Place(sreg["SS"], (sp - 2 * n) + c)
  <2> DEFINE i == c - 2 * n
             dep == Depth
  <2> HIDE DEF dep
  <2>1. dep \in Nat /\ 2 * dep + 2 * k < WordMod /\ j \in 0 .. 2 * dep - 1
    BY <1>2 DEF dep
  <2>2. i \in Int /\ j \in Int /\ j # i /\ j - i < WordMod /\ i - j < WordMod
        /\ (sp - 2 * n) + c = sp + i
    BY <1>1, <2>1
  <2> HIDE DEF i
  <2>3. Place(sreg["SS"], sp + j) # Place(sreg["SS"], sp + i)
    BY <1>1, <2>2, PlaceDistinct
  <2> QED
    BY <2>2, <2>3, Zenon
<1>4. 0 \in 0 .. 1 /\ 1 \in 0 .. 1 /\ (sp - 2 * n) + 0 = sp - 2 * n
  BY <1>1
<1>5. Place(sreg["SS"], sp + j) \in Ram
  BY <1>1, Zenon DEF Held
<1> QED
  BY <1>3, <1>4, <1>5, PushPlace, Zenon

\* One call of push() adds its argument,
LEMMA PushOne ==
    ASSUME HInv, NEW w \in Word, Push(w), Adds, sreg'["SS"] = sreg["SS"]
    PROVE  /\ base' \in Word /\ Even' /\ Held'
           /\ Known' = IF Len(Known) + Len(<<w>>) < WordMod \div 2
                         THEN Known \o <<w>> ELSE <<>>
<1>1. /\ sp \in Int /\ ram \in [Ram -> Byte] /\ sreg \in [Segs -> Word]
  BY DEF HInv, TypeOK, MemoryTypeOK, ShadowTypeOK, Word
<1>2. /\ ~PushRefused(1) /\ sp' = ToWord(sp - 2 * 1) /\ ram' = With(ram, "SS", Pushed(1), w)
  BY Zenon DEF Push, Pushed
<1>3. 1 \in 1 .. 2 /\ 1 \in 1 .. 1
  OBVIOUS
<1>4. /\ WordFrom(ram', sreg["SS"], Pushed(1)) = w
      /\ \A a \in Ram : a # Place(sreg["SS"], Pushed(1)) /\ a # Place(sreg["SS"], Pushed(1) + 1)
                         => ram'[a] = ram[a]
  <2> DEFINE off == Pushed(1)
  <2>1. off \in Int /\ Place(sreg["SS"], off) \in Ram /\ Place(sreg["SS"], off + 1) \in Ram
    BY <1>2, <1>3, PushPlace, Zenon
  <2>2. ram' = With(ram, "SS", off, w)
    BY <1>2
  <2> HIDE DEF off
  <2>3. /\ WordFrom(ram', sreg["SS"], off) = w
        /\ \A a \in Ram : a # Place(sreg["SS"], off) /\ a # Place(sreg["SS"], off + 1)
                           => ram'[a] = ram[a]
    BY <1>1, <2>1, <2>2, StoredWord, ZenonT(60)
  <2> QED
    BY <2>3, Zenon DEF off
<1>5. ASSUME 2 * Depth + 2 * 1 < WordMod, NEW k \in 0 .. 2 * Depth - 1
      PROVE  ram'[Place(sreg["SS"], sp + k)] = ram[Place(sreg["SS"], sp + k)]
  BY <1>2, <1>3, <1>4, <1>5, PushSpares, Zenon
<1>6. ASSUME NEW j \in 1 .. 1 PROVE WordFrom(ram', sreg["SS"], sp - 2 * j) = <<w>>[j]
  <2>1. j = 1 /\ <<w>>[1] = w
    OBVIOUS
  <2>2. WordFrom(ram', sreg["SS"], sp - 2 * 1) = w
    BY <1>2, <1>3, <1>4, PushPlace, Zenon
  <2> QED
    BY <2>1, <2>2, Zenon
<1>7. ASSUME NEW k \in 0 .. 2 * 1 - 1 PROVE Place(sreg["SS"], (sp - 2 * 1) + k) \in Ram
  <2>1. (k = 0 \/ k = 1) /\ (sp - 2 * 1) + 0 = sp - 2 * 1
    BY <1>1
  <2> QED
    BY <1>2, <1>3, <2>1, PushPlace, Zenon
<1>8. <<w>> \in Seq(Word) /\ Len(<<w>>) = 1
  OBVIOUS
<1> QED
  BY <1>2, <1>3, <1>5, <1>6, <1>7, <1>8, PushKnown, Zenon

\* and two add two words, of which the second does not hit the first.
LEMMA PushTwo ==
    ASSUME HInv, NEW w \in Word, NEW v \in Word, PushBoth(w, v), Adds, sreg'["SS"] = sreg["SS"]
    PROVE  /\ base' \in Word /\ Even' /\ Held'
           /\ Known' = IF Len(Known) + Len(<<w, v>>) < WordMod \div 2
                         THEN Known \o <<w, v>> ELSE <<>>
<1> DEFINE ss == sreg["SS"]
           m == With(ram, "SS", Pushed(1), w)
<1>1. /\ sp \in Int /\ ram \in [Ram -> Byte] /\ sreg \in [Segs -> Word] /\ ss \in Nat
      /\ WordMod >= 16 /\ WordMod \in Nat
  BY Widths DEF HInv, TypeOK, MemoryTypeOK, ShadowTypeOK, Word, Segs
<1>2. /\ ~PushRefused(2) /\ sp' = ToWord(sp - 2 * 2) /\ ram' = With(m, "SS", Pushed(2), v)
  BY Zenon DEF PushBoth, Pushed
<1>3. 2 \in 1 .. 2 /\ 1 \in 1 .. 2
  OBVIOUS
<1>4. m \in [Ram -> Byte]
  BY <1>1, WithType, Zenon
<1>5. /\ WordFrom(m, ss, Pushed(1)) = w
      /\ \A a \in Ram : a # Place(ss, Pushed(1)) /\ a # Place(ss, Pushed(1) + 1)
                         => m[a] = ram[a]
  <2> DEFINE off == Pushed(1)
  <2>1. off \in Int /\ Place(ss, off) \in Ram /\ Place(ss, off + 1) \in Ram
    BY <1>2, <1>3, PushPlace, Zenon DEF ss
  <2>2. m = With(ram, "SS", off, w)
    BY <1>2 DEF m
  <2> HIDE DEF off, m
  <2>3. /\ WordFrom(m, ss, off) = w
        /\ \A a \in Ram : a # Place(ss, off) /\ a # Place(ss, off + 1) => m[a] = ram[a]
    BY <1>1, <2>1, <2>2, StoredWord, ZenonT(60) DEF ss
  <2> QED
    BY <2>3, Zenon DEF off
<1> HIDE DEF m
<1>6. /\ WordFrom(ram', ss, Pushed(2)) = v
      /\ \A a \in Ram : a # Place(ss, Pushed(2)) /\ a # Place(ss, Pushed(2) + 1)
                         => ram'[a] = m[a]
  <2> DEFINE off == Pushed(2)
  <2>1. off \in Int /\ Place(ss, off) \in Ram /\ Place(ss, off + 1) \in Ram
    BY <1>2, <1>3, PushPlace, Zenon DEF ss
  <2>2. ram' = With(m, "SS", off, v)
    BY <1>2 DEF m
  <2> HIDE DEF off, m
  <2>3. /\ WordFrom(ram', ss, off) = v
        /\ \A a \in Ram : a # Place(ss, off) /\ a # Place(ss, off + 1) => ram'[a] = m[a]
    BY <1>1, <1>4, <2>1, <2>2, StoredWord, ZenonT(60) DEF ss
  <2> QED
    BY <2>3, Zenon DEF off
<1>7. ASSUME NEW c \in 0 .. 1, NEW e \in 0 .. 1
      PROVE  Place(ss, (sp - 2 * 1) + c) # Place(ss, (sp - 2 * 2) + e)
  <2>1. /\ c - 2 \in Int /\ e - 4 \in Int /\ c - 2 # e - 4
        /\ (c - 2) - (e - 4) < WordMod /\ (e - 4) - (c - 2) < WordMod
        /\ (sp - 2 * 1) + c = sp + (c - 2) /\ (sp - 2 * 2) + e = sp + (e - 4)
    BY <1>1
  <2>2. Place(ss, sp + (c - 2)) # Place(ss, sp + (e - 4))
    BY <1>1, <2>1, PlaceDistinct
  <2> QED
    BY <2>1, <2>2, Zenon
<1>8. /\ 0 \in 0 .. 1 /\ 1 \in 0 .. 1
      /\ (sp - 2 * 1) + 0 = sp - 2 * 1 /\ (sp - 2 * 2) + 0 = sp - 2 * 2
  BY <1>1
<1>9. /\ Place(ss, Pushed(1)) # Place(ss, Pushed(2))
      /\ Place(ss, Pushed(1)) # Place(ss, Pushed(2) + 1)
      /\ Place(ss, Pushed(1) + 1) # Place(ss, Pushed(2))
      /\ Place(ss, Pushed(1) + 1) # Place(ss, Pushed(2) + 1)
  <2>1. /\ Place(ss, Pushed(1)) = Place(ss, (sp - 2 * 1) + 0)
        /\ Place(ss, Pushed(1) + 1) = Place(ss, (sp - 2 * 1) + 1)
    BY <1>2, <1>3, <1>8, PushPlace, Zenon
  <2>2. /\ Place(ss, Pushed(2)) = Place(ss, (sp - 2 * 2) + 0)
        /\ Place(ss, Pushed(2) + 1) = Place(ss, (sp - 2 * 2) + 1)
    BY <1>2, <1>3, <1>8, PushPlace, Zenon
  <2>3. /\ Place(ss, (sp - 2 * 1) + 0) # Place(ss, (sp - 2 * 2) + 0)
        /\ Place(ss, (sp - 2 * 1) + 0) # Place(ss, (sp - 2 * 2) + 1)
        /\ Place(ss, (sp - 2 * 1) + 1) # Place(ss, (sp - 2 * 2) + 0)
        /\ Place(ss, (sp - 2 * 1) + 1) # Place(ss, (sp - 2 * 2) + 1)
    BY <1>7, <1>8, Zenon
  <2> QED
    BY <2>1, <2>2, <2>3, Zenon
<1>10. WordFrom(ram', ss, Pushed(1)) = w
  <2>1. /\ ram'[Place(ss, Pushed(1))] = m[Place(ss, Pushed(1))]
        /\ ram'[Place(ss, Pushed(1) + 1)] = m[Place(ss, Pushed(1) + 1)]
    BY <1>2, <1>3, <1>6, <1>9, PushPlace, Zenon
  <2> QED
    BY <1>5, <2>1, Zenon DEF WordFrom
<1>11. ASSUME 2 * Depth + 2 * 2 < WordMod, NEW k \in 0 .. 2 * Depth - 1
       PROVE  ram'[Place(ss, sp + k)] = ram[Place(ss, sp + k)]
  BY <1>2, <1>3, <1>5, <1>6, <1>11, PushSpares, Zenon
<1>12. ASSUME NEW j \in 1 .. 2 PROVE WordFrom(ram', ss, sp - 2 * j) = <<w, v>>[j]
  <2>1. (j = 1 \/ j = 2) /\ <<w, v>>[1] = w /\ <<w, v>>[2] = v
    OBVIOUS
  <2>2. WordFrom(ram', ss, sp - 2 * 1) = w
    BY <1>2, <1>3, <1>10, PushPlace, Zenon
  <2>3. WordFrom(ram', ss, sp - 2 * 2) = v
    BY <1>2, <1>3, <1>6, PushPlace, Zenon
  <2> QED
    BY <2>1, <2>2, <2>3, Zenon
<1>13. ASSUME NEW k \in 0 .. 2 * 2 - 1 PROVE Place(ss, (sp - 2 * 2) + k) \in Ram
  <2>1. (k = 0 \/ k = 1 \/ k = 2 \/ k = 3) /\ (sp - 2 * 2) + 0 = sp - 2 * 2
        /\ (sp - 2 * 2) + 2 = sp - 2 * 1 /\ (sp - 2 * 2) + 3 = (sp - 2 * 1) + 1
    BY <1>1
  <2> QED
    BY <1>2, <1>3, <2>1, PushPlace, Zenon
<1>14. <<w, v>> \in Seq(Word) /\ Len(<<w, v>>) = 2
  OBVIOUS
<1> QED
  BY <1>2, <1>3, <1>11, <1>12, <1>13, <1>14, PushKnown, Zenon DEF ss

\* What leaves stack and memory alone leaves what is known alone.
LEMMA SameKnown ==
    ASSUME HInv, sp' = sp, base' = base, sreg'["SS"] = sreg["SS"], ram' = ram
    PROVE  base' \in Word /\ Even' /\ Held' /\ Known' = Known
<1>1. base \in Word /\ Even /\ Held
  BY DEF HInv
<1>2. Depth' = Depth
  BY Zenon DEF Depth
<1>3. \A x : WordAt(x)' = WordAt(x)
  BY Zenon DEF WordAt, Address
<1>4. Known' = Known
  BY <1>2, <1>3, Zenon DEF Known
<1>5. Even'
  BY <1>1, Zenon DEF Even
<1>6. Held'
  BY <1>1, <1>2, Zenon DEF Held
<1> QED
  BY <1>1, <1>4, <1>5, <1>6, Zenon

\* The words at two offsets have a byte in common.
Meet(ss, y, off) == \E b, c \in 0 .. 1 : Place(ss, y + b) = Place(ss, off + c)

\* Words that a store of one word hits are neighbours.
LEMMA Neighbours ==
    ASSUME NEW ss \in Nat, NEW x \in Int, NEW off \in Int, NEW d \in Nat, 2 * d <= WordMod - 2,
           NEW j \in 1 .. d, NEW k \in 1 .. d, j <= k,
           Meet(ss, x + 2 * (d - j), off), Meet(ss, x + 2 * (d - k), off)
    PROVE  k \in {j, j + 1}
<1>. PICK b \in 0 .. 1, c \in 0 .. 1 : Place(ss, (x + 2 * (d - j)) + b) = Place(ss, off + c)
  BY Zenon DEF Meet
<1>. PICK e \in 0 .. 1, f \in 0 .. 1 : Place(ss, (x + 2 * (d - k)) + e) = Place(ss, off + f)
  BY Zenon DEF Meet
<1> DEFINE u == 2 * (d - j) + b
           v == 2 * (d - k) + e
<1>1. /\ u \in Int /\ v \in Int /\ x + u \in Int /\ x + v \in Int
      /\ (x + 2 * (d - j)) + b = x + u /\ (x + 2 * (d - k)) + e = x + v
      /\ off + c \in Int /\ off + f \in Int /\ -c \in Int /\ -f \in Int
      /\ (off + c) + (-c) = off /\ (off + f) + (-f) = off
      /\ u - c \in Int /\ v - f \in Int
      /\ (x + u) + (-c) = x + (u - c) /\ (x + v) + (-f) = x + (v - f)
  OBVIOUS
<1>2. WordMod \in Nat
  BY Widths
<1>3. (u - c) - (v - f) < WordMod /\ (v - f) - (u - c) < WordMod
  BY <1>2
<1>4. u - c = v - f => k \in {j, j + 1}
  OBVIOUS
<1> HIDE DEF u, v
<1>5. \A a, z \in Int : Place(ss, a) = Place(ss, z) => ToWord(a) = ToWord(z)
  <2>1. ASSUME NEW a \in Int, NEW z \in Int, Place(ss, a) = Place(ss, z)
        PROVE  ToWord(a) = ToWord(z)
    <3> DEFINE p == ToWord(a)
               q == ToWord(z)
               l == ss * Para
    <3>1. p \in Int /\ q \in Int /\ l \in Int
      BY ToWordType, ShadowAssumption DEF Word
    <3>2. l + p = l + q
      BY <2>1, Zenon DEF Place
    <3> HIDE DEF p, q, l
    <3>3. p = q
      BY <3>1, <3>2
    <3> QED
      BY <3>3 DEF p, q
  <2> QED
    BY <2>1
<1>6. ToWord(x + u) = ToWord(off + c) /\ ToWord(x + v) = ToWord(off + f)
  BY <1>1, <1>5, Zenon
<1>7. ToWord(x + (u - c)) = ToWord(off)
  <2>1. ToWord(ToWord(x + u) + (-c)) = ToWord((x + u) + (-c))
    BY <1>1, ToWordSum
  <2>2. ToWord(ToWord(off + c) + (-c)) = ToWord((off + c) + (-c))
    BY <1>1, ToWordSum
  <2> QED
    BY <1>1, <1>6, <2>1, <2>2, Zenon
<1>8. ToWord(x + (v - f)) = ToWord(off)
  <2>1. ToWord(ToWord(x + v) + (-f)) = ToWord((x + v) + (-f))
    BY <1>1, ToWordSum
  <2>2. ToWord(ToWord(off + f) + (-f)) = ToWord((off + f) + (-f))
    BY <1>1, ToWordSum
  <2> QED
    BY <1>1, <1>6, <2>1, <2>2, Zenon
<1>9. ToWord(x + (u - c)) = ToWord(x + (v - f))
  BY <1>7, <1>8, Zenon
<1>10. u - c = v - f
  BY <1>1, <1>3, <1>9, ToWordDistinct, Zenon
<1> QED
  BY <1>4, <1>10

\* A store of one word in the stack segment.
LEMMA StoreKnown ==
    ASSUME HInv, NEW off \in Word, CanWrite("SS", off, 2), ram' = With(ram, "SS", off, ax),
           sp' = sp, base' = base, sreg'["SS"] = sreg["SS"]
    PROVE  /\ base' \in Word /\ Even' /\ Held' /\ Len(Known') = Len(Known)
           /\ \E i \in 0 .. Len(Known) : \A j \in 1 .. Len(Known) :
                Known'[j] # Known[j] => j \in {i, i + 1}
<1> DEFINE ss == sreg["SS"]
           d == Depth
           known == Known
           known2 == Known'
           p(j) == sp + 2 * (d - j)
<1>1. /\ base \in Word /\ sp \in Word /\ sp \in Int /\ Even /\ Held /\ ax \in Word /\ off \in Int
      /\ sreg \in [Segs -> Word] /\ ss \in Nat /\ ram \in [Ram -> Byte] /\ "SS" \in Segs
  BY DEF HInv, TypeOK, MemoryTypeOK, ShadowTypeOK, Word, Segs
<1>2. d \in Nat /\ 2 * d < WordMod /\ 2 * d <= WordMod - 2 /\ ToWord(sp + 2 * d) = base
  BY <1>1, DepthIs
<1>3. Len(known) = d /\ \A j \in 1 .. d : known[j] = WordFrom(ram, ss, p(j))
  BY KnownType
<1>4. Place(ss, off) \in Ram /\ Place(ss, off + 1) \in Ram
  <2>1. Address("SS", off) \in Ram /\ Address("SS", off + 1) \in Ram
    BY <1>1, AllowedInRam, Zenon DEF CanWrite
  <2> QED
    BY <2>1, AddressIsPlace, Zenon
<1>5. \A a \in Ram : a # Place(ss, off) /\ a # Place(ss, off + 1) => ram'[a] = ram[a]
  BY <1>1, <1>4, StoredWord, ZenonT(60)
<1> HIDE DEF d
<1>6. /\ Depth' = d /\ Even'
      /\ known2 = [j \in 1 .. d |-> WordFrom(ram', sreg'["SS"], sp' + 2 * (d - j))]
  BY <1>1, <1>2, KnownIsNext, Zenon
<1>7. Held'
  BY <1>1, <1>6, Zenon DEF Held, d
<1>8. Len(known2) = d /\ \A j \in 1 .. d : known2[j] = WordFrom(ram', ss, p(j))
  <2> DEFINE e(j) == WordFrom(ram', ss, p(j))
  <2>1. known2 = [j \in 1 .. d |-> e(j)]
    BY <1>6, Zenon DEF ss
  <2> HIDE DEF e, known2
  <2>2. Len(known2) = d /\ \A j \in 1 .. d : known2[j] = e(j)
    BY <1>2, <2>1
  <2> QED
    BY <2>2 DEF e
<1> DEFINE Hit(j) == Meet(ss, p(j), off)
<1> HIDE DEF known, known2
<1>9. ASSUME NEW j \in 1 .. d, known2[j] # known[j] PROVE Hit(j)
  <2> SUFFICES ASSUME ~Hit(j) PROVE FALSE
    OBVIOUS
  <2>1. 0 \in 0 .. 1 /\ 1 \in 0 .. 1 /\ p(j) + 0 = p(j) /\ off + 0 = off
    BY <1>1, <1>2
  <2>2. 2 * (d - j) \in 0 .. 2 * d - 1 /\ 2 * (d - j) + 1 \in 0 .. 2 * d - 1
        /\ p(j) + 1 = sp + (2 * (d - j) + 1)
    BY <1>1, <1>2
  <2>3. Place(ss, p(j)) \in Ram /\ Place(ss, p(j) + 1) \in Ram
    BY <1>1, <2>2, Zenon DEF Held, d
  <2>4. /\ Place(ss, p(j)) # Place(ss, off) /\ Place(ss, p(j)) # Place(ss, off + 1)
        /\ Place(ss, p(j) + 1) # Place(ss, off) /\ Place(ss, p(j) + 1) # Place(ss, off + 1)
    BY <2>1, Zenon DEF Meet
  <2>5. ram'[Place(ss, p(j))] = ram[Place(ss, p(j))]
        /\ ram'[Place(ss, p(j) + 1)] = ram[Place(ss, p(j) + 1)]
    BY <1>5, <2>3, <2>4, Zenon
  <2>6. WordFrom(ram', ss, p(j)) = WordFrom(ram, ss, p(j))
    BY <2>5, Zenon DEF WordFrom
  <2> QED
    BY <1>3, <1>8, <1>9, <2>6, Zenon
<1>10. ASSUME NEW j \in 1 .. d, NEW k \in 1 .. d, j <= k, Hit(j), Hit(k)
       PROVE  k \in {j, j + 1}
  BY <1>1, <1>2, <1>10, Neighbours, Zenon
<1> DEFINE S == {j \in 1 .. d : known2[j] # known[j]}
<1> HIDE DEF Hit, p
<1>11. CASE S = {}
  <2>1. 0 \in 0 .. d /\ \A j \in 1 .. d : known2[j] # known[j] => j \in {0, 0 + 1}
    BY <1>2, <1>11
  <2>2. \E i \in 0 .. d : \A j \in 1 .. d : known2[j] # known[j] => j \in {i, i + 1}
    BY <2>1, Zenon
  <2> QED
    BY <1>1, <1>3, <1>6, <1>7, <1>8, <2>2, Zenon DEF known, known2
<1>12. CASE S # {}
  <2>1. S \in SUBSET Nat
    OBVIOUS
  <2>2. PICK i \in S : \A j \in S : i <= j
    BY <1>12, <2>1, LowestExists, Zenon
  <2>3. i \in 1 .. d /\ i \in 0 .. d /\ known2[i] # known[i]
    BY <1>2
  <2>4. ASSUME NEW j \in 1 .. d, known2[j] # known[j] PROVE j \in {i, i + 1}
    <3>1. i <= j
      BY <2>2, <2>4, Zenon
    <3> QED
      BY <1>9, <1>10, <2>3, <2>4, <3>1, Zenon
  <2>5. \E y \in 0 .. d : \A j \in 1 .. d : known2[j] # known[j] => j \in {y, y + 1}
    BY <2>3, <2>4, Zenon
  <2> QED
    BY <1>1, <1>3, <1>6, <1>7, <1>8, <2>5, Zenon DEF known, known2
<1> QED
  BY <1>11, <1>12, Zenon

\* What pop() returns is known, when something is.
LEMMA TopIs ==
    ASSUME HInv, NEW i \in Nat \ {0}, i <= Len(Known)
    PROVE  Popped(i) = Known[Len(Known) + 1 - i]
<1>1. Depth \in Nat /\ Len(Known) = Depth
      /\ \A j \in 1 .. Depth : Known[j] = WordFrom(ram, sreg["SS"], sp + 2 * (Depth - j))
  BY KnownType
<1> DEFINE j == Depth + 1 - i
<1>2. j \in 1 .. Depth /\ 2 * (Depth - j) = 2 * (i - 1)
  BY <1>1
<1>3. Popped(i) = WordFrom(ram, sreg["SS"], sp + 2 * (i - 1))
  BY Zenon DEF Popped, WordFrom, Address, Place
<1> HIDE DEF j
<1>4. Known[j] = WordFrom(ram, sreg["SS"], sp + 2 * (i - 1))
  BY <1>1, <1>2, Zenon
<1> QED
  BY <1>1, <1>3, <1>4, Zenon DEF j

-----------------------------------------------------------------------------
(* Each step is a step of CallStack.                                         *)

Regs     == [AX |-> ax, CS |-> sreg["CS"], DS |-> sreg["DS"], ES |-> sreg["ES"],
             SS |-> sreg["SS"]]
OwnFlags == flags \cap (Kept \ {AlwaysOne})

\* The next state, but for what each instruction does to the stack.
LEMMA ExecutesCalls ==
    ASSUME NEW name, NEW length, Executes(name, length)
    PROVE  /\ status = "running" /\ status' = "running"
           /\ ip' = After(length) => Calls!Goes(length)
  BY DEF Executes, After, ToWord, Calls!Goes, Calls!ToWord

\* What the registers and the flags of CallStack depend on.
LEMMA RegsUnchanged ==
    ASSUME UNCHANGED <<ax, sreg>>
    PROVE  Regs' = Regs
  BY DEF Regs

\* Bits that are not flags do not count.
LEMMA FlagsUnchanged ==
    ASSUME flags' = flags
    PROVE  OwnFlags' = OwnFlags
  BY DEF OwnFlags

\* The word that PUSHF pushes.
LEMMA ImageIs ==
    ASSUME AlwaysOne \in flags
    PROVE  Number((flags \cap Kept) \cup Forced) = Number(OwnFlags \cup {1} \cup Forced)
<1>1. (flags \cap Kept) \cup Forced = OwnFlags \cup {1} \cup Forced
  BY StackAssumption DEF OwnFlags, AlwaysOne
<1> QED
  BY <1>1, Zenon

\* PUSH, CALL and PUSHF are those of CallStack.
LEMMA PushesSimulate ==
    ASSUME HInv, Pushes, Adds
    PROVE  HInv' /\ Calls!Next
<1>1. /\ ip \in Word /\ ax \in Word /\ sp \in Word /\ flags \subseteq FlagBits
      /\ sreg \in [Segs -> Word] /\ "CS" \in Segs /\ TypeOK /\ AlwaysOne \in flags
  BY DEF HInv, TypeOK, MemoryTypeOK, ShadowTypeOK, Segs
<1>2. TypeOK'
  BY <1>1, PushesType
<1>3. ASSUME NEW r \in Segs \cup {"AX", "SP"}, PushReg(r) PROVE HInv' /\ Calls!Next
  <2> DEFINE w == Register(r)
  <2>1. w \in Word /\ \/ w = sp
                      \/ \E x \in DOMAIN Regs : w = Regs[x]
    BY <1>1 DEF Register, Segs, Regs
  <2>2. Executes("PUSH", 1) /\ Push(w) /\ ip' = After(1)
        /\ UNCHANGED <<ax, flags, sreg>>
    BY <1>3, Zenon DEF PushReg
  <2> HIDE DEF w
  <2>3. /\ base' \in Word /\ Even' /\ Held'
        /\ Known' = IF Len(Known) + Len(<<w>>) < WordMod \div 2
                      THEN Known \o <<w>> ELSE <<>>
    BY <2>1, <2>2, PushOne, Zenon
  <2>4. HInv'
    BY <1>1, <1>2, <2>2, <2>3, Zenon DEF HInv
  <2>5. Regs' = Regs /\ OwnFlags' = OwnFlags /\ Calls!Goes(1)
    BY <2>2, RegsUnchanged, FlagsUnchanged, ExecutesCalls, Zenon
  <2>6. Calls!Push
    BY <2>1, <2>3, <2>5, Zenon DEF Calls!Push, Calls!With, Known, Regs, OwnFlags
  <2> QED
    BY <2>4, <2>6, Zenon DEF Calls!Next
<1>4. ASSUME NEW target \in Targets, CallNear(target) PROVE HInv' /\ Calls!Next
  <2> DEFINE w == After(3)
  <2>1. Executes("CALL", 3) /\ Push(w) /\ ip' = target /\ UNCHANGED <<ax, flags, sreg>>
    BY <1>4, Zenon DEF CallNear
  <2>2. w \in Word
    BY <1>1, AfterType
  <2>3. w = Calls!ToWord(ip + 3)
    BY DEF After, ToWord, Calls!ToWord
  <2> HIDE DEF w
  <2>4. /\ base' \in Word /\ Even' /\ Held'
        /\ Known' = IF Len(Known) + Len(<<w>>) < WordMod \div 2
                      THEN Known \o <<w>> ELSE <<>>
    BY <2>1, <2>2, PushOne, Zenon
  <2>5. HInv'
    BY <1>1, <1>2, <2>1, <2>4, Zenon DEF HInv
  <2>6. Regs' = Regs /\ OwnFlags' = OwnFlags /\ status = "running" /\ status' = "running"
    BY <2>1, RegsUnchanged, FlagsUnchanged, ExecutesCalls, Zenon
  <2>7. Calls!CallNear
    BY <2>3, <2>4, <2>6, Zenon DEF Calls!CallNear, Calls!With, Known, Regs, OwnFlags
  <2> QED
    BY <2>5, <2>7, Zenon DEF Calls!Next
<1>5. ASSUME NEW seg \in Segments, NEW target \in Targets, CallFar(seg, target)
      PROVE  HInv' /\ Calls!Next
  <2> DEFINE v == After(5)
             w == sreg["CS"]
  <2>1. /\ Executes("CALLF", 5) /\ PushBoth(w, v) /\ ip' = target
        /\ sreg' = [sreg EXCEPT !["CS"] = seg] /\ UNCHANGED <<ax, flags>>
    BY <1>5, Zenon DEF CallFar
  <2>2. w \in Word /\ v \in Word
    BY <1>1, AfterType
  <2>3. v = Calls!ToWord(ip + 5) /\ w = Regs["CS"]
    BY DEF After, ToWord, Calls!ToWord, Regs
  <2>4. Regs' = [Regs EXCEPT !["CS"] = Regs'["CS"]] /\ sreg'["SS"] = sreg["SS"]
    BY <1>1, <2>1 DEF Regs, Segs
  <2> HIDE DEF v, w
  <2>5. /\ base' \in Word /\ Even' /\ Held'
        /\ Known' = IF Len(Known) + Len(<<w, v>>) < WordMod \div 2
                      THEN Known \o <<w, v>> ELSE <<>>
    BY <2>1, <2>2, <2>4, PushTwo, Zenon
  <2>6. HInv'
    BY <1>1, <1>2, <2>1, <2>5, Zenon DEF HInv
  <2>7. OwnFlags' = OwnFlags /\ status = "running" /\ status' = "running"
    BY <2>1, FlagsUnchanged, ExecutesCalls, Zenon
  <2>8. Calls!CallFar
    BY <2>3, <2>4, <2>5, <2>7, Zenon DEF Calls!CallFar, Calls!With, Known, Regs, OwnFlags
  <2> QED
    BY <2>6, <2>8, Zenon DEF Calls!Next
<1>6. ASSUME Pushf PROVE HInv' /\ Calls!Next
  <2> DEFINE w == Number((flags \cap Kept) \cup Forced)
  <2>1. Executes("PUSHF", 1) /\ Push(w) /\ ip' = After(1) /\ UNCHANGED <<ax, flags, sreg>>
    BY <1>6, Zenon DEF Pushf
  <2>2. w \in Word
    <3>1. (flags \cap Kept) \cup Forced \in SUBSET FlagBits
      BY StackAssumption
    <3> QED
      BY <3>1, NumberOfBits, Zenon
  <2>3. w = Calls!Image
    BY <1>1, ImageIs, Zenon DEF Calls!Image, Calls!Number, Number, OwnFlags
  <2> HIDE DEF w
  <2>4. /\ base' \in Word /\ Even' /\ Held'
        /\ Known' = IF Len(Known) + Len(<<w>>) < WordMod \div 2
                      THEN Known \o <<w>> ELSE <<>>
    BY <2>1, <2>2, PushOne, Zenon
  <2>5. HInv'
    BY <1>1, <1>2, <2>1, <2>4, Zenon DEF HInv
  <2>6. Regs' = Regs /\ OwnFlags' = OwnFlags /\ Calls!Goes(1)
    BY <2>1, RegsUnchanged, FlagsUnchanged, ExecutesCalls, Zenon
  <2>7. Calls!Pushf
    BY <2>3, <2>4, <2>6, Zenon DEF Calls!Pushf, Calls!With, Known, Regs, OwnFlags
  <2> QED
    BY <2>5, <2>7, Zenon DEF Calls!Next
<1> QED
  BY <1>3, <1>4, <1>5, <1>6, Zenon DEF Pushes

\* The words that n pops return, and what they and an operand leave known.
LEMMA PopsCalls ==
    ASSUME HInv, NEW n \in 1 .. 3, Pops(n), NEW drop \in Word,
           sp' = ToWord(AfterPops(n) + drop), NEW bytes, bytes = 2 * n + drop, Drop(bytes),
           sreg'["SS"] = sreg["SS"]
    PROVE  /\ base' \in Word /\ Even' /\ Held' /\ Known' = Calls!Without(n, drop)
           /\ \A i \in 1 .. n : Popped(i) \in Word /\ Calls!IsTop(Popped(i), i)
<1>1. sp \in Int /\ n \in Nat /\ drop \in Nat /\ TypeOK /\ ram' = ram
  BY DEF HInv, TypeOK, Word, Pops
<1>2. sp' = ToWord(sp + bytes)
  <2>1. sp + 2 * n \in Int /\ (sp + 2 * n) + drop = sp + bytes
    BY <1>1
  <2>2. ToWord(ToWord(sp + 2 * n) + drop) = ToWord((sp + 2 * n) + drop)
    BY <1>1, <2>1, ToWordSum
  <2> QED
    BY <2>1, <2>2, Zenon DEF AfterPops
<1>3. /\ base' \in Word /\ Even' /\ Held'
      /\ Known' = IF drop % 2 = 0 /\ n + drop \div 2 <= Len(Known)
                    THEN SubSeq(Known, 1, Len(Known) - n - drop \div 2) ELSE <<>>
  BY <1>1, <1>2, DropKnown, Zenon
<1>4. Known' = Calls!Without(n, drop)
  BY <1>3, Zenon DEF Calls!Without, Known
<1>5. ASSUME NEW i \in 1 .. n PROVE Popped(i) \in Word /\ Calls!IsTop(Popped(i), i)
  <2>1. Popped(i) \in Word
    BY <1>1, PopsType
  <2>2. i <= Len(Known) => Popped(i) = Known[Len(Known) + 1 - i]
    <3>1. i \in Nat \ {0}
      OBVIOUS
    <3> QED
      BY <3>1, TopIs, Zenon
  <2> QED
    BY <2>1, <2>2, Zenon DEF Calls!IsTop, Known
<1> QED
  BY <1>3, <1>4, <1>5, Zenon

\* The same without an operand.
LEMMA OnlyPopsCalls ==
    ASSUME HInv, NEW n \in 1 .. 3, Pops(n), sp' = AfterPops(n),
           NEW bytes, bytes = 2 * n, Drop(bytes), sreg'["SS"] = sreg["SS"]
    PROVE  /\ base' \in Word /\ Even' /\ Held' /\ Known' = Calls!Without(n, 0)
           /\ \A i \in 1 .. n : Popped(i) \in Word /\ Calls!IsTop(Popped(i), i)
<1>1. sp + 2 * n \in Int /\ 0 \in Word
  BY DEF HInv, TypeOK, Word
<1>2. AfterPops(n) \in Word
  BY <1>1, ToWordType DEF AfterPops
<1>3. AfterPops(n) + 0 = AfterPops(n) /\ bytes = 2 * n + 0
  BY <1>2 DEF Word
<1>4. sp' = ToWord(AfterPops(n) + 0)
  BY <1>2, <1>3, ToWordOfWord, Zenon
<1> QED
  BY <1>1, <1>3, <1>4, PopsCalls, Zenon

\* The flags that IRET and POPF leave.
LEMMA BitsCalls ==
    ASSUME NEW w, flags' = Bits(w) \cup {AlwaysOne}
    PROVE  OwnFlags' = Calls!Bits(w) /\ AlwaysOne \in flags'
<1>1. Kept \subseteq FlagBits
  BY StackAssumption
<1> QED
  BY <1>1 DEF OwnFlags, Calls!Bits, Calls!Flags, Bits, AlwaysOne

\* So are POP, RET, RETF, IRET and POPF,
LEMMA TakesSimulate ==
    ASSUME HInv, TakesAndDrops
    PROVE  HInv' /\ Calls!Next
<1>1. /\ ip \in Word /\ ax \in Word /\ sp \in Word /\ flags \subseteq FlagBits
      /\ sreg \in [Segs -> Word] /\ "CS" \in Segs /\ "SS" \in Segs /\ TypeOK
      /\ AlwaysOne \in flags
  BY DEF HInv, TypeOK, MemoryTypeOK, ShadowTypeOK, Segs
<1>2. TypeOK'
  BY <1>1, TakesType DEF TakesAndDrops, Takes
<1>3. /\ 1 \in 1 .. 3 /\ 2 \in 1 .. 3 /\ 3 \in 1 .. 3 /\ 1 \in 1 .. 1
      /\ 1 \in 1 .. 2 /\ 2 \in 1 .. 2 /\ 1 \in 1 .. 3
      /\ 2 = 2 * 1 /\ 6 = 2 * 3
  OBVIOUS
<1>4. ASSUME PopReg("AX"), Drop(2) PROVE HInv' /\ Calls!Next
  <2>1. /\ Executes("POP", 1) /\ Pops(1) /\ ax' = Popped(1) /\ sp' = AfterPops(1)
        /\ ip' = After(1) /\ UNCHANGED <<flags, sreg>>
    BY <1>4 DEF PopReg
  <2>2. /\ base' \in Word /\ Even' /\ Held' /\ Known' = Calls!Without(1, 0)
        /\ Calls!IsTop(ax', 1)
    BY <1>3, <1>4, <2>1, OnlyPopsCalls, Zenon
  <2>3. HInv'
    BY <1>1, <1>2, <2>1, <2>2, Zenon DEF HInv
  <2>4. /\ "AX" \in DOMAIN Regs \ {"CS", "SS"} /\ Regs'["AX"] = ax'
        /\ Regs' = [Regs EXCEPT !["AX"] = Regs'["AX"]]
    BY <2>1 DEF Regs
  <2>5. OwnFlags' = OwnFlags /\ Calls!Goes(1)
    BY <2>1, FlagsUnchanged, ExecutesCalls, Zenon
  <2>6. Calls!Pop
    <3>1. Calls!IsTop(Regs'["AX"], 1)
      BY <2>2, <2>4, Zenon
    <3> QED
      BY <2>2, <2>4, <2>5, <3>1, Zenon DEF Calls!Pop, Known, Regs, OwnFlags
  <2> QED
    BY <2>3, <2>6, Zenon DEF Calls!Next
<1>5. ASSUME NEW r \in {"DS", "ES"}, PopSeg(r), Drop(2) PROVE HInv' /\ Calls!Next
  <2>1. /\ Executes("POP", 1) /\ Pops(1) /\ sreg' = [sreg EXCEPT ![r] = Popped(1)]
        /\ sp' = AfterPops(1) /\ ip' = After(1) /\ UNCHANGED <<ax, flags>>
    BY <1>5 DEF PopSeg
  <2>2. sreg'["SS"] = sreg["SS"] /\ sreg'[r] = Popped(1)
    BY <1>1, <2>1 DEF Segs
  <2>3. /\ base' \in Word /\ Even' /\ Held' /\ Known' = Calls!Without(1, 0)
        /\ Calls!IsTop(Popped(1), 1)
    BY <1>3, <1>5, <2>1, <2>2, OnlyPopsCalls, Zenon
  <2>4. HInv'
    BY <1>1, <1>2, <2>1, <2>3, Zenon DEF HInv
  <2>5. /\ r \in DOMAIN Regs \ {"CS", "SS"} /\ Regs'[r] = sreg'[r]
        /\ Regs' = [Regs EXCEPT ![r] = Regs'[r]]
    BY <1>1, <2>1 DEF Regs, Segs
  <2>6. OwnFlags' = OwnFlags /\ Calls!Goes(1)
    BY <2>1, FlagsUnchanged, ExecutesCalls, Zenon
  <2>7. Calls!Pop
    <3>1. Calls!IsTop(Regs'[r], 1)
      BY <2>2, <2>3, <2>5, Zenon
    <3> QED
      BY <2>3, <2>5, <2>6, <3>1, Zenon DEF Calls!Pop, Known, Regs, OwnFlags
  <2> QED
    BY <2>4, <2>7, Zenon DEF Calls!Next
<1>6. ASSUME NEW drop \in Drops \cup {0}, Ret(drop), Drop(2 + drop) PROVE HInv' /\ Calls!Next
  <2>1. /\ Executes("RET", IF drop = 0 THEN 1 ELSE 3) /\ Pops(1) /\ ip' = Popped(1)
        /\ sp' = ToWord(AfterPops(1) + drop) /\ UNCHANGED <<ax, flags, sreg>>
    BY <1>6 DEF Ret
  <2>2. drop \in Word /\ 2 + drop = 2 * 1 + drop
    BY StackAssumption DEF Word
  <2>3. /\ base' \in Word /\ Even' /\ Held' /\ Known' = Calls!Without(1, drop)
        /\ Calls!IsTop(ip', 1)
    BY <1>3, <1>6, <2>1, <2>2, PopsCalls, Zenon
  <2>4. HInv'
    BY <1>1, <1>2, <2>1, <2>3, Zenon DEF HInv
  <2>5. Regs' = Regs /\ OwnFlags' = OwnFlags /\ status = "running" /\ status' = "running"
    BY <2>1, RegsUnchanged, FlagsUnchanged, ExecutesCalls, Zenon
  <2>6. Calls!Ret
    BY <2>2, <2>3, <2>5, Zenon DEF Calls!Ret, Calls!Word, Word, Known, Regs, OwnFlags
  <2> QED
    BY <2>4, <2>6, Zenon DEF Calls!Next
<1>7. ASSUME NEW drop \in Drops \cup {0}, RetFar(drop), Drop(4 + drop) PROVE HInv' /\ Calls!Next
  <2>1. /\ Executes("RETF", IF drop = 0 THEN 1 ELSE 3) /\ Pops(2) /\ ip' = Popped(1)
        /\ sreg' = [sreg EXCEPT !["CS"] = Popped(2)]
        /\ sp' = ToWord(AfterPops(2) + drop) /\ UNCHANGED <<ax, flags>>
    BY <1>7 DEF RetFar
  <2>2. drop \in Word /\ 4 + drop = 2 * 2 + drop
    BY StackAssumption DEF Word
  <2>3. sreg'["SS"] = sreg["SS"] /\ Regs'["CS"] = Popped(2)
        /\ Regs' = [Regs EXCEPT !["CS"] = Regs'["CS"]]
    BY <1>1, <2>1 DEF Regs, Segs
  <2>4. /\ base' \in Word /\ Even' /\ Held' /\ Known' = Calls!Without(2, drop)
        /\ Calls!IsTop(ip', 1) /\ Calls!IsTop(Popped(2), 2)
    BY <1>3, <1>7, <2>1, <2>2, <2>3, PopsCalls, Zenon
  <2>5. HInv'
    BY <1>1, <1>2, <2>1, <2>4, Zenon DEF HInv
  <2>6. OwnFlags' = OwnFlags /\ status = "running" /\ status' = "running"
    BY <2>1, FlagsUnchanged, ExecutesCalls, Zenon
  <2>7. Calls!RetFar
    <3>1. Calls!IsTop(Regs'["CS"], 2)
      BY <2>3, <2>4, Zenon
    <3> QED
      BY <2>2, <2>3, <2>4, <2>6, <3>1, Zenon
      DEF Calls!RetFar, Calls!Word, Word, Known, Regs, OwnFlags
  <2> QED
    BY <2>5, <2>7, Zenon DEF Calls!Next
<1>8. ASSUME Iret, Drop(6) PROVE HInv' /\ Calls!Next
  <2>1. /\ Executes("IRET", 1) /\ Pops(3) /\ ip' = Popped(1)
        /\ sreg' = [sreg EXCEPT !["CS"] = Popped(2)]
        /\ flags' = Bits(Popped(3)) \cup {AlwaysOne} /\ sp' = AfterPops(3) /\ ax' = ax
    BY <1>8 DEF Iret
  <2>2. sreg'["SS"] = sreg["SS"] /\ Regs'["CS"] = Popped(2)
        /\ Regs' = [Regs EXCEPT !["CS"] = Regs'["CS"]]
    BY <1>1, <2>1 DEF Regs, Segs
  <2>3. /\ base' \in Word /\ Even' /\ Held' /\ Known' = Calls!Without(3, 0)
        /\ Calls!IsTop(ip', 1) /\ Calls!IsTop(Popped(2), 2)
        /\ Popped(3) \in Word /\ Calls!IsTop(Popped(3), 3)
    BY <1>3, <1>8, <2>1, <2>2, OnlyPopsCalls, Zenon
  <2>4. OwnFlags' = Calls!Bits(Popped(3)) /\ AlwaysOne \in flags'
    BY <2>1, BitsCalls, Zenon
  <2>5. HInv'
    BY <1>2, <2>3, <2>4, Zenon DEF HInv
  <2>6. status = "running" /\ status' = "running"
    BY <2>1, ExecutesCalls, Zenon
  <2>7. Calls!Iret
    <3>1. Calls!IsTop(Regs'["CS"], 2)
      BY <2>2, <2>3, Zenon
    <3>2. Calls!Restores(3)
      BY <2>3, <2>4, Zenon DEF Calls!Restores, Calls!Word, Word, OwnFlags
    <3> QED
      BY <2>2, <2>3, <2>6, <3>1, <3>2, Zenon DEF Calls!Iret, Known, Regs
  <2> QED
    BY <2>5, <2>7, Zenon DEF Calls!Next
<1>9. ASSUME Popf, Drop(2) PROVE HInv' /\ Calls!Next
  <2>1. /\ Executes("POPF", 1) /\ Pops(1) /\ flags' = Bits(Popped(1)) \cup {AlwaysOne}
        /\ sp' = AfterPops(1) /\ ip' = After(1) /\ UNCHANGED <<ax, sreg>>
    BY <1>9 DEF Popf
  <2>2. /\ base' \in Word /\ Even' /\ Held' /\ Known' = Calls!Without(1, 0)
        /\ Popped(1) \in Word /\ Calls!IsTop(Popped(1), 1)
    BY <1>3, <1>9, <2>1, OnlyPopsCalls, Zenon
  <2>3. OwnFlags' = Calls!Bits(Popped(1)) /\ AlwaysOne \in flags'
    BY <2>1, BitsCalls, Zenon
  <2>4. HInv'
    BY <1>2, <2>2, <2>3, Zenon DEF HInv
  <2>5. Regs' = Regs /\ Calls!Goes(1)
    BY <2>1, RegsUnchanged, ExecutesCalls, Zenon
  <2>6. Calls!Popf
    <3>1. Calls!Restores(1)
      BY <2>2, <2>3, Zenon DEF Calls!Restores, Calls!Word, Word, OwnFlags
    <3> QED
      BY <2>2, <2>5, <3>1, Zenon DEF Calls!Popf, Known, Regs
  <2> QED
    BY <2>4, <2>6, Zenon DEF Calls!Next
<1> QED
  BY <1>4, <1>5, <1>6, <1>7, <1>8, <1>9, Zenon DEF TakesAndDrops

\* what loads SP or SS,
LEMMA SwitchesSimulate ==
    ASSUME HInv, Switches, base' = sp'
    PROVE  HInv' /\ Calls!Next
<1>1. /\ sreg \in [Segs -> Word] /\ "SS" \in Segs /\ TypeOK /\ AlwaysOne \in flags
  BY DEF HInv, TypeOK, MemoryTypeOK, ShadowTypeOK, Segs
<1>2. TypeOK'
  BY <1>1, SwitchesType
<1>3. base' \in Word /\ Even' /\ Held' /\ Known' = <<>>
  <2>1. sp' \in Word
    BY <1>2 DEF TypeOK
  <2> QED
    BY <2>1, NothingKnown
<1>4. /\ flags' = flags /\ ax' = ax
      /\ sreg' = sreg \/ \E w : sreg' = [sreg EXCEPT !["SS"] = w]
      /\ Calls!Goes(1) \/ Calls!Goes(2)
  <2>1. ASSUME PopReg("SP") PROVE flags' = flags /\ ax' = ax /\ sreg' = sreg /\ Calls!Goes(1)
    BY <2>1, ExecutesCalls DEF PopReg
  <2>2. ASSUME PopSeg("SS")
        PROVE  /\ flags' = flags /\ ax' = ax /\ Calls!Goes(1)
               /\ \E w : sreg' = [sreg EXCEPT !["SS"] = w]
    BY <2>2, ExecutesCalls, Zenon DEF PopSeg
  <2>3. ASSUME NEW newss, NEW newsp, SetStack(newss, newsp)
        PROVE  /\ flags' = flags /\ ax' = ax /\ Calls!Goes(2)
               /\ \E w : sreg' = [sreg EXCEPT !["SS"] = w]
    BY <2>3, ExecutesCalls, Zenon DEF SetStack
  <2> QED
    BY <2>1, <2>2, <2>3, Zenon DEF Switches
<1>5. Regs' = [Regs EXCEPT !["SS"] = Regs'["SS"]]
  BY <1>1, <1>4 DEF Regs, Segs
<1>6. OwnFlags' = OwnFlags
  BY <1>4, FlagsUnchanged
<1>7. HInv'
  BY <1>1, <1>2, <1>3, <1>4, Zenon DEF HInv
<1>8. \E length \in {1, 2} : Calls!Goes(length)
  BY <1>4, Zenon
<1>9. Calls!Switch
  BY <1>3, <1>5, <1>6, <1>8, Zenon DEF Calls!Switch, Known, Regs, OwnFlags
<1> QED
  BY <1>7, <1>9, Zenon DEF Calls!Next

\* The low flags, those that LAHF and SAHF move.
LEMMA LowFlagsAre ==
    /\ AlwaysOne \in LowBits /\ Calls!LowFlags = LowBits \cap (Kept \ {AlwaysOne})
    /\ LowBits \subseteq FlagBits
<1>1. Kept \subseteq FlagBits
  BY StackAssumption
<1>2. 2 ^ 1 = 2 /\ ByteMod >= 4
  BY Powers, PowerFacts, Widths
<1>3. ASSUME NEW b \in LowBits PROVE b \in FlagBits
  <2>1. b \in 0 .. 15 /\ b \in 0 .. 16 /\ 2 ^ b < ByteMod
    BY DEF LowBits
  <2>2. 2 ^ b \in Nat
    BY <2>1, PowerFacts
  <2>3. ByteMod <= WordMod
    <3>1. ByteMod \in Nat /\ WordMod = ByteMod * ByteMod /\ ByteMod >= 4
      BY Widths
    <3>2. ByteMod * 1 <= ByteMod * ByteMod
      BY <3>1
    <3> QED
      BY <3>1, <3>2
  <2>4. ByteMod \in Nat /\ WordMod \in Nat
    BY Widths
  <2>5. 2 ^ b < WordMod
    BY <2>1, <2>2, <2>3, <2>4
  <2> QED
    BY <2>1, <2>5 DEF FlagBits
<1>4. AlwaysOne \in LowBits
  BY <1>2 DEF LowBits, AlwaysOne
<1>5. Calls!LowFlags = LowBits \cap (Kept \ {AlwaysOne})
  BY <1>1 DEF Calls!LowFlags, Calls!Flags, LowBits, FlagBits, AlwaysOne
<1> QED
  BY <1>3, <1>4, <1>5

\* and what stores, jumps or handles flags.
LEMMA OthersSimulate ==
    ASSUME HInv, Others, base' = base
    PROVE  HInv' /\ Calls!Next
<1>1. /\ ip \in Word /\ ax \in Word /\ sp \in Word /\ flags \subseteq FlagBits
      /\ sreg \in [Segs -> Word] /\ TypeOK /\ AlwaysOne \in flags
  BY DEF HInv, TypeOK, MemoryTypeOK, ShadowTypeOK
<1>2. TypeOK'
  BY <1>1, OthersType
<1>3. ASSUME sp' = sp, UNCHANGED memoryVars
      PROVE  base' \in Word /\ Even' /\ Held' /\ Known' = Known
  BY <1>3, SameKnown DEF memoryVars
<1>4. ASSUME NEW off \in Stacks, StoreWord(off) PROVE HInv' /\ Calls!Next
  <2>1. /\ Executes("MOV", 3) /\ CanWrite("SS", off, 2) /\ ram' = With(ram, "SS", off, ax)
        /\ ip' = After(3) /\ UNCHANGED <<ax, sp, flags, sreg>>
    BY <1>4, Zenon DEF StoreWord
  <2>2. off \in Word
    BY StackAssumption
  <2>3. /\ base' \in Word /\ Even' /\ Held' /\ Len(Known') = Len(Known)
        /\ \E i \in 0 .. Len(Known) : \A j \in 1 .. Len(Known) :
             Known'[j] # Known[j] => j \in {i, i + 1}
    BY <2>1, <2>2, StoreKnown, Zenon
  <2>4. HInv'
    BY <1>1, <1>2, <2>1, <2>3, Zenon DEF HInv
  <2>5. Regs' = Regs /\ OwnFlags' = OwnFlags /\ Calls!Goes(3)
    BY <2>1, RegsUnchanged, FlagsUnchanged, ExecutesCalls, Zenon
  <2>6. Calls!Store
    BY <2>3, <2>5, Zenon DEF Calls!Store, Known, Regs, OwnFlags
  <2> QED
    BY <2>4, <2>6, Zenon DEF Calls!Next
<1>5. ASSUME NEW target \in Targets, Jump(target) PROVE HInv' /\ Calls!Next
  <2>1. Executes("JMP", 2) /\ UNCHANGED <<ax, sp, flags, memoryVars>>
    BY <1>5, Zenon DEF Jump
  <2>2. UNCHANGED <<ax, sreg>> /\ sp' = sp /\ flags' = flags
    BY <2>1 DEF memoryVars
  <2>3. base' \in Word /\ Even' /\ Held' /\ Known' = Known
    BY <1>3, <2>1, <2>2, Zenon
  <2>4. HInv'
    BY <1>1, <1>2, <2>2, <2>3, Zenon DEF HInv
  <2>5. Regs' = Regs /\ OwnFlags' = OwnFlags /\ status = "running" /\ status' = "running"
    BY <2>1, <2>2, RegsUnchanged, FlagsUnchanged, ExecutesCalls, Zenon
  <2>6. Calls!Jump
    BY <2>3, <2>5, Zenon DEF Calls!Jump, Known, Regs, OwnFlags
  <2> QED
    BY <2>4, <2>6, Zenon DEF Calls!Next
<1>6. ASSUME Sahf PROVE HInv' /\ Calls!Next
  <2> DEFINE h == High(ax)
  <2>1. /\ Executes("SAHF", 1) /\ flags' = (flags \ (LowBits \ {AlwaysOne})) \cup Bits(h)
        /\ ip' = After(1) /\ UNCHANGED <<ax, sp, memoryVars>>
    BY <1>6, Zenon DEF Sahf
  <2>2. UNCHANGED <<ax, sreg>> /\ sp' = sp /\ AlwaysOne \in flags'
    BY <1>1, <2>1 DEF memoryVars
  <2>3. base' \in Word /\ Even' /\ Held' /\ Known' = Known
    BY <1>3, <2>1, <2>2, Zenon
  <2>4. HInv'
    BY <1>2, <2>2, <2>3, Zenon DEF HInv
  <2>5. Regs' = Regs /\ Calls!Goes(1)
    BY <2>1, <2>2, RegsUnchanged, ExecutesCalls, Zenon
  <2>6. h = Regs["AX"] \div ByteMod /\ h \in Byte
    BY <1>1, WordBytes DEF High, Regs
  <2> HIDE DEF h
  <2>7. OwnFlags' = (OwnFlags \ Calls!LowFlags) \cup (Calls!Bits(h) \cap Calls!LowFlags)
    <3>1. Bits(h) \subseteq LowBits
      BY <2>6, BitsOfByte
    <3>2. Calls!Bits(h) = Bits(h) \cap (Kept \ {AlwaysOne})
      BY StackAssumption DEF Calls!Bits, Calls!Flags, Bits, AlwaysOne
    <3> HIDE DEF Bits
    <3> QED
      BY <2>1, <3>1, <3>2, LowFlagsAre DEF OwnFlags
  <2>8. Calls!Sahf
    BY <2>3, <2>5, <2>6, <2>7, Zenon DEF Calls!Sahf, Known, Regs, OwnFlags
  <2> QED
    BY <2>4, <2>8, Zenon DEF Calls!Next
<1>7. ASSUME Lahf PROVE HInv' /\ Calls!Next
  <2>1. /\ Executes("LAHF", 1) /\ ax' = Low(ax) + ByteMod * Number(flags \cap LowBits \cap Kept)
        /\ ip' = After(1) /\ UNCHANGED <<sp, flags, memoryVars>>
    BY <1>7, Zenon DEF Lahf
  <2>2. sreg' = sreg /\ sp' = sp /\ flags' = flags
    BY <2>1 DEF memoryVars
  <2>3. base' \in Word /\ Even' /\ Held' /\ Known' = Known
    BY <1>3, <2>1, <2>2, Zenon
  <2>4. HInv'
    BY <1>1, <1>2, <2>2, <2>3, Zenon DEF HInv
  <2>5. OwnFlags' = OwnFlags /\ Calls!Goes(1)
    BY <2>1, FlagsUnchanged, ExecutesCalls, Zenon
  <2>6. Number(flags \cap LowBits \cap Kept) = Calls!LowImage
    <3>1. flags \cap LowBits \cap Kept = (OwnFlags \cap Calls!LowFlags) \cup {1}
      BY <1>1, LowFlagsAre, StackAssumption DEF OwnFlags, AlwaysOne
    <3>2. Number(flags \cap LowBits \cap Kept) = Number((OwnFlags \cap Calls!LowFlags) \cup {1})
      BY <3>1, Zenon
    <3> QED
      BY <3>2, Zenon DEF Calls!LowImage, Calls!Number, Number, OwnFlags
  <2>7. Regs' = [Regs EXCEPT !["AX"] = (Regs["AX"] % ByteMod) + ByteMod * Calls!LowImage]
    <3> DEFINE n == Calls!LowImage
    <3> HIDE DEF n
    <3>1. ax' = (ax % ByteMod) + ByteMod * n
      BY <2>1, <2>6, Zenon DEF Low, n
    <3>2. Regs' = [Regs EXCEPT !["AX"] = ax']
      BY <2>2 DEF Regs
    <3>3. Regs["AX"] = ax
      BY DEF Regs
    <3> QED
      BY <3>1, <3>2, <3>3, Zenon DEF n
  <2>8. Calls!Lahf
    BY <2>3, <2>5, <2>7, Zenon DEF Calls!Lahf, Known, Regs, OwnFlags
  <2> QED
    BY <2>4, <2>8, Zenon DEF Calls!Next
<1>8. ASSUME NEW b \in Kept \ {AlwaysOne}, SetFlag(b) PROVE HInv' /\ Calls!Next
  <2>1. /\ Executes("CMC", 1) /\ flags' = (flags \cup {b}) \ (flags \cap {b})
        /\ ip' = After(1) /\ UNCHANGED <<ax, sp, memoryVars>>
    BY <1>8, Zenon DEF SetFlag
  <2>2. UNCHANGED <<ax, sreg>> /\ sp' = sp /\ AlwaysOne \in flags'
    BY <1>1, <2>1 DEF memoryVars
  <2>3. base' \in Word /\ Even' /\ Held' /\ Known' = Known
    BY <1>3, <2>1, <2>2, Zenon
  <2>4. HInv'
    BY <1>2, <2>2, <2>3, Zenon DEF HInv
  <2>5. Regs' = Regs /\ Calls!Goes(1)
    BY <2>1, <2>2, RegsUnchanged, ExecutesCalls, Zenon
  <2>6. b \in Calls!Flags /\ OwnFlags' = (OwnFlags \cup {b}) \ (OwnFlags \cap {b})
    BY <2>1 DEF Calls!Flags, OwnFlags, AlwaysOne
  <2>7. Calls!SetFlag
    BY <2>3, <2>5, <2>6, Zenon DEF Calls!SetFlag, Known, Regs, OwnFlags
  <2> QED
    BY <2>4, <2>7, Zenon DEF Calls!Next
<1>9. ASSUME NEW intno, NEW answer \in Answers, Syscall(intno, answer) PROVE HInv' /\ Calls!Next
  <2>1. /\ Executes("INT", 2) /\ flags' \in {flags \cup {0}, flags \ {0}, flags}
        /\ ip' = After(2) /\ UNCHANGED <<sp, memoryVars>>
    BY <1>9 DEF Syscall
  <2>2. sreg' = sreg /\ sp' = sp /\ AlwaysOne \in flags'
    BY <1>1, <2>1 DEF memoryVars, AlwaysOne
  <2>3. base' \in Word /\ Even' /\ Held' /\ Known' = Known
    BY <1>3, <2>1, <2>2, Zenon
  <2>4. HInv'
    BY <1>2, <2>2, <2>3, Zenon DEF HInv
  <2>5. Regs' = [Regs EXCEPT !["AX"] = Regs'["AX"]]
    BY <2>2 DEF Regs
  <2>6. OwnFlags' \ {0} = OwnFlags \ {0}
    BY <2>1 DEF OwnFlags
  <2>7. Calls!Goes(2)
    BY <2>1, ExecutesCalls, Zenon
  <2>8. Calls!Syscall
    BY <2>3, <2>5, <2>6, <2>7, Zenon DEF Calls!Syscall, Known, Regs, OwnFlags
  <2> QED
    BY <2>4, <2>8, Zenon DEF Calls!Next
<1> QED
  BY <1>4, <1>5, <1>6, <1>7, <1>8, <1>9, Zenon DEF Others

\* The end of the program, and what changes nothing.
LEMMA EndsSimulate ==
    ASSUME HInv, Ends \/ Exited \/ UNCHANGED stackVars, base' = base
    PROVE  HInv' /\ (Calls!Next \/ UNCHANGED Calls!callVars)
<1>1. /\ UNCHANGED <<ip, ax, sp, flags, memoryVars>>
      /\ status' = status \/ (status = "running" /\ status' = "runtimeError")
  BY DEF Ends, Trap, AccessRefused, RuntimeError, Exited, stackVars
<1>2. UNCHANGED <<ax, sreg>> /\ sp' = sp /\ flags' = flags /\ ram' = ram /\ ip' = ip
  BY <1>1 DEF memoryVars
<1>3. TypeOK'
  BY EndsType DEF HInv
<1>4. base' \in Word /\ Even' /\ Held' /\ Known' = Known
  BY <1>2, SameKnown
<1>5. HInv'
  BY <1>2, <1>3, <1>4, Zenon DEF HInv
<1>6. Regs' = Regs /\ OwnFlags' = OwnFlags
  BY <1>2, RegsUnchanged, FlagsUnchanged
<1>7. CASE status' = status
  <2>1. UNCHANGED Calls!callVars
    BY <1>2, <1>4, <1>6, <1>7 DEF Calls!callVars, Known, Regs, OwnFlags
  <2> QED
    BY <1>5, <2>1, Zenon
<1>8. CASE status = "running" /\ status' = "runtimeError"
  <2>1. ~(status # "running") /\ status' # "running"
    BY <1>8
  <2>2. Calls!End
    BY <1>2, <1>4, <1>6, <2>1 DEF Calls!End, Known, Regs, OwnFlags
  <2> QED
    BY <1>5, <2>2, Zenon DEF Calls!Next
<1> QED
  BY <1>1, <1>7, <1>8, Zenon

\* The loaders leave a stack of which nothing is known.
LEMMA InitSimulates ==
    ASSUME HInit
    PROVE  HInv /\ Calls!Init
<1>1. TypeOK /\ base = sp /\ sp \in Word /\ sp \in Int /\ flags = Forced \cup {AlwaysOne}
      /\ status = "running"
  BY InitType DEF HInit, Init, TypeOK, Word
<1>2. ToWord(sp + 2 * 0) = base /\ 0 \in Nat /\ 2 * 0 < WordMod
  <2>1. sp + 2 * 0 = sp /\ 2 * 0 < WordMod
    BY <1>1, Widths
  <2> QED
    BY <1>1, <2>1, ToWordOfWord, Zenon
<1>3. Depth = 0 /\ Even
  BY <1>1, <1>2, KnownIs, Zenon
<1>4. Held
  BY <1>3 DEF Held
<1> QED
  BY <1>1, <1>3, <1>4 DEF HInv, Calls!Init

\* push() and pop() implement the stack of CallStack, in memory of any size and with
\* any program: what is popped is what was pushed, however calls, returns, pushes and
\* interrupts follow each other, up to the point where pushes go around the segment.
THEOREM StackImplementsCallStack == HSpec => ImplementsCallStack
<1>1. ASSUME HInv, [HNext]_<<stackVars, base>>
      PROVE  HInv' /\ (Calls!Next \/ UNCHANGED Calls!callVars)
  BY <1>1, PushesSimulate, TakesSimulate, SwitchesSimulate, OthersSimulate, EndsSimulate
  DEF HNext
<1> QED
  BY <1>1, InitSimulates, PTL DEF HSpec, ImplementsCallStack, Calls!Spec
=============================================================================
