----------------------------- MODULE Alu86Proofs -----------------------------
(***************************************************************************)
(* What programs of Alu86 compute, for every even number of values of a    *)
(* nibble, all operands and all programs of the shapes the properties      *)
(* name.                                                                   *)
(***************************************************************************)
EXTENDS Alu86, WellFoundedInduction, TLAPS

-----------------------------------------------------------------------------
(* Division.                                                                 *)

\* The only multiple of w nearer to zero than w is zero.
LEMMA Multiple ==
    ASSUME NEW w \in Nat \ {0}, NEW d \in Int, -w < w * d, w * d < w
    PROVE  d = 0
<1>1. ASSUME d >= 1 PROVE FALSE
  <2>1. w * (d - 1) >= 0
    BY <1>1, SMT
  <2>2. w * (d - 1) = w * d - w
    BY SMT
  <2> QED
    BY <2>1, <2>2
<1>2. ASSUME d <= -1 PROVE FALSE
  <2>1. w * (-1 - d) >= 0
    BY <1>2, SMT
  <2>2. w * (-1 - d) = -w - w * d
    BY SMT
  <2> QED
    BY <2>1, <2>2
<1> QED
  BY <1>1, <1>2

\* What division by w leaves of a number, and how often w goes into it.
LEMMA DivisionIs ==
    ASSUME NEW w \in Nat \ {0}, NEW x \in Int
    PROVE  /\ x = w * (x \div w) + (x % w)
           /\ x \div w \in Int /\ x % w \in 0 .. w - 1
  OBVIOUS

\* They are the only numbers that are so.
LEMMA DivisionUnique ==
    ASSUME NEW w \in Nat \ {0}, NEW x \in Int, NEW q \in Int, NEW r \in 0 .. w - 1,
           x = w * q + r
    PROVE  x \div w = q /\ x % w = r
<1> DEFINE p == x \div w
           t == x % w
<1>1. x = w * p + t /\ p \in Int /\ t \in 0 .. w - 1
  BY DivisionIs
<1> HIDE DEF p, t
<1>2. w * (p - q) = w * p - w * q
  BY <1>1
<1>3. w * (p - q) = r - t
  <2> DEFINE wp == w * p
             wq == w * q
             wd == w * (p - q)
  <2>1. x = wp + t /\ x = wq + r /\ wd = wp - wq /\ wp \in Int /\ wq \in Int /\ t \in Int
    BY <1>1, <1>2
  <2> HIDE DEF wp, wq, wd
  <2>2. wd = r - t
    BY <2>1
  <2> QED
    BY <2>2 DEF wd
<1>4. -w < r - t /\ r - t < w
  BY <1>1
<1>5. p - q = 0
  BY <1>1, <1>3, <1>4, Multiple
<1>6. p = q
  BY <1>1, <1>5
<1> QED
  BY <1>1, <1>3, <1>5, <1>6 DEF p, t

\* A number so many turns away leaves the same.
LEMMA SameResidue ==
    ASSUME NEW w \in Nat \ {0}, NEW x \in Int, NEW k \in Int
    PROVE  (x + w * k) % w = x % w /\ (x + w * k) \div w = x \div w + k
<1> DEFINE q == x \div w
           r == x % w
<1>1. x = w * q + r /\ q \in Int /\ r \in 0 .. w - 1
  BY DivisionIs
<1> HIDE DEF q, r
<1>2. w * (q + k) = w * q + w * k
  BY <1>1
<1> DEFINE wq == w * q
           wk == w * k
           y == x + wk
<1>3. y = w * (q + k) + r /\ y \in Int /\ q + k \in Int
  BY <1>1, <1>2
<1> HIDE DEF y
<1>4. y \div w = q + k /\ y % w = r
  BY <1>1, <1>3, DivisionUnique
<1> QED
  BY <1>4 DEF y, q, r

\* A number that is small enough is what it leaves.
LEMMA SmallResidue ==
    ASSUME NEW w \in Nat \ {0}, NEW x \in 0 .. w - 1
    PROVE  x % w = x /\ x \div w = 0
<1>1. x = w * 0 + x /\ 0 \in Int /\ x \in Int
  OBVIOUS
<1> QED
  BY <1>1, DivisionUnique

-----------------------------------------------------------------------------
(* Widths and bits.                                                          *)

\* Bytes and words have an even number of values, words as many as pairs of bytes.
LEMMA Widths ==
    /\ ByteMod \in Nat \ {0} /\ WordMod \in Nat \ {0} /\ DWordMod \in Nat \ {0}
    /\ \E h \in Nat \ {0, 1} : ByteMod = 2 * h
    /\ \E h \in Nat \ {0, 1} : WordMod = 2 * h
<1>1. PICK n \in Nat \ {0} : Nibble = 2 * n
  <2> DEFINE n == Nibble \div 2
  <2>1. Nibble = 2 * n /\ n \in Nat
    BY AluAssumption
  <2>2. n # 0
    BY <2>1, AluAssumption
  <2> HIDE DEF n
  <2> QED
    BY <2>1, <2>2
<1> DEFINE b == ByteMod
           h == n * Nibble
<1>2. h \in Nat \ {0, 1} /\ b = 2 * h
  <2>1. Nibble \in Nat /\ Nibble >= 2
    BY <1>1
  <2>2. n * Nibble = 2 * (n * n) /\ n * n >= 1 /\ n * n \in Nat
    BY <1>1, SMT
  <2>3. Nibble * Nibble = 2 * (n * Nibble)
    BY <1>1, SMT
  <2> QED
    BY <2>2, <2>3 DEF ByteMod
<1> HIDE DEF b, h
<1> DEFINE g == h * b
<1>3. g \in Nat \ {0, 1} /\ b * b = 2 * g
  BY <1>2, SMT
<1>4. b \in Nat \ {0} /\ b * b \in Nat \ {0}
  BY <1>2, SMT
<1> DEFINE w == b * b
<1>5. WordMod = w
  BY DEF WordMod, b
<1>6. w * w \in Nat \ {0}
  <2> HIDE DEF w
  <2> QED
    BY <1>4, <1>5, SMT DEF w
<1> QED
  BY <1>2, <1>3, <1>4, <1>5, <1>6 DEF DWordMod, b

\* One of the two.
LEMMA ModIs ==
    ASSUME NEW wide \in BOOLEAN
    PROVE  \E h \in Nat \ {0, 1} : Mod(wide) = 2 * h /\ Mod(wide) \div 2 = h
<1>1. \A h \in Nat : (2 * h) \div 2 = h
  OBVIOUS
<1> QED
  BY <1>1, Widths DEF Mod

\* A bit is set where its weight is in what twice its weight leaves.
LEMMA BitIs ==
    ASSUME NEW h \in Nat \ {0}, NEW x \in Int
    PROVE  Bit(x, h) <=> x % (2 * h) >= h
<1> DEFINE q == x \div (2 * h)
           r == x % (2 * h)
<1>1. 2 * h \in Nat \ {0} /\ x = (2 * h) * q + r /\ q \in Int /\ r \in 0 .. 2 * h - 1
  <2> DEFINE w == 2 * h
  <2>1. w \in Nat \ {0}
    OBVIOUS
  <2> HIDE DEF w
  <2>2. x = w * (x \div w) + (x % w) /\ x \div w \in Int /\ x % w \in 0 .. w - 1
    BY <2>1, DivisionIs
  <2> QED
    BY <2>1, <2>2 DEF w
<1> HIDE DEF q, r
<1>2. (2 * h) * q = h * (2 * q)
  BY <1>1
<1>3. CASE r < h
  <2>1. x = h * (2 * q) + r /\ 2 * q \in Int /\ r \in 0 .. h - 1
    BY <1>1, <1>2, <1>3
  <2>2. x \div h = 2 * q
    BY <2>1, DivisionUnique
  <2>3. (2 * q) % 2 = 0
    BY <1>1
  <2> QED
    BY <1>3, <2>2, <2>3, <1>1 DEF Bit, r
<1>4. CASE r >= h
  <2>1. h * (2 * q + 1) = h * (2 * q) + h
    BY <1>1
  <2>2. x = h * (2 * q + 1) + (r - h) /\ 2 * q + 1 \in Int /\ r - h \in 0 .. h - 1
    <3> DEFINE a == h * (2 * q)
               c == h * (2 * q + 1)
    <3>1. a \in Int /\ c = a + h /\ x = a + r
      BY <1>1, <1>2, <2>1
    <3> HIDE DEF a, c
    <3>2. x = c + (r - h)
      BY <1>1, <3>1
    <3> QED
      BY <1>1, <1>4, <3>2 DEF c
  <2>3. x \div h = 2 * q + 1
    BY <2>2, DivisionUnique
  <2>4. (2 * q + 1) % 2 = 1
    BY <1>1
  <2> QED
    BY <1>4, <2>3, <2>4 DEF Bit, r
<1> QED
  BY <1>1, <1>3, <1>4

\* Near zero: of a number less than two turns away.
LEMMA BitNear ==
    ASSUME NEW h \in Nat \ {0}, NEW x \in Int, -(2 * h) <= x, x < 4 * h
    PROVE  Bit(x, h) <=> x \in (-h) .. -1 \/ x \in h .. 2 * h - 1 \/ x >= 3 * h
<1> DEFINE r == x % (2 * h)
<1>1. 2 * h \in Nat \ {0}
  OBVIOUS
<1>2. \A q \in {-1, 0, 1}, y \in 0 .. 2 * h - 1 : x = (2 * h) * q + y => r = y
  BY <1>1, DivisionUnique
<1>3. CASE x < 0
  <2>1. x + 2 * h \in 0 .. 2 * h - 1 /\ x = (2 * h) * (-1) + (x + 2 * h)
    BY <1>3
  <2>2. r = x + 2 * h
    BY <1>2, <2>1
  <2> QED
    BY <1>3, <2>2, BitIs
<1>4. CASE 0 <= x /\ x < 2 * h
  <2>1. x \in 0 .. 2 * h - 1 /\ x = (2 * h) * 0 + x
    BY <1>4
  <2>2. r = x
    BY <1>2, <2>1
  <2> QED
    BY <1>4, <2>2, BitIs
<1>5. CASE 2 * h <= x
  <2>1. x - 2 * h \in 0 .. 2 * h - 1 /\ x = (2 * h) * 1 + (x - 2 * h)
    BY <1>5
  <2>2. r = x - 2 * h
    BY <1>2, <2>1
  <2> QED
    BY <1>5, <2>2, BitIs
<1> QED
  BY <1>3, <1>4, <1>5

-----------------------------------------------------------------------------
(* The flags of an operation.                                                *)

FlagSet == [cf : BOOLEAN, af : BOOLEAN, zf : BOOLEAN, sf : BOOLEAN, of : BOOLEAN]

LEMMA SetPZSIs ==
    ASSUME NEW f \in FlagSet, NEW data, NEW wide
    PROVE  LET g == SetPZS(f, data, wide)
           IN  /\ g \in FlagSet
               /\ g.zf = (data % Mod(wide) = 0) /\ g.sf = Top(data, wide)
               /\ g.cf = f.cf /\ g.af = f.af /\ g.of = f.of
  BY DEF FlagSet, SetPZS, Top, Bit

LEMMA SetCAPZSIs ==
    ASSUME NEW f \in FlagSet, NEW data, NEW d, NEW s, NEW wide
    PROVE  LET g == SetCAPZS(f, data, d, s, wide)
           IN  /\ g \in FlagSet
               /\ g.zf = (data % Mod(wide) = 0) /\ g.sf = Top(data, wide)
               /\ g.cf = Bit(data, Mod(wide)) /\ g.af = HalfCarry(data, s, d)
<1> DEFINE g == SetPZS(f, data, wide)
<1>1. g \in FlagSet /\ g.zf = (data % Mod(wide) = 0) /\ g.sf = Top(data, wide)
  BY SetPZSIs
<1>2. Bit(data, Mod(wide)) \in BOOLEAN /\ HalfCarry(data, s, d) \in BOOLEAN
  BY DEF Bit, HalfCarry
<1> HIDE DEF g
<1>3. SetCAPZS(f, data, d, s, wide)
        = [g EXCEPT !.af = HalfCarry(data, s, d), !.cf = Bit(data, Mod(wide))]
  BY DEF SetCAPZS, g
<1> QED
  BY <1>1, <1>2, <1>3 DEF FlagSet

\* add() and sub().
LEMMA SumIs ==
    ASSUME NEW f \in FlagSet, NEW d, NEW s, NEW wide
    PROVE  LET r == Add(f, d, s, wide)
               g == r.flags
           IN  /\ r.data = d + s /\ g \in FlagSet
               /\ g.zf = ((d + s) % Mod(wide) = 0) /\ g.sf = Top(d + s, wide)
               /\ g.cf = Bit(d + s, Mod(wide)) /\ g.af = HalfCarry(d + s, s, d)
               /\ g.of = OFAdd(d + s, d, s, wide)
<1> DEFINE data == d + s
           g == SetCAPZS(f, data, d, s, wide)
<1>1. /\ g \in FlagSet /\ g.zf = (data % Mod(wide) = 0) /\ g.sf = Top(data, wide)
      /\ g.cf = Bit(data, Mod(wide)) /\ g.af = HalfCarry(data, s, d)
  BY SetCAPZSIs
<1>2. OFAdd(data, d, s, wide) \in BOOLEAN
  BY DEF OFAdd
<1>3. Add(f, d, s, wide) = [data |-> data, flags |-> [g EXCEPT !.of = OFAdd(data, d, s, wide)]]
  BY DEF Add, Result
<1> HIDE DEF g, data
<1>4. /\ Add(f, d, s, wide).data = data
      /\ Add(f, d, s, wide).flags = [g EXCEPT !.of = OFAdd(data, d, s, wide)]
  BY <1>3
<1>5. LET h == [g EXCEPT !.of = OFAdd(data, d, s, wide)]
      IN  /\ h \in FlagSet /\ h.of = OFAdd(data, d, s, wide)
          /\ h.zf = g.zf /\ h.sf = g.sf /\ h.cf = g.cf /\ h.af = g.af
  BY <1>1, <1>2 DEF FlagSet
<1> QED
  BY <1>1, <1>4, <1>5, Zenon DEF data

LEMMA DifferenceIs ==
    ASSUME NEW f \in FlagSet, NEW d, NEW s, NEW wide
    PROVE  LET r == Sub(f, d, s, wide)
               g == r.flags
           IN  /\ r.data = d - s /\ g \in FlagSet
               /\ g.zf = ((d - s) % Mod(wide) = 0) /\ g.sf = Top(d - s, wide)
               /\ g.cf = Bit(d - s, Mod(wide)) /\ g.af = HalfCarry(d - s, s, d)
               /\ g.of = OFSub(d - s, d, s, wide)
<1> DEFINE data == d - s
           g == SetCAPZS(f, data, d, s, wide)
<1>1. /\ g \in FlagSet /\ g.zf = (data % Mod(wide) = 0) /\ g.sf = Top(data, wide)
      /\ g.cf = Bit(data, Mod(wide)) /\ g.af = HalfCarry(data, s, d)
  BY SetCAPZSIs
<1>2. OFSub(data, d, s, wide) \in BOOLEAN
  BY DEF OFSub
<1>3. Sub(f, d, s, wide) = [data |-> data, flags |-> [g EXCEPT !.of = OFSub(data, d, s, wide)]]
  BY DEF Sub, Result
<1> HIDE DEF g, data
<1>4. /\ Sub(f, d, s, wide).data = data
      /\ Sub(f, d, s, wide).flags = [g EXCEPT !.of = OFSub(data, d, s, wide)]
  BY <1>3
<1>5. LET h == [g EXCEPT !.of = OFSub(data, d, s, wide)]
      IN  /\ h \in FlagSet /\ h.of = OFSub(data, d, s, wide)
          /\ h.zf = g.zf /\ h.sf = g.sf /\ h.cf = g.cf /\ h.af = g.af
  BY <1>1, <1>2 DEF FlagSet
<1> QED
  BY <1>1, <1>4, <1>5, Zenon DEF data

-----------------------------------------------------------------------------
(* How programs run.                                                         *)

Instructions == [op : Ops, reg : Regs, src : 0 .. WordMod - 1]

\* The flags at the start of a program.
FirstFlags == [cf |-> start.cf, af |-> FALSE, zf |-> FALSE, sf |-> FALSE, of |-> FALSE]

\* Programs stay what they are, and begin as their start says.
Begun ==
    /\ code \in Codes /\ start \in Starts /\ pc \in 0 .. Len(code)
    /\ pc = 0 => ax = start.ax /\ dx = start.dx /\ flags = FirstFlags

\* The two kinds of steps: an instruction has been executed, or nothing has.
Moves == /\ pc < Len(code) /\ pc' = pc + 1
         /\ UNCHANGED <<code, start>>
Stays == UNCHANGED <<ax, dx, flags, code, pc, start>>

LEMMA CodeType ==
    ASSUME NEW c \in Codes
    PROVE  /\ Len(c) \in Nat
           /\ \A i \in 1 .. Len(c) : /\ c[i] \in Instructions
                                     /\ c[i].src \in 0 .. Mod(IsWide(c[i].reg)) - 1
                                     /\ c[i].op \in AsciiOps => c[i].reg = "al"
<1>1. c \in Seq(Instructions)
  BY AluAssumption DEF Instructions
<1>2. Len(c) \in Nat /\ \A i \in 1 .. Len(c) : c[i] \in Instructions
  BY <1>1
<1>3. ByteMod \in Nat /\ WordMod \in Nat
  BY Widths
<1>4. ASSUME NEW i \in 1 .. Len(c) PROVE c[i].src \in 0 .. Mod(IsWide(c[i].reg)) - 1
  <2>1. c[i].src \in 0 .. WordMod - 1 /\ (c[i].reg \notin WordRegs => c[i].src < ByteMod)
    BY <1>2, CodesAssumption DEF Instructions
  <2> QED
    BY <1>3, <2>1 DEF Mod, IsWide
<1> QED
  BY <1>2, <1>4, CodesAssumption

\* Every action but one makes the program go on.
LEMMA StepIs ==
    ASSUME [Next]_vars
    PROVE  \/ Stays
           \/ /\ Moves /\ ~trapped /\ ~trapped'
              /\ code[pc + 1].op \in AluOps => AluStep
              /\ code[pc + 1].op \in {"inc", "dec"} => IncDecStep
              /\ code[pc + 1].op = "neg" => NegStep
              /\ code[pc + 1].op = "not" => NotStep
              /\ code[pc + 1].op \in RotateOps => RotateBy
              /\ code[pc + 1].op \in {"daa", "das", "aaa", "aas"} => DecimalStep
              /\ code[pc + 1].op = "aam" => Aam
              /\ code[pc + 1].op = "aad" => Aad
              /\ code[pc + 1].op \in {"cbw", "cwd"} => Extend
              /\ code[pc + 1].op \in {"mul", "imul"} => MultiplyStep
              /\ code[pc + 1].op \in {"div", "idiv"} => DivideStep
<1>1. \A a, d, f : Leaves(a, d, f) => pc' = pc + 1 /\ UNCHANGED <<trapped, code, start>>
  BY DEF Leaves
<1>2. \A r : SetReg(r) => pc' = pc + 1 /\ UNCHANGED <<trapped, code, start>>
  BY <1>1, Zenon DEF SetReg
<1>3. DivideOverflow => Stays
  BY DEF DivideOverflow, Stays
<1>4. \A r : Running /\ SetReg(r) => Moves /\ ~trapped /\ ~trapped'
  BY <1>2 DEF Moves, Running
<1>5. \A a, d, f : Running /\ Leaves(a, d, f) => Moves /\ ~trapped /\ ~trapped'
  BY <1>1 DEF Moves, Running
<1>6. CASE AluStep
  <2>1. code[pc + 1].op \in AluOps /\ Moves /\ ~trapped /\ ~trapped'
    BY <1>4, <1>5, <1>6, Zenon DEF AluStep, Inst
  <2> QED
    BY <1>6, <2>1 DEF AluOps, RotateOps
<1>7. CASE IncDecStep
  <2>1. code[pc + 1].op \in {"inc", "dec"} /\ Moves /\ ~trapped /\ ~trapped'
    BY <1>4, <1>7, Zenon DEF IncDecStep, Inst
  <2> QED
    BY <1>7, <2>1 DEF AluOps, RotateOps
<1>8. CASE NegStep
  <2>1. code[pc + 1].op = "neg" /\ Moves /\ ~trapped /\ ~trapped'
    BY <1>4, <1>8, Zenon DEF NegStep, Inst
  <2> QED
    BY <1>8, <2>1 DEF AluOps, RotateOps
<1>9. CASE NotStep
  <2>1. code[pc + 1].op = "not" /\ Moves /\ ~trapped /\ ~trapped'
    BY <1>4, <1>9, Zenon DEF NotStep, Inst
  <2> QED
    BY <1>9, <2>1 DEF AluOps, RotateOps
<1>10. CASE RotateBy
  <2>1. code[pc + 1].op \in RotateOps /\ Moves /\ ~trapped /\ ~trapped'
    BY <1>4, <1>10, Zenon DEF RotateBy, Inst
  <2> QED
    BY <1>10, <2>1 DEF AluOps, RotateOps
<1>11. CASE DecimalStep
  <2>1. code[pc + 1].op \in {"daa", "das", "aaa", "aas"} /\ Moves /\ ~trapped /\ ~trapped'
    BY <1>5, <1>11, Zenon DEF DecimalStep, Inst
  <2> QED
    BY <1>11, <2>1 DEF AluOps, RotateOps
<1>12. CASE Aam
  <2>1. code[pc + 1].op = "aam" /\ (Stays \/ (Moves /\ ~trapped /\ ~trapped'))
    BY <1>3, <1>5, <1>12, Zenon DEF Aam, Inst
  <2> QED
    BY <1>12, <2>1 DEF AluOps, RotateOps
<1>13. CASE Aad
  <2>1. code[pc + 1].op = "aad" /\ Moves /\ ~trapped /\ ~trapped'
    BY <1>5, <1>13, Zenon DEF Aad, Inst
  <2> QED
    BY <1>13, <2>1 DEF AluOps, RotateOps
<1>14. CASE Extend
  <2>1. code[pc + 1].op \in {"cbw", "cwd"} /\ Moves /\ ~trapped /\ ~trapped'
    BY <1>5, <1>14, Zenon DEF Extend, Inst
  <2> QED
    BY <1>14, <2>1 DEF AluOps, RotateOps
<1>15. CASE MultiplyStep
  <2>1. code[pc + 1].op \in {"mul", "imul"} /\ Moves /\ ~trapped /\ ~trapped'
    BY <1>5, <1>15, Zenon DEF MultiplyStep, Inst
  <2> QED
    BY <1>15, <2>1 DEF AluOps, RotateOps
<1>16. CASE DivideStep
  <2>1. code[pc + 1].op \in {"div", "idiv"} /\ (Stays \/ (Moves /\ ~trapped /\ ~trapped'))
    BY <1>3, <1>5, <1>16, Zenon DEF DivideStep, Inst
  <2> QED
    BY <1>16, <2>1 DEF AluOps, RotateOps
<1>17. CASE Done \/ UNCHANGED vars
  BY <1>17 DEF Done, vars, Stays
<1> QED
  BY <1>6, <1>7, <1>8, <1>9, <1>10, <1>11, <1>12, <1>13, <1>14, <1>15, <1>16, <1>17, Zenon DEF Next

LEMMA BegunInvariance == Spec => []Begun
<1>1. Init => Begun
  <2> SUFFICES ASSUME Init PROVE Begun
    OBVIOUS
  <2>1. Len(code) \in Nat
    BY CodeType DEF Init
  <2> QED
    BY <2>1 DEF Init, Begun, FirstFlags
<1>2. Begun /\ [Next]_vars => Begun'
  <2> SUFFICES ASSUME Begun, [Next]_vars PROVE Begun'
    OBVIOUS
  <2>1. CASE Stays
    BY <2>1 DEF Stays, Begun, FirstFlags
  <2>2. CASE Moves
    <3>1. Len(code) \in Nat
      BY CodeType DEF Begun
    <3> QED
      BY <2>2, <3>1 DEF Moves, Begun
  <2> QED
    BY <2>1, <2>2, StepIs, Zenon
<1> QED
  BY <1>1, <1>2, PTL DEF Spec

-----------------------------------------------------------------------------
(* Comparisons.                                                              *)

\* Top() is the sign of a number of that width, and of one a turn away.
LEMMA SignIs ==
    ASSUME NEW wide \in BOOLEAN, NEW h \in Nat \ {0}, Mod(wide) = 2 * h, NEW x \in Int
    PROVE  /\ Top(x, wide) \in BOOLEAN
           /\ Top(x, wide) <=> x % (2 * h) >= h
           /\ -(2 * h) <= x /\ x < 4 * h
                => (Top(x, wide) <=> x \in (-h) .. -1 \/ x \in h .. 2 * h - 1 \/ x >= 3 * h)
<1>1. Mod(wide) \div 2 = h
  OBVIOUS
<1>2. Top(x, wide) = Bit(x, h) /\ Top(x, wide) \in BOOLEAN
  BY <1>1 DEF Top, Bit
<1> QED
  BY <1>2, BitIs, BitNear

\* The flags of sub() compare, as long as the operands are of that width.
LEMMA FlagsCompare ==
    ASSUME NEW f \in FlagSet, NEW wide \in BOOLEAN,
           NEW d \in 0 .. Mod(wide) - 1, NEW s \in 0 .. Mod(wide) - 1
    PROVE  LET g == Sub(f, d, s, wide).flags
               ds == Signed(d, Mod(wide))
               ss == Signed(s, Mod(wide))
           IN  /\ g \in FlagSet
               /\ g.zf <=> d = s
               /\ g.cf <=> d < s
               /\ g.sf # g.of <=> ds < ss
               /\ ds = ss <=> d = s
<1> DEFINE m == Mod(wide)
           g == Sub(f, d, s, wide).flags
           x == d - s
<1>1. PICK h \in Nat \ {0, 1} : m = 2 * h /\ m \div 2 = h
  BY ModIs
<1>2. /\ g \in FlagSet
      /\ g.zf = (x % m = 0) /\ g.sf = Top(x, wide) /\ g.cf = Bit(x, m)
      /\ g.of = OFSub(x, d, s, wide)
  BY DifferenceIs
<1>3. h \in Nat \ {0} /\ x \in Int /\ d \in Int /\ s \in Int
  BY <1>1
<1>4. d \in 0 .. 2 * h - 1 /\ s \in 0 .. 2 * h - 1
  BY <1>1
<1>5. /\ Top(x, wide) <=> x \in (-h) .. -1 \/ x \in h .. 2 * h - 1
      /\ Top(d, wide) <=> d >= h
      /\ Top(s, wide) <=> s >= h
  <2>1. \A y \in Int : -(2 * h) <= y /\ y < 4 * h
          => (Top(y, wide) <=> y \in (-h) .. -1 \/ y \in h .. 2 * h - 1 \/ y >= 3 * h)
    BY <1>1, <1>3, SignIs
  <2> QED
    BY <1>3, <1>4, <2>1
<1>6. g.of <=> \/ d >= h /\ s < h /\ ~Top(x, wide)
               \/ d < h /\ s >= h /\ Top(x, wide)
  <2>1. Top(x, wide) \in BOOLEAN /\ Top(d, wide) \in BOOLEAN /\ Top(s, wide) \in BOOLEAN
    BY <1>1, <1>3, SignIs
  <2>2. g.of = (Top(d, wide) # Top(s, wide) /\ Top(x, wide) # Top(d, wide))
    BY <1>2, Zenon DEF OFSub
  <2>3. g.of <=> \/ Top(d, wide) /\ ~Top(s, wide) /\ ~Top(x, wide)
                 \/ ~Top(d, wide) /\ Top(s, wide) /\ Top(x, wide)
    BY <2>1, <2>2, Zenon
  <2> HIDE DEF g, x
  <2> QED
    BY <1>3, <1>5, <2>3
<1>7. g.cf <=> x < 0
  <2>1. 2 * h \in Nat \ {0} /\ -(2 * (2 * h)) <= x /\ x < 4 * (2 * h)
    BY <1>1, <1>4
  <2>2. Bit(x, 2 * h) <=> x \in (-(2 * h)) .. -1 \/ x \in 2 * h .. 2 * (2 * h) - 1 \/ x >= 3 * (2 * h)
    BY <1>3, <2>1, BitNear
  <2>3. g.cf <=> Bit(x, 2 * h)
    BY <1>1, <1>2
  <2>4. -(2 * h) <= x /\ x < 2 * h /\ x \in Int
    BY <1>1, <1>3, <1>4
  <2> HIDE DEF g, x
  <2> QED
    BY <2>2, <2>3, <2>4
<1>8. g.zf <=> x = 0
  <2>1. ASSUME x >= 0 PROVE x % m = x
    BY <1>1, <1>4, <2>1, SmallResidue
  <2>2. ASSUME x < 0 PROVE x % m = x + m
    <3>1. x + m \in 0 .. m - 1 /\ x = m * (-1) + (x + m) /\ -1 \in Int
      BY <1>1, <1>4, <2>2
    <3> QED
      BY <1>1, <1>3, <3>1, DivisionUnique
  <2>3. x % m = 0 <=> x = 0
    BY <1>1, <1>4, <2>1, <2>2
  <2> QED
    BY <1>2, <2>3, Zenon
<1>9. /\ Signed(d, m) = IF d >= h THEN d - 2 * h ELSE d
      /\ Signed(s, m) = IF s >= h THEN s - 2 * h ELSE s
  BY <1>1 DEF Signed
<1>10. g.sf <=> x \in (-h) .. -1 \/ x \in h .. 2 * h - 1
  BY <1>2, <1>5
<1> HIDE DEF g, m
<1>11. /\ g.zf <=> d = s
       /\ g.cf <=> d < s
       /\ g.sf # g.of <=> Signed(d, m) < Signed(s, m)
       /\ Signed(d, m) = Signed(s, m) <=> d = s
  BY <1>2, <1>3, <1>4, <1>6, <1>7, <1>8, <1>9, <1>10, <1>5 DEF FlagSet
<1> QED
  BY <1>2, <1>11 DEF g, m

\* The two bytes of a word.
LEMMA BytesOfWord ==
    ASSUME NEW n \in 0 .. WordMod - 1
    PROVE  /\ n % ByteMod \in 0 .. ByteMod - 1 /\ n \div ByteMod \in 0 .. ByteMod - 1
           /\ n = ByteMod * (n \div ByteMod) + (n % ByteMod)
<1> DEFINE b == ByteMod
<1>1. b \in Nat \ {0} /\ n \in Nat /\ n < b * b
  BY Widths DEF WordMod
<1> SUFFICES n % b \in 0 .. b - 1 /\ n \div b \in 0 .. b - 1 /\ n = b * (n \div b) + (n % b)
  BY DEF b
<1> HIDE DEF b
<1>2. n % b \in 0 .. b - 1 /\ n \div b \in Int /\ n = b * (n \div b) + (n % b)
  <2>1. n \in Int
    BY <1>1
  <2> QED
    BY <1>1, <2>1, DivisionIs, Zenon
<1>3. n \div b >= 0 /\ n \div b < b
  BY <1>1, SMT
<1>4. n \div b \in 0 .. b - 1
  BY <1>1, <1>2, <1>3
<1> QED
  BY <1>2, <1>4

\* A register holds a number of its width.
LEMMA RegisterType ==
    ASSUME NEW reg \in Regs, NEW a \in 0 .. WordMod - 1, NEW d \in 0 .. WordMod - 1
    PROVE  Register(reg, a, d) \in 0 .. Mod(IsWide(reg)) - 1
<1>1. a % ByteMod \in 0 .. ByteMod - 1 /\ a \div ByteMod \in 0 .. ByteMod - 1
  BY BytesOfWord
<1> QED
  BY <1>1 DEF Register, Regs, Mod, IsWide, WordRegs

LEMMA StartType ==
    ASSUME Begun
    PROVE  /\ start.ax \in 0 .. WordMod - 1 /\ start.dx \in 0 .. WordMod - 1
           /\ start.cf \in BOOLEAN
           /\ FirstFlags \in FlagSet
  BY AluAssumption DEF Begun, FirstFlags, FlagSet

LEMMA SubDecides ==
    ASSUME NEW f \in FlagSet, NEW wide \in BOOLEAN,
           NEW d \in 0 .. Mod(wide) - 1, NEW s \in 0 .. Mod(wide) - 1
    PROVE  Decides(Sub(f, d, s, wide).flags, d, s, Mod(wide))
<1> DEFINE g == Sub(f, d, s, wide).flags
           ds == Signed(d, Mod(wide))
           ss == Signed(s, Mod(wide))
<1>1. /\ g \in FlagSet
      /\ g.zf <=> d = s
      /\ g.cf <=> d < s
      /\ g.sf # g.of <=> ds < ss
      /\ ds = ss <=> d = s
  BY FlagsCompare
<1>2. d \in Int /\ s \in Int /\ ds \in Int /\ ss \in Int
  <2>1. Mod(wide) \in Int /\ Mod(wide) \div 2 \in Int
    BY ModIs
  <2> QED
    BY <2>1 DEF Signed
<1> HIDE DEF g, ds, ss
<1>3. /\ Condition("e", g) = (d = s)   /\ Condition("ne", g) = (d # s)
      /\ Condition("b", g) = (d < s)   /\ Condition("ae", g) = (d >= s)
      /\ Condition("be", g) = (d <= s) /\ Condition("a", g) = (d > s)
  BY <1>1, <1>2 DEF Condition, FlagSet
<1>4. /\ Condition("l", g) = (ds < ss) /\ Condition("ge", g) = (ds >= ss)
      /\ Condition("le", g) = (ds <= ss) /\ Condition("g", g) = (ds > ss)
  BY <1>1, <1>2 DEF Condition, FlagSet
<1> QED
  BY <1>3, <1>4, Zenon DEF Decides, g, ds, ss

\* What add, sub and cmp do to a program's machine.
LEMMA CompareStep ==
    ASSUME Begun, ConditionsCompare, [Next]_vars
    PROVE  ConditionsCompare'
<1>1. CASE Stays
  BY <1>1 DEF Stays, ConditionsCompare, Ran, Src
<1>2. ASSUME ~Stays, NEW reg \in Regs, Ran(<<"cmp">>, <<reg>>)'
      PROVE  Decides(flags', Register(reg, start.ax, start.dx), code[1].src, Mod(IsWide(reg)))
  <2> DEFINE d == Register(reg, start.ax, start.dx)
             s == code[1].src
             wide == IsWide(reg)
  <2>1. pc' = 1 /\ code'[1].op = "cmp" /\ code'[1].reg = reg
    BY <1>2 DEF Ran
  <2>2. pc = 0 /\ code' = code /\ 1 \in 1 .. Len(code)
    BY <1>2, <2>1, StepIs DEF Moves, Begun
  <2>3. AluStep
    BY <1>2, <2>1, <2>2, StepIs DEF AluOps
  <2>4. Inst = code[1] /\ WordSize = wide /\ Get(reg) = d
    BY <2>1, <2>2 DEF Inst, WordSize, IsWide, Get, Begun
  <2>5. flags' = Sub(FirstFlags, d, s, wide).flags
    BY <2>1, <2>2, <2>3, <2>4 DEF AluStep, Leaves, ALUOperation, Begun
  <2>6. d \in 0 .. Mod(wide) - 1 /\ s \in 0 .. Mod(wide) - 1 /\ wide \in BOOLEAN
    BY <2>1, <2>2, StartType, RegisterType, CodeType DEF Begun, IsWide
  <2> QED
    BY <2>5, <2>6, StartType, SubDecides
<1> QED
  BY <1>1, <1>2, StepIs DEF ConditionsCompare, Src, Moves

\* Nothing has been executed at first, and what a comparison leaves is decided above.
THEOREM ComparisonsDecide == Spec => []ConditionsCompare
<1>1. Init => ConditionsCompare
  BY DEF Init, ConditionsCompare, Ran
<1>2. Begun /\ ConditionsCompare /\ [Next]_vars => ConditionsCompare'
  BY CompareStep
<1> QED
  BY <1>1, <1>2, BegunInvariance, PTL DEF Spec

-----------------------------------------------------------------------------
(* Recursive functions have values.                                          *)

\* A set of natural numbers that is not empty has a lowest element.
LEMMA LowestExists ==
    ASSUME NEW S \in SUBSET Nat, S # {}
    PROVE  \E h \in S : \A g \in S : h <= g
<1>1. \E h \in S : \A g \in S : <<g, h>> \notin OpToRel(<, Nat)
  BY NatLessThanWellFounded, WFMin, Zenon
<1>2. \A g, h \in Nat : <<g, h>> \notin OpToRel(<, Nat) => h <= g
  BY DEF OpToRel
<1> QED
  BY <1>1, <1>2

\* A function that starts at x and goes on as G says, with values in D.
Keeps(G, D) == \A j \in Nat : \A v \in D : G[j][v] \in D
Solvable(D, x, G, n) ==
    \E f \in [0 .. n -> D] : f[0] = x /\ \A i \in 1 .. n : f[i] = G[i - 1][f[i - 1]]

\* A function defined from its value one below has a solution: were there none up to
\* some number, there would be a lowest such number.
LEMMA Recursion ==
    ASSUME NEW D, NEW x \in D, NEW n \in Nat, NEW G, Keeps(G, D)
    PROVE  Solvable(D, x, G, n)
<1> DEFINE body(f, d) == [i \in 0 .. d |-> IF i = 0 THEN x ELSE G[i - 1][f[i - 1]]]
           Bad == {d \in Nat : ~\E f \in [0 .. d -> D] : f = body(f, d)}
<1> SUFFICES ASSUME Bad # {} PROVE FALSE
  <2>1. n \notin Bad => \E f \in [0 .. n -> D] : f = body(f, n)
    BY Zenon
  <2>2. \A f : f = body(f, n) =>
          \A i \in 0 .. n : f[i] = IF i = 0 THEN x ELSE G[i - 1][f[i - 1]]
    BY Zenon
  <2>3. 0 \in 0 .. n /\ \A i \in 1 .. n : i \in 0 .. n /\ i # 0
    OBVIOUS
  <2>4. \A f : f = body(f, n) => f[0] = x /\ \A i \in 1 .. n : f[i] = G[i - 1][f[i - 1]]
    BY <2>2, <2>3, Zenon
  <2> QED
    BY <2>1, <2>4, Zenon DEF Solvable
<1>1. PICK d \in Bad : \A e \in Bad : d <= e
  <2> HIDE DEF body
  <2>1. Bad \subseteq Nat
    OBVIOUS
  <2> HIDE DEF Bad
  <2> QED
    BY <2>1, LowestExists
<1>2. d \in Nat /\ ~\E f \in [0 .. d -> D] : f = body(f, d)
  OBVIOUS
<1>3. d # 0
  <2> SUFFICES ASSUME d = 0 PROVE FALSE
    OBVIOUS
  <2> DEFINE f == [i \in 0 .. d |-> x]
  <2>1. \A i \in 0 .. d : i = 0
    OBVIOUS
  <2>2. f = body(f, d) /\ f \in [0 .. d -> D]
    BY <2>1, Zenon
  <2> QED
    BY <1>2, <2>2
<1>4. d - 1 \in Nat /\ d - 1 \notin Bad
  <2> HIDE DEF Bad
  <2> QED
    BY <1>1, <1>2, <1>3
<1>5. PICK g \in [0 .. d - 1 -> D] : g = body(g, d - 1)
  BY <1>4, Zenon
<1> DEFINE f == [i \in 0 .. d |-> IF i = d THEN G[d - 1][g[d - 1]] ELSE g[i]]
<1>6. f \in [0 .. d -> D]
  <2>1. g[d - 1] \in D /\ G[d - 1][g[d - 1]] \in D
    BY <1>4, <1>5 DEF Keeps
  <2>2. \A i \in 0 .. d : i # d => g[i] \in D
    <3>1. \A i \in 0 .. d : i # d => i \in 0 .. d - 1
      BY <1>2
    <3> QED
      BY <1>5, <3>1, Zenon
  <2> QED
    BY <2>1, <2>2
<1>7. \A i \in 0 .. d : f[i] = IF i = 0 THEN x ELSE G[i - 1][f[i - 1]]
  <2> SUFFICES ASSUME NEW i \in 0 .. d
               PROVE  f[i] = IF i = 0 THEN x ELSE G[i - 1][f[i - 1]]
    OBVIOUS
  <2>1. i # 0 => i - 1 \in 0 .. d /\ i - 1 # d
    BY <1>2
  <2>2. i # 0 => f[i - 1] = g[i - 1]
    BY <2>1, Zenon
  <2>3. CASE i = d
    BY <1>3, <2>2, <2>3, Zenon
  <2>4. CASE i # d
    <3>1. f[i] = g[i] /\ i \in 0 .. d - 1
      BY <1>2, <2>4
    <3>2. g[i] = IF i = 0 THEN x ELSE G[i - 1][g[i - 1]]
      BY <1>5, <3>1, Zenon
    <3> QED
      BY <2>2, <3>1, <3>2, Zenon
  <2> QED
    BY <2>3, <2>4
<1>8. f = body(f, d)
  BY <1>7, Zenon
<1> QED
  BY <1>2, <1>6, <1>8

\* What holds at 0, and at each place up to n if it does one below, holds up to n.
LEMMA UpTo ==
    ASSUME NEW S, NEW n \in Nat, 0 \in S, \A i \in 1 .. n : i - 1 \in S => i \in S
    PROVE  0 .. n \subseteq S
<1> DEFINE Bad == {i \in 0 .. n : i \notin S}
<1> SUFFICES ASSUME Bad # {} PROVE FALSE
  OBVIOUS
<1>1. PICK d \in Bad : \A e \in Bad : d <= e
  <2>1. Bad \subseteq Nat
    OBVIOUS
  <2> HIDE DEF Bad
  <2> QED
    BY <2>1, LowestExists
<1>2. d \in 0 .. n /\ d \notin S
  OBVIOUS
<1>3. d \in 1 .. n /\ d - 1 \in 0 .. n
  BY <1>2
<1>4. d - 1 \notin Bad
  <2>1. d - 1 \in Bad => d <= d - 1
    BY <1>1, Zenon
  <2> HIDE DEF Bad
  <2> QED
    BY <1>2, <2>1
<1> QED
  BY <1>2, <1>3, <1>4, Zenon

\* What Number() adds up are integers.
LEMMA NumberType ==
    ASSUME NEW S
    PROVE  Number(S) \in Int
<1> DEFINE bit(j) == IF j \in S THEN 2 ^ j ELSE 0
           body(f) == [i \in 0 .. 16 |-> IF i = 0 THEN 0 ELSE f[i - 1] + bit(i - 1)]
           M == CHOOSE f : f = body(f)
           G == [j \in Nat |-> [v \in Int |-> IF j < 16 THEN v + bit(j) ELSE v]]
<1>1. Number(S) = M[16]
  BY Zenon DEF Number
<1>2. \A j \in 0 .. 15 : 2 ^ j \in Int
  <2> SUFFICES ASSUME NEW j \in 0 .. 15 PROVE 2 ^ j \in Int
    OBVIOUS
  <2>1. \/ j = 0 \/ j = 1 \/ j = 2 \/ j = 3 \/ j = 4 \/ j = 5 \/ j = 6 \/ j = 7
        \/ j = 8 \/ j = 9 \/ j = 10 \/ j = 11 \/ j = 12 \/ j = 13 \/ j = 14 \/ j = 15
    OBVIOUS
  <2>2. /\ 2 ^ 0 = 1 /\ 2 ^ 1 = 2 /\ 2 ^ 2 = 4 /\ 2 ^ 3 = 8 /\ 2 ^ 4 = 16 /\ 2 ^ 5 = 32
        /\ 2 ^ 6 = 64 /\ 2 ^ 7 = 128 /\ 2 ^ 8 = 256 /\ 2 ^ 9 = 512 /\ 2 ^ 10 = 1024
        /\ 2 ^ 11 = 2048 /\ 2 ^ 12 = 4096 /\ 2 ^ 13 = 8192 /\ 2 ^ 14 = 16384
        /\ 2 ^ 15 = 32768
    OBVIOUS
  <2> QED
    BY <2>1, <2>2
<1>3. \A j \in 0 .. 15 : bit(j) \in Int
  BY <1>2
<1> HIDE DEF bit
<1>4. Keeps(G, Int) /\ 0 \in Int /\ 16 \in Nat
  BY <1>3 DEF Keeps
<1> HIDE DEF G
<1>5. PICK f \in [0 .. 16 -> Int] :
        f[0] = 0 /\ \A i \in 1 .. 16 : f[i] = G[i - 1][f[i - 1]]
  <2>1. Solvable(Int, 0, G, 16)
    BY <1>4, Recursion
  <2> QED
    BY <2>1, Zenon DEF Solvable
<1>6. f = body(f)
  <2>1. \A i \in 1 .. 16 : G[i - 1][f[i - 1]] = f[i - 1] + bit(i - 1)
    BY DEF G
  <2>2. \A i \in 0 .. 16 : f[i] = IF i = 0 THEN 0 ELSE f[i - 1] + bit(i - 1)
    BY <1>5, <2>1
  <2> QED
    BY <2>2
<1>7. M = body(M)
  BY <1>6, Zenon
<1> HIDE DEF M
<1>8. \A i \in 0 .. 16 : M[i] = IF i = 0 THEN 0 ELSE M[i - 1] + bit(i - 1)
  BY <1>7, Zenon
<1> DEFINE Fine == {i \in 0 .. 16 : M[i] \in Int}
<1>9. 0 \in Fine /\ \A i \in 1 .. 16 : i - 1 \in Fine => i \in Fine
  BY <1>3, <1>8
<1>10. 0 .. 16 \subseteq Fine
  <2> HIDE DEF Fine
  <2> QED
    BY <1>4, <1>9, UpTo
<1> QED
  BY <1>1, <1>10

-----------------------------------------------------------------------------
(* Types: every instruction leaves words in the registers.                   *)

Word == 0 .. WordMod - 1
Results == [data : Int, flags : FlagSet]

\* ZF and SF are those of the result.
Described(r, wide) ==
    r.flags.zf = (r.data % Mod(wide) = 0) /\ r.flags.sf = Top(r.data, wide)

\* One step of a rotation, and the flags it sets.
LEMMA RotateStepIs ==
    ASSUME NEW op \in RotateOps, NEW r \in Results, NEW wide \in BOOLEAN
    PROVE  LET t == RotateStep(op, r, wide)
           IN  /\ t \in Results
               /\ op \in {"shl", "shr", "sar"} => Described(t, wide)
<1> DEFINE d == r.data
           f == r.flags
           top == Mod(wide) \div 2
           left == (2 * d) % DWordMod
           out == IF op \in {"rol", "rcl", "shl"} THEN Bit(left, Mod(wide)) ELSE d % 2 = 1
           in == CASE op \in {"rol", "ror"} -> out
                   [] op \in {"rcl", "rcr"} -> f.cf
                   [] op \in {"shl", "shr"} -> FALSE
                   [] op = "sar" -> Top(d, wide)
           data == IF op \in {"rol", "rcl", "shl"}
                     THEN left + (IF in THEN 1 ELSE 0)
                     ELSE d \div 2 + (IF in THEN top ELSE 0)
           of == Top(data, wide) # Top(d, wide)
           af == IF op \in {"shr", "sar"} THEN TRUE ELSE f.af
           g == [f EXCEPT !.cf = out, !.of = of, !.af = af]
           h == IF op \in {"shl", "shr", "sar"} THEN SetPZS(g, data, wide) ELSE g
           t == RotateStep(op, r, wide)
<1>1. t = [data |-> data, flags |-> h]
  BY Zenon DEF RotateStep, Result
<1>2. d \in Int /\ f \in FlagSet
  BY DEF Results
<1>3. left \in Int /\ top \in Int
  <2>1. DWordMod \in Nat \ {0} /\ Mod(wide) \div 2 \in Int
    BY Widths, ModIs
  <2>2. 2 * d \in Int
    BY <1>2
  <2> HIDE DEF d
  <2> QED
    BY <2>1, <2>2, DivisionIs
<1>4. data \in Int
  <2>1. d \div 2 \in Int
    BY <1>2
  <2> HIDE DEF d, left, top, in
  <2> QED
    BY <1>3, <2>1
<1>5. out \in BOOLEAN /\ of \in BOOLEAN /\ af \in BOOLEAN
  BY <1>2 DEF Bit, FlagSet
<1> HIDE DEF d, data, out, of, af, f, t
<1>6. g \in FlagSet
  BY <1>2, <1>5 DEF FlagSet
<1> HIDE DEF g
<1>7. /\ h \in FlagSet
      /\ op \in {"shl", "shr", "sar"} => h.zf = (data % Mod(wide) = 0) /\ h.sf = Top(data, wide)
  BY <1>6, SetPZSIs
<1> HIDE DEF h
<1>8. t.data = data /\ t.flags = h /\ t \in Results
  BY <1>1, <1>4, <1>7 DEF Results
<1> QED
  BY <1>7, <1>8 DEF t, Described

\* A rotation is so many steps.
Steps(st, op, d, count, f, wide) ==
    /\ Rotate(op, d, count, f, wide) = st[count]
    /\ st[0] = Result(d, f)
    /\ \A i \in 1 .. count : st[i] = RotateStep(op, st[i - 1], wide)
    /\ \A i \in 0 .. count : st[i] \in Results

LEMMA RotateIs ==
    ASSUME NEW op \in RotateOps, NEW d \in Int, NEW count \in Nat, NEW f \in FlagSet,
           NEW wide \in BOOLEAN
    PROVE  \E st : Steps(st, op, d, count, f, wide)
<1> DEFINE first == Result(d, f)
           next(r) == RotateStep(op, r, wide)
           body(st) == [i \in 0 .. count |-> IF i = 0 THEN first ELSE next(st[i - 1])]
           M == CHOOSE st : st = body(st)
           G == [j \in Nat |-> [r \in Results |-> next(r)]]
<1>1. Rotate(op, d, count, f, wide) = M[count]
  BY Zenon DEF Rotate
<1>2. first \in Results /\ \A r \in Results : next(r) \in Results
  BY RotateStepIs DEF Result, Results
<1> HIDE DEF first, next
<1>3. Keeps(G, Results)
  BY <1>2 DEF Keeps
<1>4. PICK g \in [0 .. count -> Results] :
        g[0] = first /\ \A i \in 1 .. count : g[i] = G[i - 1][g[i - 1]]
  <2> HIDE DEF G
  <2>1. Solvable(Results, first, G, count)
    BY <1>2, <1>3, Recursion
  <2> QED
    BY <2>1, Zenon DEF Solvable
<1>5. g = body(g)
  <2>1. \A i \in 1 .. count : i - 1 \in 0 .. count /\ i - 1 \in Nat
    OBVIOUS
  <2>2. \A i \in 1 .. count : G[i - 1][g[i - 1]] = next(g[i - 1])
    BY <1>4, <2>1, Zenon
  <2> HIDE DEF G
  <2>3. \A i \in 0 .. count : i = 0 \/ i \in 1 .. count
    OBVIOUS
  <2>4. \A i \in 0 .. count : g[i] = IF i = 0 THEN first ELSE next(g[i - 1])
    BY <1>4, <2>2, <2>3
  <2> QED
    BY <2>4
<1>6. M = body(M)
  BY <1>5, Zenon
<1> HIDE DEF M
<1>7. \A i \in 0 .. count : M[i] = IF i = 0 THEN first ELSE next(M[i - 1])
  BY <1>6, Zenon
<1>8. M[0] = first /\ \A i \in 1 .. count : M[i] = next(M[i - 1])
  BY <1>7
<1> DEFINE Fine == {i \in 0 .. count : M[i] \in Results}
<1>9. 0 \in Fine /\ \A i \in 1 .. count : i - 1 \in Fine => i \in Fine
  BY <1>2, <1>8
<1>10. 0 .. count \subseteq Fine
  <2> HIDE DEF Fine
  <2> QED
    BY <1>9, UpTo
<1>11. \A i \in 0 .. count : M[i] \in Results
  BY <1>10
<1> QED
  BY <1>1, <1>8, <1>11, Zenon DEF first, next, Steps

\* The results of doALUOperation(), and of INC and DEC.
LEMMA ALUOperationIs ==
    ASSUME NEW op \in AluOps, NEW f \in FlagSet, NEW d \in Int, NEW s \in Int,
           NEW wide \in BOOLEAN
    PROVE  LET r == ALUOperation(op, f, d, s, wide)
           IN  r \in Results /\ Described(r, wide)
<1>1. \A x \in Int : /\ Add(f, d, x, wide) \in Results /\ Described(Add(f, d, x, wide), wide)
                     /\ Sub(f, d, x, wide) \in Results /\ Described(Sub(f, d, x, wide), wide)
  <2> SUFFICES ASSUME NEW x \in Int
               PROVE  /\ Add(f, d, x, wide) \in Results /\ Described(Add(f, d, x, wide), wide)
                      /\ Sub(f, d, x, wide) \in Results /\ Described(Sub(f, d, x, wide), wide)
    OBVIOUS
  <2> DEFINE a == Add(f, d, x, wide)
             b == Sub(f, d, x, wide)
  <2>1. /\ a.data = d + x /\ a.flags \in FlagSet
        /\ a.flags.zf = ((d + x) % Mod(wide) = 0) /\ a.flags.sf = Top(d + x, wide)
    BY SumIs
  <2>2. /\ b.data = d - x /\ b.flags \in FlagSet
        /\ b.flags.zf = ((d - x) % Mod(wide) = 0) /\ b.flags.sf = Top(d - x, wide)
    BY DifferenceIs
  <2>3. a = [data |-> a.data, flags |-> a.flags] /\ b = [data |-> b.data, flags |-> b.flags]
    BY DEF Add, Sub, Result
  <2>4. d + x \in Int /\ d - x \in Int
    OBVIOUS
  <2> HIDE DEF a, b
  <2>5. a \in Results /\ b \in Results
    BY <2>1, <2>2, <2>3, <2>4 DEF Results
  <2> QED
    BY <2>1, <2>2, <2>5, Zenon DEF a, b, Described
<1>2. \A x \in Int : LET r == BitwiseOp(f, x, wide) IN r \in Results /\ Described(r, wide)
  <2> SUFFICES ASSUME NEW x \in Int
               PROVE  LET r == BitwiseOp(f, x, wide) IN r \in Results /\ Described(r, wide)
    OBVIOUS
  <2> DEFINE g == SetPZS(f, x, wide)
             h == [g EXCEPT !.cf = FALSE, !.af = FALSE, !.of = FALSE]
  <2>1. g \in FlagSet /\ g.zf = (x % Mod(wide) = 0) /\ g.sf = Top(x, wide)
    BY SetPZSIs
  <2> HIDE DEF g
  <2>2. h \in FlagSet /\ h.zf = g.zf /\ h.sf = g.sf
    BY <2>1 DEF FlagSet
  <2>3. BitwiseOp(f, x, wide) = [data |-> x, flags |-> h]
    BY Zenon DEF BitwiseOp, Result, g
  <2> HIDE DEF h
  <2>4. [data |-> x, flags |-> h] \in Results
    BY <2>2 DEF Results
  <2> QED
    BY <2>1, <2>2, <2>3, <2>4 DEF Described
<1>3. And(d, s) \in Int /\ Or(d, s) \in Int /\ Xor(d, s) \in Int
  BY NumberType, Zenon DEF And, Or, Xor
<1>4. s + Carry(f) \in Int
  BY DEF Carry
<1>5. \/ op = "add" \/ op = "or" \/ op = "adc" \/ op = "sbb"
      \/ op = "and" \/ op = "sub" \/ op = "xor" \/ op = "cmp"
  BY DEF AluOps
<1>6. /\ ALUOperation("add", f, d, s, wide) = Add(f, d, s, wide)
      /\ ALUOperation("adc", f, d, s, wide) = Add(f, d, s + Carry(f), wide)
      /\ ALUOperation("sbb", f, d, s, wide) = Sub(f, d, s + Carry(f), wide)
      /\ ALUOperation("sub", f, d, s, wide) = Sub(f, d, s, wide)
      /\ ALUOperation("cmp", f, d, s, wide) = Sub(f, d, s, wide)
      /\ ALUOperation("and", f, d, s, wide) = BitwiseOp(f, And(d, s), wide)
      /\ ALUOperation("or", f, d, s, wide) = BitwiseOp(f, Or(d, s), wide)
      /\ ALUOperation("xor", f, d, s, wide) = BitwiseOp(f, Xor(d, s), wide)
  BY DEF ALUOperation
<1> QED
  BY <1>1, <1>2, <1>3, <1>4, <1>5, <1>6, Zenon

LEMMA IncDecIs ==
    ASSUME NEW f \in FlagSet, NEW d \in Int, NEW decrement \in BOOLEAN, NEW wide \in BOOLEAN
    PROVE  LET r == IncDec(f, d, decrement, wide)
           IN  /\ r \in Results /\ Described(r, wide) /\ r.flags.cf = f.cf
               /\ r.data = IF decrement THEN d - 1 ELSE d + 1
<1> DEFINE data == IF decrement THEN d - 1 ELSE d + 1
           of   == IF decrement THEN OFSub(data, d, 1, wide) ELSE OFAdd(data, d, 1, wide)
           af   == HalfCarry(data, 1, d)
           g    == SetPZS(f, data, wide)
           h    == [g EXCEPT !.of = of, !.af = af]
<1>1. IncDec(f, d, decrement, wide) = [data |-> data, flags |-> h]
  BY Zenon DEF IncDec, Result
<1>2. data \in Int /\ of \in BOOLEAN /\ af \in BOOLEAN
  <2>1. data \in Int
    OBVIOUS
  <2>2. af \in BOOLEAN
    BY DEF HalfCarry
  <2>3. OFSub(data, d, 1, wide) \in BOOLEAN /\ OFAdd(data, d, 1, wide) \in BOOLEAN
    BY DEF OFSub, OFAdd
  <2> QED
    BY <2>1, <2>2, <2>3
<1> HIDE DEF data, of, af
<1>3. g \in FlagSet /\ g.zf = (data % Mod(wide) = 0) /\ g.sf = Top(data, wide) /\ g.cf = f.cf
  BY SetPZSIs
<1> HIDE DEF g
<1>4. h \in FlagSet /\ h.zf = g.zf /\ h.sf = g.sf /\ h.cf = g.cf
  BY <1>2, <1>3 DEF FlagSet
<1> HIDE DEF h
<1>5. [data |-> data, flags |-> h] \in Results
  BY <1>2, <1>4 DEF Results
<1> QED
  BY <1>1, <1>3, <1>4, <1>5 DEF Described, data

LEMMA WideIs ==
    ASSUME NEW h \in Int, NEW l \in Int
    PROVE  /\ Wide(h, l) \in Word
           /\ Wide(h, l) % ByteMod = l % ByteMod /\ Wide(h, l) \div ByteMod = h % ByteMod
           /\ Wide(h, l) = ByteMod * (h % ByteMod) + (l % ByteMod)
<1> DEFINE b == ByteMod
           p == h % b
           q == l % b
           w == Wide(h, l)
<1>1. b \in Nat \ {0}
  BY Widths
<1> HIDE DEF b
<1>2. p \in 0 .. b - 1 /\ q \in 0 .. b - 1
  BY <1>1, DivisionIs
<1> HIDE DEF p, q
<1>3. w = b * p + q
  <2>1. w = p * b + q
    BY DEF Wide, b, p, q
  <2>2. p * b = b * p
    BY <1>1, <1>2
  <2> QED
    BY <2>1, <2>2
<1>4. w \in Int /\ w >= 0 /\ w < b * b
  <2>1. b * p <= b * (b - 1) /\ b * p >= 0 /\ b * p \in Int
    BY <1>1, <1>2, SMT
  <2>2. b * (b - 1) = b * b - b /\ b * b \in Int
    BY <1>1
  <2> QED
    BY <1>1, <1>2, <1>3, <2>1, <2>2
<1>5. b * b \in Int /\ WordMod = b * b
  BY <1>1 DEF WordMod, b
<1> HIDE DEF w
<1>6. w \in 0 .. WordMod - 1
  BY <1>4, <1>5
<1>7. w % b = q /\ w \div b = p
  BY <1>1, <1>2, <1>3, <1>4, DivisionUnique
<1> QED
  BY <1>3, <1>6, <1>7 DEF b, p, q, w, Word

-----------------------------------------------------------------------------
(* The machine.                                                              *)

Machine == ax \in Word /\ dx \in Word /\ flags \in FlagSet

\* What setReg() leaves: the register has the result, and the others are as they were.
LEMMA SetRegIs ==
    ASSUME Machine, NEW r \in Results, SetReg(r), Inst.reg \in Regs
    PROVE  /\ Machine' /\ flags' = r.flags
           /\ Register(Inst.reg, ax', dx') = r.data % Mod(WordSize)
           /\ Inst.reg = "dx" => ax' = ax
           /\ Inst.reg # "dx" => dx' = dx
           /\ Inst.reg = "al" => ax' \div ByteMod = ah
           /\ Inst.reg = "ah" => ax' % ByteMod = al
<1> DEFINE x == r.data
<1>1. x \in Int /\ r.flags \in FlagSet
  BY DEF Results
<1>2. /\ flags' = r.flags
      /\ Inst.reg = "al" => ax' = Wide(ah, x) /\ dx' = dx
      /\ Inst.reg = "ah" => ax' = Wide(x, al) /\ dx' = dx
      /\ Inst.reg = "ax" => ax' = x % WordMod /\ dx' = dx
      /\ Inst.reg = "dx" => ax' = ax /\ dx' = x % WordMod
  BY DEF SetReg, Leaves
<1>3. ByteMod \in Nat \ {0} /\ WordMod \in Nat \ {0} /\ ax \in Word
  BY Widths DEF Machine
<1>4. al \in 0 .. ByteMod - 1 /\ ah \in 0 .. ByteMod - 1
  BY <1>3, BytesOfWord DEF al, ah, Word
<1>5. x % WordMod \in Word
  BY <1>1, <1>3, DivisionIs DEF Word
<1>6. al % ByteMod = al /\ ah % ByteMod = ah
  BY <1>3, <1>4, SmallResidue
<1>7. al \in Int /\ ah \in Int
  BY <1>3, <1>4
<1> HIDE DEF x
<1>8. CASE Inst.reg = "al"
  <2>1. ax' \in Word /\ ax' % ByteMod = x % ByteMod /\ ax' \div ByteMod = ah
    BY <1>1, <1>2, <1>6, <1>7, <1>8, WideIs
  <2> QED
    BY <1>1, <1>2, <1>8, <2>1 DEF Register, Mod, WordSize, WordRegs, Machine, x
<1>9. CASE Inst.reg = "ah"
  <2>1. ax' \in Word /\ ax' \div ByteMod = x % ByteMod /\ ax' % ByteMod = al
    BY <1>1, <1>2, <1>6, <1>7, <1>9, WideIs
  <2> QED
    BY <1>1, <1>2, <1>9, <2>1 DEF Register, Mod, WordSize, WordRegs, Machine, x
<1>10. CASE Inst.reg = "ax" \/ Inst.reg = "dx"
  BY <1>1, <1>2, <1>5, <1>10 DEF Register, Mod, WordSize, WordRegs, Machine, x
<1> QED
  BY <1>8, <1>9, <1>10 DEF Regs

\* ZF and SF say of the register whether it is zero and whether it is negative.
Shown ==
    LET left == Register(Inst.reg, ax', dx')
    IN  /\ flags'.zf = (left = 0)
        /\ flags'.sf = (Signed(left, Mod(WordSize)) < 0)

LEMMA SignOfResidue ==
    ASSUME NEW wide \in BOOLEAN, NEW x \in Int
    PROVE  Top(x, wide) = (Signed(x % Mod(wide), Mod(wide)) < 0)
<1> DEFINE m == Mod(wide)
           y == x % m
<1>1. PICK h \in Nat \ {0, 1} : m = 2 * h /\ m \div 2 = h
  BY ModIs
<1> HIDE DEF m
<1>2. Top(x, wide) \in BOOLEAN /\ (Top(x, wide) <=> x % (2 * h) >= h)
  <2>1. h \in Nat \ {0} /\ Mod(wide) = 2 * h
    BY <1>1 DEF m
  <2> QED
    BY <2>1, SignIs
<1>3. m \in Nat \ {0}
  BY <1>1
<1>4. y \in 0 .. m - 1
  BY <1>3, DivisionIs
<1>5. x % (2 * h) = y
  BY <1>1
<1> HIDE DEF y
<1>6. Signed(y, m) = IF y >= h THEN y - m ELSE y
  BY <1>1 DEF Signed
<1>7. Signed(y, m) < 0 <=> y >= h
  BY <1>1, <1>4, <1>6
<1>8. Top(x, wide) <=> Signed(y, m) < 0
  BY <1>2, <1>5, <1>7
<1>9. (Signed(y, m) < 0) \in BOOLEAN
  BY <1>1, <1>4, <1>6
<1> DEFINE top == Top(x, wide)
           negative == Signed(y, m) < 0
<1>10. top = negative
  <2>1. top \in BOOLEAN /\ negative \in BOOLEAN /\ (top <=> negative)
    BY <1>2, <1>8, <1>9
  <2> HIDE DEF top, negative
  <2> QED
    BY <2>1
<1> QED
  BY <1>10 DEF m, y

LEMMA Shows ==
    ASSUME Machine, NEW r \in Results, SetReg(r), Described(r, WordSize), Inst.reg \in Regs
    PROVE  Shown
<1>1. flags' = r.flags /\ Register(Inst.reg, ax', dx') = r.data % Mod(WordSize)
  BY SetRegIs
<1>2. r.data \in Int /\ WordSize \in BOOLEAN
  BY DEF Results, WordSize
<1>3. Top(r.data, WordSize) = (Signed(r.data % Mod(WordSize), Mod(WordSize)) < 0)
  BY <1>2, SignOfResidue
<1> QED
  BY <1>1, <1>3, Zenon DEF Shown, Described

\* The instruction that is executed, and its operands.
LEMMA InstIs ==
    ASSUME Begun, Machine, Moves
    PROVE  /\ Inst \in Instructions /\ Inst.op \in Ops /\ Inst.reg \in Regs
           /\ WordSize \in BOOLEAN /\ WordSize = IsWide(Inst.reg)
           /\ Inst.src \in 0 .. Mod(WordSize) - 1
           /\ Get(Inst.reg) \in 0 .. Mod(WordSize) - 1
           /\ Inst.src \in Nat /\ Get(Inst.reg) \in Nat
           /\ Mod(WordSize) \in Nat \ {0}
           /\ Inst.op \in AsciiOps => Inst.reg = "al"
<1>1. pc + 1 \in 1 .. Len(code)
  BY CodeType DEF Begun, Moves
<1>2. /\ Inst \in Instructions /\ Inst.src \in 0 .. Mod(IsWide(Inst.reg)) - 1
      /\ Inst.op \in AsciiOps => Inst.reg = "al"
  BY <1>1, CodeType DEF Begun, Inst
<1>3. Inst.op \in Ops /\ Inst.reg \in Regs
  BY <1>2 DEF Instructions
<1>4. WordSize \in BOOLEAN /\ WordSize = IsWide(Inst.reg)
  BY DEF WordSize, IsWide
<1>5. Get(Inst.reg) \in 0 .. Mod(WordSize) - 1
  BY <1>3, <1>4, RegisterType DEF Get, Machine, Word
<1>6. Mod(WordSize) \in Nat \ {0}
  BY Widths DEF Mod
<1> QED
  BY <1>2, <1>3, <1>4, <1>5, <1>6

-----------------------------------------------------------------------------
(* What the actions do to it.                                                *)

LEMMA AluStepIs ==
    ASSUME Begun, Machine, Moves, AluStep
    PROVE  Machine' /\ (Inst.op # "cmp" => Shown)
<1> DEFINE r == ALUOperation(Inst.op, flags, Get(Inst.reg), Inst.src, WordSize)
<1>1. Inst.op \in AluOps
  BY DEF AluStep
<1>2. r \in Results /\ Described(r, WordSize)
  <2>1. Get(Inst.reg) \in Int /\ Inst.src \in Int /\ WordSize \in BOOLEAN /\ flags \in FlagSet
    BY InstIs DEF Machine
  <2> QED
    BY <1>1, <2>1, ALUOperationIs
<1> HIDE DEF r
<1>3. CASE Inst.op = "cmp"
  <2>1. ax' = ax /\ dx' = dx /\ flags' = r.flags
    BY <1>3 DEF AluStep, Leaves, r
  <2> QED
    BY <1>2, <1>3, <2>1 DEF Machine, Results
<1>4. CASE Inst.op # "cmp"
  <2>1. SetReg(r)
    BY <1>4 DEF AluStep, r
  <2> QED
    BY <1>2, <2>1, InstIs, SetRegIs, Shows
<1> QED
  BY <1>3, <1>4

LEMMA IncDecStepIs ==
    ASSUME Begun, Machine, Moves, IncDecStep
    PROVE  Machine' /\ Shown
<1> DEFINE r == IncDec(flags, Get(Inst.reg), Inst.op = "dec", WordSize)
<1>1. r \in Results /\ Described(r, WordSize)
  <2>1. Get(Inst.reg) \in Int /\ WordSize \in BOOLEAN /\ flags \in FlagSet
    BY InstIs DEF Machine
  <2>2. (Inst.op = "dec") \in BOOLEAN
    OBVIOUS
  <2> QED
    BY <2>1, <2>2, IncDecIs
<1>2. SetReg(r)
  BY DEF IncDecStep
<1> HIDE DEF r
<1> QED
  BY <1>1, <1>2, InstIs, SetRegIs, Shows

LEMMA NegStepIs ==
    ASSUME Begun, Machine, Moves, NegStep
    PROVE  Machine' /\ Shown
<1> DEFINE r == Sub(flags, 0, Get(Inst.reg), WordSize)
<1>1. r \in Results /\ Described(r, WordSize)
  <2>1. Get(Inst.reg) \in Int /\ WordSize \in BOOLEAN /\ flags \in FlagSet
    BY InstIs DEF Machine
  <2>2. r = ALUOperation("sub", flags, 0, Get(Inst.reg), WordSize)
    BY DEF ALUOperation
  <2>3. "sub" \in AluOps /\ 0 \in Int
    BY DEF AluOps
  <2> HIDE DEF r
  <2> QED
    BY <2>1, <2>2, <2>3, ALUOperationIs
<1>2. SetReg(r)
  BY DEF NegStep
<1> HIDE DEF r
<1> QED
  BY <1>1, <1>2, InstIs, SetRegIs, Shows

LEMMA NotStepIs ==
    ASSUME Begun, Machine, Moves, NotStep
    PROVE  Machine'
<1> DEFINE r == Result(Mod(WordSize) - 1 - Get(Inst.reg), flags)
<1>1. r \in Results
  <2>1. Mod(WordSize) - 1 - Get(Inst.reg) \in Int /\ flags \in FlagSet
    BY InstIs DEF Machine
  <2> QED
    BY <2>1 DEF Result, Results
<1>2. SetReg(r)
  BY DEF NotStep
<1> HIDE DEF r
<1> QED
  BY <1>1, <1>2, InstIs, SetRegIs

LEMMA RotateByIs ==
    ASSUME Begun, Machine, Moves, RotateBy
    PROVE  Machine' /\ (Inst.op \in {"shl", "shr", "sar"} /\ Inst.src > 0 => Shown)
<1> DEFINE count == Inst.src
           d == Get(Inst.reg)
           op == Inst.op
           wide == WordSize
           r == Rotate(op, d, count, flags, wide)
<1>1. /\ op \in RotateOps /\ SetReg(r) /\ Inst.reg \in Regs /\ flags \in FlagSet
      /\ d \in Int /\ count \in Nat /\ wide \in BOOLEAN
  BY InstIs DEF RotateBy, Machine
<1> HIDE DEF d, count, op, wide
<1>2. PICK st : Steps(st, op, d, count, flags, wide)
  BY <1>1, RotateIs
<1>3. /\ r = st[count]
      /\ \A i \in 1 .. count : st[i] = RotateStep(op, st[i - 1], wide)
      /\ \A i \in 0 .. count : st[i] \in Results
  BY <1>2, Zenon DEF Steps
<1>4. r \in Results
  BY <1>1, <1>3
<1>5. ASSUME op \in {"shl", "shr", "sar"}, count > 0 PROVE Described(r, wide)
  <2>1. count \in 1 .. count /\ count - 1 \in 0 .. count
    BY <1>1, <1>5
  <2>2. st[count] = RotateStep(op, st[count - 1], wide) /\ st[count - 1] \in Results
    BY <1>3, <2>1
  <2> QED
    BY <1>1, <1>3, <1>5, <2>2, RotateStepIs
<1> HIDE DEF r
<1> QED
  BY <1>1, <1>4, <1>5, SetRegIs, Shows DEF count, op, wide

\* AL and AH, and the width of a nibble.
LEMMA BytesOfAx ==
    ASSUME Machine
    PROVE  /\ al \in 0 .. ByteMod - 1 /\ ah \in 0 .. ByteMod - 1 /\ al \in Nat /\ ah \in Nat
           /\ ax = ByteMod * ah + al
           /\ ByteMod \in Nat \ {0} /\ WordMod \in Nat \ {0}
           /\ Nibble \in Nat \ {0} /\ Radix \in Nat \ {0} /\ Radix <= Nibble
<1>1. ByteMod \in Nat \ {0} /\ WordMod \in Nat \ {0}
  BY Widths
<1>2. /\ al \in 0 .. ByteMod - 1 /\ ah \in 0 .. ByteMod - 1
      /\ ax = ByteMod * ah + al
  BY BytesOfWord DEF Machine, Word, al, ah
<1> QED
  BY <1>1, <1>2, AluAssumption

LEMMA DecimalStepIs ==
    ASSUME Begun, Machine, Moves, DecimalStep
    PROVE  Machine' /\ (Inst.op \in {"daa", "das"} => Shown)
<1> DEFINE decrement == Inst.op \in {"das", "aas"}
           sign == IF decrement THEN -1 ELSE 1
           low == flags.af \/ al % Nibble >= Radix
           data == IF low THEN al + sign * (Nibble - Radix) ELSE al
<1>1. decrement \in BOOLEAN /\ data \in Int /\ low \in BOOLEAN
  <2>1. sign * (Nibble - Radix) \in Int
    BY BytesOfAx
  <2>2. al % Nibble \in Int
    BY BytesOfAx
  <2>3. decrement \in BOOLEAN
    OBVIOUS
  <2>4. low \in BOOLEAN
    BY <2>2, BytesOfAx DEF Machine, FlagSet
  <2> HIDE DEF sign, low
  <2>5. data \in Int
    BY <2>1, BytesOfAx
  <2> QED
    BY <2>3, <2>4, <2>5
<1>2. flags \in FlagSet /\ dx \in Word /\ Inst.reg = "al"
  BY InstIs DEF DecimalStep, Machine, AsciiOps
<1>3. CASE Inst.op \in {"daa", "das"}
  <2> DEFINE r == Adjust(flags, decrement)
             cf == \/ flags.cf
                   \/ low /\ Bit(data, ByteMod)
                   \/ data % ByteMod > Radix * Nibble - 1
             total == IF cf THEN data + sign * Nibble * (Nibble - Radix) ELSE data
             g == [flags EXCEPT !.af = low, !.cf = cf]
             t == total % ByteMod
  <2>1. Leaves(r.data, dx, r.flags)
    BY <1>3 DEF DecimalStep
  <2>2. r = [data |-> Wide(ah, total), flags |-> SetPZS(g, t, FALSE)]
    BY Zenon DEF Adjust, Result
  <2>3. cf \in BOOLEAN
    <3> HIDE DEF data, low
    <3> QED
      OBVIOUS
  <2>4. total \in Int
    <3>1. sign * Nibble * (Nibble - Radix) \in Int
      BY BytesOfAx, SMT
    <3> HIDE DEF cf, sign, data
    <3> QED
      BY <1>1, <3>1
  <2> HIDE DEF decrement, low, data, cf, total
  <2>5. g \in FlagSet
    BY <1>1, <1>2, <2>3 DEF FlagSet
  <2> HIDE DEF g
  <2>6. t \in 0 .. ByteMod - 1 /\ t \in Int
    <3>1. ByteMod \in Nat \ {0}
      BY Widths
    <3>2. t \in 0 .. ByteMod - 1
      BY <2>4, <3>1, DivisionIs
    <3> QED
      BY <3>1, <3>2
  <2>7. Wide(ah, total) \in Word /\ Wide(ah, total) % ByteMod = t
    <3>1. ah \in Int
      BY BytesOfAx
    <3> QED
      BY <2>4, <3>1, WideIs, Zenon DEF t
  <2> HIDE DEF t
  <2>8. LET h == SetPZS(g, t, FALSE)
        IN  h \in FlagSet /\ h.zf = (t % Mod(FALSE) = 0) /\ h.sf = Top(t, FALSE)
    BY <2>5 DEF SetPZS, FlagSet, Top, Bit
  <2>9. ax' = Wide(ah, total) /\ dx' = dx /\ flags' = SetPZS(g, t, FALSE)
    <3> HIDE DEF r
    <3>1. ax' = r.data /\ dx' = dx /\ flags' = r.flags
      BY <2>1 DEF Leaves
    <3> QED
      BY <2>2, <3>1
  <2>10. Mod(FALSE) = ByteMod /\ t % ByteMod = t
    BY <2>6, BytesOfAx, SmallResidue DEF Mod
  <2>11. Register(Inst.reg, ax', dx') = t
    BY <1>2, <2>7, <2>9 DEF Register
  <2>12. Top(t, FALSE) = (Signed(t, ByteMod) < 0)
    BY <2>6, <2>10, SignOfResidue
  <2>13. ~WordSize
    BY <1>2 DEF WordSize, WordRegs
  <2>14. Mod(WordSize) = ByteMod
    BY <2>13 DEF Mod
  <2>15. Shown
    BY <2>8, <2>9, <2>10, <2>11, <2>12, <2>14 DEF Shown
  <2> QED
    BY <1>2, <2>7, <2>8, <2>9, <2>15 DEF Machine
<1>4. CASE Inst.op \in {"aaa", "aas"}
  <2> DEFINE r == AsciiAdjust(flags, decrement)
             high == IF low THEN ah + sign ELSE ah
             lower == data % Nibble
             g == [flags EXCEPT !.cf = low, !.af = low]
  <2>1. Leaves(r.data, dx, r.flags)
    BY <1>4 DEF DecimalStep
  <2>2. r = [data |-> Wide(high, lower), flags |-> g]
    BY Zenon DEF AsciiAdjust, Result
  <2>3. high \in Int
    BY BytesOfAx
  <2> HIDE DEF high, low, data, decrement
  <2>4. lower \in Int
    <3>1. data \in Int /\ Nibble \in Nat \ {0}
      BY <1>1, BytesOfAx
    <3>2. lower \in 0 .. Nibble - 1
      BY <3>1, DivisionIs, Zenon
    <3> QED
      BY <3>1, <3>2
  <2>5. g \in FlagSet
    BY <1>1, <1>2 DEF FlagSet
  <2> HIDE DEF g, lower
  <2>6. Wide(high, lower) \in Word
    BY <2>3, <2>4, WideIs
  <2> HIDE DEF r
  <2>7. ax' = r.data /\ dx' = dx /\ flags' = r.flags
    BY <2>1 DEF Leaves
  <2>8. Machine'
    BY <1>2, <2>2, <2>5, <2>6, <2>7 DEF Machine
  <2> QED
    BY <1>4, <2>8
<1> QED
  BY <1>3, <1>4 DEF DecimalStep

\* AAM and AAD describe their operand, as a word.
LEMMA AsciiStepsAre ==
    ASSUME Begun, Machine, Moves, Aam \/ Aad
    PROVE  Machine' /\ flags'.zf = (Inst.src = 0) /\ ~flags'.sf
<1> DEFINE s == Inst.src
           h == SetPZS(flags, s, TRUE)
<1>1. Inst.reg = "al" /\ s \in Nat /\ s < ByteMod
  <2>1. Inst.reg = "al"
    BY InstIs DEF Aam, Aad, AsciiOps
  <2>2. ~WordSize
    BY <2>1 DEF WordSize, WordRegs
  <2>3. Mod(WordSize) = ByteMod
    BY <2>2 DEF Mod
  <2> QED
    BY <2>1, <2>3, InstIs, Widths
<1> HIDE DEF s
<1>2. h \in FlagSet /\ h.zf = (s % WordMod = 0) /\ h.sf = Top(s, TRUE)
  BY SetPZSIs DEF Machine, Mod
<1>3. PICK b \in Nat \ {0, 1} : ByteMod = 2 * b
  BY Widths
<1>4. PICK w \in Nat \ {0, 1} : WordMod = 2 * w
  BY Widths
<1>5. w = b * ByteMod /\ w >= ByteMod
  <2>1. 2 * w = 2 * (b * ByteMod)
    BY <1>3, <1>4, SMT DEF WordMod
  <2>2. b * ByteMod >= ByteMod /\ b * ByteMod \in Nat
    BY <1>3, SMT
  <2> QED
    BY <1>4, <2>1, <2>2
<1>6. s % WordMod = s
  BY <1>1, <1>3, <1>4, <1>5, SmallResidue
<1>7. ~Top(s, TRUE)
  <2>1. Mod(TRUE) = 2 * w /\ w \in Nat \ {0} /\ s \in Int
    BY <1>1, <1>4 DEF Mod
  <2>2. Top(s, TRUE) <=> s % (2 * w) >= w
    BY <2>1, SignIs
  <2>3. s % (2 * w) = s /\ s < w
    BY <1>1, <1>3, <1>4, <1>5, <1>6
  <2>4. ~(s % (2 * w) >= w)
    BY <2>1, <2>3
  <2> QED
    BY <2>2, <2>4, Zenon
<1> HIDE DEF h
<1>8. ~Stays
  BY DEF Stays, Moves, Begun
<1>9. /\ dx' = dx /\ flags' = h
      /\ \/ s # 0 /\ ax' = Wide(al \div s, al % s)
         \/ ax' = Wide(0, al + ah * s)
  BY <1>8, Zenon DEF Aam, Aad, Leaves, DivideOverflow, Stays, s, h
<1>10. ax' \in Word
  <2>1. ASSUME s # 0 PROVE al \div s \in Int /\ al % s \in Int
    <3>1. s \in Nat \ {0} /\ al \in Int
      BY <1>1, <2>1, BytesOfAx
    <3>2. al \div s \in Int /\ al % s \in 0 .. s - 1
      BY <3>1, DivisionIs, Zenon
    <3> QED
      BY <3>1, <3>2
  <2>2. al + ah * s \in Int
    BY <1>1, BytesOfAx, SMT
  <2> QED
    BY <1>9, <2>1, <2>2, WideIs
<1> QED
  BY <1>2, <1>6, <1>7, <1>9, <1>10 DEF Machine, s

LEMMA ExtendIs ==
    ASSUME Begun, Machine, Moves, Extend
    PROVE  Machine'
<1>1. PICK b \in Nat \ {0, 1} : ByteMod = 2 * b
  BY Widths
<1>2. WordMod \in Nat /\ WordMod >= ByteMod
  <2>1. ByteMod * ByteMod >= ByteMod
    BY <1>1, SMT
  <2> QED
    BY <2>1, Widths DEF WordMod
<1>3. SignExtend(al) \in Word
  BY <1>1, <1>2, BytesOfAx DEF SignExtend, Word
<1>4. /\ ax' \in {SignExtend(al), ax}
      /\ dx' \in {dx, WordMod - 1, 0} /\ flags' = flags
  BY DEF Extend, Leaves
<1> QED
  BY <1>1, <1>2, <1>3, <1>4 DEF Machine, Word

\* What a multiplication does.
Multiplied(s, signed, wide) ==
    LET r == Multiply(flags, s, signed, wide)
        d == IF wide THEN ax ELSE al
        m == Mod(wide)
        low == (d * s) % m
        high == Upper(d, s, signed, wide)
        cf == IF signed THEN high = (IF Top(low, wide) THEN m - 1 ELSE 0) ELSE high # 0
    IN  /\ r.ax = (IF wide THEN low ELSE Wide(high, low))
        /\ r.dx = (IF wide THEN high ELSE dx)
        /\ r.flags \in FlagSet /\ r.flags.cf = cf /\ r.flags.of = cf
        /\ d \in 0 .. m - 1 /\ low \in 0 .. m - 1 /\ high \in 0 .. m - 1

\* The halves of a product, and the flags it sets.
LEMMA MultiplyIs ==
    ASSUME Machine, NEW s \in Nat, NEW signed \in BOOLEAN, NEW wide \in BOOLEAN
    PROVE  Multiplied(s, signed, wide)
<1> DEFINE r == Multiply(flags, s, signed, wide)
           d == IF wide THEN ax ELSE al
           m == Mod(wide)
           low == (d * s) % m
           high == Upper(d, s, signed, wide)
           cf == IF signed THEN high = (IF Top(low, wide) THEN m - 1 ELSE 0) ELSE high # 0
           zero == IF wide THEN low = 0 /\ high = 0 ELSE low = 0
<1>1. m \in Nat \ {0} /\ d \in 0 .. m - 1 /\ d \in Nat
  BY BytesOfAx DEF Machine, Word, Mod
<1>2. /\ r.ax = (IF wide THEN low ELSE Wide(high, low))
      /\ r.dx = (IF wide THEN high ELSE dx)
      /\ r.flags = ProductFlags(flags, d, zero, cf, wide)
  BY DEF Multiply
<1>3. low \in 0 .. m - 1
  <2>1. d * s \in Int
    BY <1>1
  <2> HIDE DEF d, m
  <2> QED
    BY <1>1, <2>1, DivisionIs
<1>4. high \in 0 .. m - 1
  <2> DEFINE p == d * s
             q == p \div m
             u == q - (IF signed /\ Top(s, wide) THEN d ELSE 0)
                    - (IF signed /\ Top(d, wide) THEN s ELSE 0)
  <2>1. p \in Int
    BY <1>1
  <2> HIDE DEF d, m, p
  <2>2. q \in Int
    BY <1>1, <2>1, DivisionIs
  <2> HIDE DEF q
  <2>3. u \in Int
    BY <1>1, <2>2
  <2>4. high = u % m
    BY Zenon DEF Upper, m, u, q, p
  <2> HIDE DEF u, high
  <2> QED
    BY <1>1, <2>3, <2>4, DivisionIs
<1> HIDE DEF d, m, low, high, r
<1>5. cf \in BOOLEAN /\ zero \in BOOLEAN
  OBVIOUS
<1> HIDE DEF cf, zero
<1>6. LET g == ProductFlags(flags, d, zero, cf, wide)
      IN  g \in FlagSet /\ g.cf = cf /\ g.of = cf
  <2>1. Top(d, wide) \in BOOLEAN
    BY DEF Top, Bit
  <2> QED
    BY <1>5, <2>1 DEF ProductFlags, FlagSet, Machine
<1> QED
  BY <1>1, <1>2, <1>3, <1>4, <1>6, Zenon DEF d, m, low, high, cf, r, Multiplied

LEMMA MultiplyStepIs ==
    ASSUME Begun, Machine, Moves, MultiplyStep
    PROVE  Machine'
<1> DEFINE s == Inst.src
           signed == Inst.op = "imul"
           wide == WordSize
           r == Multiply(flags, s, signed, wide)
           d == IF wide THEN ax ELSE al
           low == (d * s) % Mod(wide)
           high == Upper(d, s, signed, wide)
<1>1. Leaves(r.ax, r.dx, r.flags)
  BY DEF MultiplyStep
<1>2. s \in Nat /\ signed \in BOOLEAN /\ wide \in BOOLEAN
  BY InstIs
<1> HIDE DEF s, signed, wide
<1>3. /\ r.ax = (IF wide THEN low ELSE Wide(high, low))
      /\ r.dx = (IF wide THEN high ELSE dx)
      /\ r.flags \in FlagSet
      /\ low \in 0 .. Mod(wide) - 1 /\ high \in 0 .. Mod(wide) - 1
  <2>1. Multiplied(s, signed, wide)
    BY <1>2, MultiplyIs
  <2> QED
    BY <2>1, Zenon DEF Multiplied
<1>4. ax' = r.ax /\ dx' = r.dx /\ flags' = r.flags
  BY <1>1 DEF Leaves
<1> HIDE DEF r, low, high
<1>5. CASE wide
  BY <1>3, <1>4, <1>5 DEF Machine, Word, Mod
<1>6. CASE ~wide
  <2>1. low \in Int /\ high \in Int
    BY <1>3, <1>6, BytesOfAx DEF Mod
  <2>2. Wide(high, low) \in Word
    BY <2>1, WideIs
  <2> QED
    BY <1>3, <1>4, <1>6, <2>2 DEF Machine
<1> QED
  BY <1>2, <1>5, <1>6

LEMMA NegateIs ==
    ASSUME NEW m \in Nat \ {0}, NEW x \in 0 .. m - 1
    PROVE  Negate(x, m) = IF x = 0 THEN 0 ELSE m - x
<1>1. CASE x = 0
  <2>1. m - x = m * 1 + 0 /\ m - x \in Int /\ 1 \in Int /\ 0 \in 0 .. m - 1
    BY <1>1
  <2>2. (m - x) % m = 0
    BY <2>1, DivisionUnique
  <2> QED
    BY <1>1, <2>2 DEF Negate
<1>2. CASE x # 0
  <2>1. m - x \in 0 .. m - 1
    BY <1>2
  <2>2. (m - x) % m = m - x
    BY <2>1, SmallResidue
  <2> QED
    BY <1>2, <2>2 DEF Negate
<1> QED
  BY <1>1, <1>2

\* The number that an operand of so many values stands for.
Meant(n, signed, mod) == IF signed THEN Signed(n, mod) ELSE n

\* A number in two's complement.
Complement(n, mod) == IF n < 0 THEN n + mod ELSE n

\* Division rounds towards zero: q is the quotient of n and v, t the residue.
Rounds(n, v, q, t) ==
    /\ q \in Int /\ t \in Int /\ n = v * q + t
    /\ Residue(t, n, v)

\* divide() does so, whatever the signs.
LEMMA DivideIs ==
    ASSUME NEW d \in 0 .. DWordMod - 1, NEW s \in 1 .. WordMod - 1, NEW signed \in BOOLEAN
    PROVE  LET r == Divide(d, s, signed)
               n == Meant(d, signed, DWordMod)
               v == Meant(s, signed, WordMod)
           IN  \E q \in Int, t \in Int :
                  /\ Rounds(n, v, q, t)
                  /\ r.data = Complement(q, DWordMod) /\ r.residue = Complement(t, DWordMod)
                  /\ q <= (IF n < 0 THEN -n ELSE n) /\ -q <= (IF n < 0 THEN -n ELSE n)
                  /\ n >= 0 /\ v > 0 => q >= 0 /\ q = n \div v
<1> DEFINE D == DWordMod
           W == WordMod
           n == Meant(d, signed, D)
           v == Meant(s, signed, W)
           dneg == signed /\ d >= D \div 2
           sneg == signed /\ s >= W \div 2
           a == IF dneg THEN Negate(d, D) ELSE d
           b == IF sneg THEN Negate(s, W) ELSE s
           k == a \div b
           m == a % b
           Q == IF dneg # sneg THEN -k ELSE k
           T == IF dneg THEN -m ELSE m
           r == Divide(d, s, signed)
<1>1. /\ r.data = IF dneg # sneg THEN Negate(k, D) ELSE k
      /\ r.residue = IF dneg THEN Negate(m, D) ELSE m
  BY DEF Divide
<1>2. D \in Nat \ {0} /\ W \in Nat \ {0} /\ D \div 2 \in Int /\ W \div 2 \in Int
      /\ D \div 2 > 0 /\ W \div 2 > 0 /\ D >= W
  <2>1. PICK w \in Nat \ {0, 1} : W = 2 * w
    BY Widths
  <2>2. D = 2 * (w * W) /\ w * W >= W /\ w * W \in Nat
    BY <2>1, SMT DEF DWordMod
  <2> HIDE DEF D, W
  <2> DEFINE g == w * W
  <2>3. D = 2 * g /\ g >= W /\ g \in Nat
    BY <2>2
  <2> HIDE DEF g
  <2> QED
    BY <2>1, <2>3
<1> HIDE DEF D, W
<1>3. d \in 0 .. D - 1 /\ s \in 1 .. W - 1 /\ d \in Int /\ s \in Int
  BY DEF D, W
<1>4. /\ n = IF dneg THEN d - D ELSE d
      /\ v = IF sneg THEN s - W ELSE s
      /\ dneg \in BOOLEAN /\ sneg \in BOOLEAN
      /\ n \in Int /\ v \in Int
  BY <1>2, <1>3 DEF Meant, Signed
<1>5. /\ dneg => n < 0 /\ a = -n
      /\ ~dneg => n >= 0 /\ a = n
      /\ a \in 0 .. D - 1
  <2>1. Negate(d, D) = IF d = 0 THEN 0 ELSE D - d
    BY <1>2, <1>3, NegateIs
  <2> QED
    BY <1>2, <1>3, <1>4, <2>1
<1>6. /\ sneg => v < 0 /\ b = -v
      /\ ~sneg => v > 0 /\ b = v
      /\ b \in 1 .. W - 1
  <2>1. Negate(s, W) = IF s = 0 THEN 0 ELSE W - s
    <3>1. s \in 0 .. W - 1
      BY <1>2, <1>3
    <3> QED
      BY <1>2, <3>1, NegateIs
  <2> QED
    BY <1>2, <1>3, <1>4, <2>1
<1> HIDE DEF n, v, dneg, sneg, a, b
<1>7. a = b * k + m /\ k \in Int /\ m \in 0 .. b - 1 /\ m \in Int
  <2>1. a \in Int /\ b \in Nat \ {0}
    BY <1>2, <1>5, <1>6
  <2>2. a = b * (a \div b) + (a % b) /\ a \div b \in Int /\ a % b \in 0 .. b - 1
    BY <2>1, DivisionIs
  <2> QED
    BY <2>1, <2>2
<1> HIDE DEF k, m
<1>8. k \in 0 .. a
  <2>1. k >= 0
    <3> SUFFICES ASSUME k <= -1 PROVE FALSE
      BY <1>7
    <3>1. b * (-1 - k) >= 0 /\ b * (-1 - k) = -b - b * k
      BY <1>2, <1>6, <1>7, SMT
    <3> DEFINE bk == b * k
    <3>2. -b - bk >= 0 /\ a = bk + m /\ bk \in Int
      BY <1>6, <1>7, <3>1
    <3> HIDE DEF bk
    <3> QED
      BY <1>2, <1>5, <1>6, <1>7, <3>2
  <2>2. b * k >= k /\ b * k \in Int
    BY <1>2, <1>6, <1>7, <2>1, SMT
  <2> DEFINE bk == b * k
  <2>3. bk >= k /\ bk \in Int /\ a = bk + m
    BY <1>7, <2>2
  <2> HIDE DEF bk
  <2> QED
    BY <1>2, <1>5, <1>6, <1>7, <2>1, <2>3
<1>9. Q \in Int /\ T \in Int
  BY <1>4, <1>7
<1>10. n = v * Q + T
  <2>1. (-b) * (-k) = b * k /\ (-b) * k = -(b * k) /\ b * (-k) = -(b * k) /\ b * k \in Int
    BY <1>2, <1>6, <1>7
  <2> DEFINE bk == b * k
  <2>2. v * Q = IF dneg THEN -bk ELSE bk
    <3>1. v = IF sneg THEN -b ELSE b
      BY <1>4, <1>6
    <3>2. CASE dneg /\ sneg
      <4>1. v = -b /\ Q = k
        BY <1>4, <3>1, <3>2
      <4> QED
        BY <2>1, <3>2, <4>1
    <3>3. CASE dneg /\ ~sneg
      <4>1. v = b /\ Q = -k
        BY <1>4, <3>1, <3>3
      <4> QED
        BY <2>1, <3>3, <4>1
    <3>4. CASE ~dneg /\ sneg
      <4>1. v = -b /\ Q = -k
        BY <1>4, <3>1, <3>4
      <4> QED
        BY <2>1, <3>4, <4>1
    <3>5. CASE ~dneg /\ ~sneg
      <4>1. v = b /\ Q = k
        BY <1>4, <3>1, <3>5
      <4> QED
        BY <2>1, <3>5, <4>1
    <3> QED
      BY <1>4, <3>2, <3>3, <3>4, <3>5
  <2>3. bk \in Int /\ a = bk + m
    BY <1>7, <2>1
  <2> DEFINE vQ == v * Q
  <2>4. vQ = IF dneg THEN -bk ELSE bk
    BY <2>2
  <2> HIDE DEF bk, vQ
  <2>5. n = vQ + T
    BY <1>4, <1>5, <1>7, <2>3, <2>4
  <2> QED
    BY <2>5 DEF vQ
<1>11. Residue(T, n, v)
  BY <1>2, <1>4, <1>5, <1>6, <1>7 DEF Residue
<1>12. r.data = Complement(Q, D) /\ r.residue = Complement(T, D)
  <2>1. k \in 0 .. D - 1 /\ m \in 0 .. D - 1
    BY <1>2, <1>5, <1>6, <1>7, <1>8
  <2>2. /\ Negate(k, D) = IF k = 0 THEN 0 ELSE D - k
        /\ Negate(m, D) = IF m = 0 THEN 0 ELSE D - m
    BY <1>2, <2>1, NegateIs
  <2> HIDE DEF r
  <2> QED
    BY <1>1, <1>2, <1>4, <2>1, <2>2 DEF Complement
<1>13. /\ Q <= (IF n < 0 THEN -n ELSE n) /\ -Q <= (IF n < 0 THEN -n ELSE n)
  BY <1>4, <1>5, <1>7, <1>8
<1>14. ASSUME n >= 0, v > 0 PROVE Q >= 0 /\ Q = n \div v
  <2>1. ~dneg /\ ~sneg /\ a = n /\ b = v
    BY <1>4, <1>5, <1>6, <1>14
  <2>2. Q = k
    BY <1>4, <2>1
  <2>3. Q >= 0
    BY <1>5, <1>8, <2>2
  <2> QED
    BY <2>1, <2>2, <2>3 DEF k
<1> QED
  BY <1>9, <1>10, <1>11, <1>12, <1>13, <1>14, Zenon DEF Rounds, n, v, r, D, W

\* Words are many bytes, and double words many words.
LEMMA Sizes ==
    ASSUME NEW wide \in BOOLEAN
    PROVE  \E half \in Nat \ {0, 1}, k \in Nat \ {0} :
              /\ Mod(wide) = 2 * half /\ Mod(wide) \div 2 = half
              /\ DWordMod = Mod(wide) * k
              /\ DWordMod >= 4 * Mod(wide) /\ DWordMod >= 4 * WordMod
              /\ WordMod >= Mod(wide) /\ WordMod >= 2 * ByteMod
<1>1. PICK b \in Nat \ {0, 1} : ByteMod = 2 * b
  BY Widths
<1>2. PICK w \in Nat \ {0, 1} : WordMod = 2 * w
  BY Widths
<1> DEFINE B == ByteMod
           W == WordMod
           D == DWordMod
           m == Mod(wide)
<1>3. W = B * B /\ D = W * W /\ B \in Nat /\ W \in Nat /\ B >= 4 /\ W >= 4
  BY <1>1, <1>2 DEF WordMod, DWordMod
<1>4. m = IF wide THEN W ELSE B
  BY DEF Mod
<1> HIDE DEF B, W, D, m
<1>5. W >= 4 * B /\ D >= 4 * W
  BY <1>3, SMT
<1>6. D = B * (B * W) /\ B * W \in Nat \ {0} /\ D = W * W
  <2>1. B * W >= 1 /\ B * W \in Nat
    BY <1>3, SMT
  <2>2. (B * B) * W = B * (B * W)
    BY <1>3, SMT
  <2> QED
    BY <1>3, <2>1, <2>2
<1>7. \E half \in Nat \ {0, 1} : m = 2 * half /\ m \div 2 = half
  BY ModIs DEF m
<1>8. \E k \in Nat \ {0} : D = m * k
  <2>1. W \in Nat \ {0}
    BY <1>3
  <2> QED
    BY <1>4, <1>6, <2>1
<1>9. D >= 4 * m /\ W >= m /\ W >= 2 * B
  BY <1>3, <1>4, <1>5
<1> QED
  BY <1>5, <1>7, <1>8, <1>9, Zenon DEF B, W, D, m

\* Numbers in two's complement stand for what they were, and leave what they left.
LEMMA ComplementIs ==
    ASSUME NEW wide \in BOOLEAN, NEW x \in Int, -DWordMod <= x, x < DWordMod
    PROVE  /\ Complement(x, DWordMod) \in 0 .. DWordMod - 1
           /\ Complement(x, DWordMod) % Mod(wide) = x % Mod(wide)
<1>1. PICK k \in Nat \ {0} : DWordMod = Mod(wide) * k
  BY Sizes
<1>2. Mod(wide) \in Nat \ {0} /\ DWordMod \in Nat \ {0}
  BY Widths DEF Mod
<1>3. (x + Mod(wide) * k) % Mod(wide) = x % Mod(wide)
  <2> DEFINE m == Mod(wide)
  <2>1. m \in Nat \ {0} /\ k \in Int
    BY <1>2
  <2> HIDE DEF m
  <2>2. (x + m * k) % m = x % m
    BY <2>1, SameResidue
  <2> QED
    BY <2>2 DEF m
<1> QED
  BY <1>1, <1>2, <1>3 DEF Complement

\* What a division does: q is the quotient, t the residue, and the operands are
\* those that are meant.
Divided(s, signed, wide) ==
    LET r == DivideWide(s, signed, wide)
        m == Mod(wide)
        dividend == IF wide THEN dx * WordMod + ax ELSE ax
        n == Meant(dividend, signed, m * m)
        v == Meant(s, signed, m)
    IN  \E q \in Int, t \in Int :
           /\ Rounds(n, v, q, t)
           /\ r.overflow <=> q \notin (IF signed THEN -(m \div 2) .. m \div 2 - 1 ELSE 0 .. m - 1)
           /\ r.ax = IF wide THEN q % m ELSE Wide(t, q)
           /\ r.dx = IF wide THEN t % m ELSE dx
           /\ q <= (IF n < 0 THEN -n ELSE n) /\ -q <= (IF n < 0 THEN -n ELSE n)
           /\ ~signed => q = dividend \div s
           /\ n \in Int /\ v \in Int

\* DIV and IDIV, in bytes and in words: the quotient and the residue where they fit.
LEMMA DivideWideIs ==
    ASSUME Machine, NEW wide \in BOOLEAN, NEW signed \in BOOLEAN, NEW s \in 1 .. Mod(wide) - 1
    PROVE  Divided(s, signed, wide)
<1> DEFINE D == DWordMod
           W == WordMod
           m == Mod(wide)
           dividend == IF wide THEN dx * W + ax ELSE ax
           n == Meant(dividend, signed, m * m)
           v == Meant(s, signed, m)
           d == IF wide THEN dividend
                ELSE IF signed /\ ax >= W \div 2 THEN ax + D - W ELSE ax
           divisor == IF ~wide /\ signed THEN SignExtend(s) ELSE s
           r == DivideWide(s, signed, wide)
           c == Divide(d, divisor, signed)
           tooLarge == IF signed THEN c.data >= m \div 2 /\ c.data < D - m \div 2
                       ELSE c.data >= m
<1>1. PICK half \in Nat \ {0, 1} :
         /\ m = 2 * half /\ m \div 2 = half
         /\ D >= 4 * m /\ D >= 4 * W /\ W >= m /\ W >= 2 * ByteMod
  BY Sizes
<1>2. PICK w \in Nat \ {0, 1} : W = 2 * w
  BY Widths
<1>3. PICK b \in Nat \ {0, 1} : ByteMod = 2 * b
  BY Widths
<1>4. /\ D \in Nat \ {0} /\ W \in Nat \ {0} /\ D = W * W /\ W = ByteMod * ByteMod
      /\ ax \in 0 .. W - 1 /\ dx \in 0 .. W - 1
  BY Widths DEF DWordMod, WordMod, Machine, Word
<1>5. r = [ax |-> IF wide THEN c.data % W ELSE Wide(c.residue, c.data),
           dx |-> IF wide THEN c.residue % W ELSE dx,
           overflow |-> tooLarge]
  <2>1. s # 0
    BY <1>1
  <2> QED
    BY <2>1, Zenon DEF DivideWide
<1>6. PICK g \in Nat : D = 2 * g /\ D \div 2 = g
  <2>1. D = 2 * (w * W) /\ w * W \in Nat
    BY <1>2, <1>4, SMT
  <2> DEFINE g == w * W
  <2>2. D = 2 * g /\ g \in Nat
    BY <2>1
  <2> HIDE DEF D, g
  <2> QED
    BY <2>2
<1>7. d \in 0 .. D - 1 /\ Meant(d, signed, D) = n /\ n \in Int
  <2>1. CASE wide
    <3> HIDE DEF W, D
    <3> DEFINE e == dx * W
    <3>1. e <= (W - 1) * W /\ e >= 0 /\ e \in Int /\ (W - 1) * W = W * W - W
      BY <1>4, SMT
    <3> DEFINE ww == W * W
    <3>2. ww \in Int /\ e <= ww - W /\ D = ww
      BY <1>4, <3>1
    <3>3. e \in Int /\ e >= 0
      BY <3>1
    <3> HIDE DEF e, ww
    <3>4. e + ax \in 0 .. D - 1
      BY <1>4, <3>2, <3>3
    <3>5. d = e + ax
      BY <2>1 DEF e
    <3>6. m * m = D
      BY <1>4, <2>1 DEF Mod, W
    <3>7. n = Meant(d, signed, D)
      BY <2>1, <3>6, Zenon
    <3>8. Meant(d, signed, D) \in Int
      <4>1. D \div 2 \in Int /\ d \in Int /\ D \in Int
        BY <1>4, <3>4, <3>5
      <4> HIDE DEF d
      <4> QED
        BY <4>1 DEF Meant, Signed
    <3> QED
      BY <3>4, <3>5, <3>7, <3>8
  <2>2. CASE ~wide
    <3>1. m * m = W /\ dividend = ax
      BY <1>4, <2>2 DEF Mod
    <3>3. W \div 2 = w
      BY <1>2
    <3>4. LET e == IF ax >= w THEN ax + D - W ELSE ax
          IN  e \in 0 .. D - 1 /\ Signed(e, D) = Signed(ax, W)
      <4> HIDE DEF D, W
      <4> QED
        BY <1>1, <1>2, <1>4, <1>6, <3>3 DEF Signed
    <3> HIDE DEF D, W
    <3>5. CASE signed
      <4>1. d = IF ax >= w THEN ax + D - W ELSE ax
        BY <2>2, <3>3, <3>5
      <4>2. Signed(ax, W) \in Int
        BY <1>2, <1>4, <3>3 DEF Signed
      <4>3. n = Signed(ax, W)
        BY <3>1, <3>5 DEF Meant
      <4> HIDE DEF d, n
      <4> QED
        BY <3>4, <3>5, <4>1, <4>2, <4>3 DEF Meant
    <3>6. CASE ~signed
      <4>1. d = ax /\ n = ax /\ Meant(d, signed, D) = ax
        BY <2>2, <3>1, <3>6 DEF Meant
      <4> QED
        BY <1>1, <1>4, <4>1
    <3> QED
      BY <3>5, <3>6
  <2> QED
    BY <2>1, <2>2
<1>8. divisor \in 1 .. W - 1 /\ Meant(divisor, signed, W) = v /\ v \in Int
  <2>1. v \in Int
    BY <1>1 DEF Meant, Signed
  <2>2. CASE ~wide /\ signed
    <3>1. m = ByteMod /\ half = b
      BY <1>1, <1>3, <2>2 DEF Mod
    <3>2. divisor = IF s >= half THEN s + W - m ELSE s
      BY <1>1, <1>3, <1>4, <2>2, <3>1 DEF SignExtend
    <3>3. LET e == IF s >= half THEN s + W - m ELSE s
          IN  e \in 0 .. W - 1 /\ Signed(e, W) = Signed(s, m)
      <4>1. W \div 2 = w /\ s \in 0 .. m - 1
        BY <1>1, <1>2
      <4> HIDE DEF W, m
      <4> QED
        BY <1>1, <1>2, <1>4, <4>1 DEF Signed
    <3>4. divisor # 0
      BY <1>1, <1>4, <3>2
    <3> HIDE DEF divisor
    <3> QED
      BY <2>1, <2>2, <3>2, <3>3, <3>4, <1>4 DEF Meant
  <2>3. CASE wide \/ ~signed
    <3>1. divisor = s
      BY <2>3
    <3>2. Meant(s, signed, W) = v
      BY <2>3 DEF Meant, Mod
    <3> QED
      BY <1>1, <1>4, <2>1, <3>1, <3>2
  <2> QED
    BY <2>2, <2>3
<1> HIDE DEF d, divisor, n, v
<1>9. PICK q \in Int, t \in Int :
         /\ Rounds(n, v, q, t)
         /\ c.data = Complement(q, D) /\ c.residue = Complement(t, D)
         /\ q <= (IF n < 0 THEN -n ELSE n) /\ -q <= (IF n < 0 THEN -n ELSE n)
         /\ n >= 0 /\ v > 0 => q >= 0 /\ q = n \div v
  BY <1>7, <1>8, DivideIs
<1> HIDE DEF c
<1>10. /\ signed => n >= -g /\ n <= g
       /\ ~signed => n \in 0 .. D - 1 /\ n = dividend /\ v = s
  <2>1. ~signed => n = dividend /\ v = s
    BY DEF n, v, Meant
  <2>2. ~signed => n \in 0 .. D - 1
    BY <1>7 DEF Meant
  <2>3. signed => n = Signed(d, D)
    BY <1>7 DEF Meant
  <2>4. ASSUME signed PROVE n >= -g /\ n <= g
    <3> HIDE DEF D, dividend
    <3>1. n = IF d >= g THEN d - D ELSE d
      BY <1>6, <2>3, <2>4 DEF Signed
    <3> QED
      BY <1>6, <1>7, <3>1
  <2> QED
    BY <2>1, <2>2, <2>4
<1>11. -D <= q /\ q < D /\ (~signed => q >= 0 /\ q = dividend \div s)
  <2>1. ~signed => n >= 0 /\ v > 0
    BY <1>1, <1>10
  <2>2. ~signed => q >= 0 /\ q = dividend \div s
    BY <1>9, <1>10, <2>1
  <2> HIDE DEF D, dividend
  <2>3. -D <= q /\ q < D
    <3>1. D \in Int /\ D > 0 /\ D = 2 * g /\ g \in Int
      BY <1>4, <1>6
    <3>2. n < D /\ -n < D
      BY <1>7, <1>10, <3>1
    <3> QED
      BY <1>7, <1>9, <3>1, <3>2
  <2> QED
    BY <2>2, <2>3
<1>12. -D <= t /\ t < D
  <2>1. v >= -W /\ v <= W
    BY <1>1, <1>4 DEF v, Meant, Signed
  <2>2. t < (IF v < 0 THEN -v ELSE v) /\ -t < (IF v < 0 THEN -v ELSE v)
    BY <1>7, <1>8, <1>9 DEF Rounds, Residue
  <2> HIDE DEF D, W
  <2> QED
    BY <1>1, <1>4, <1>8, <2>1, <2>2
<1>13. tooLarge <=> q \notin (IF signed THEN -(m \div 2) .. m \div 2 - 1 ELSE 0 .. m - 1)
  <2>1. c.data = IF q < 0 THEN q + D ELSE q
    BY <1>9 DEF Complement
  <2> HIDE DEF D, W, dividend
  <2>2. CASE signed
    <3>1. tooLarge <=> c.data >= half /\ c.data < D - half
      BY <1>1, <2>2
    <3>2. q <= D \div 2 /\ -q <= D \div 2
      <4>1. n >= -g /\ n <= g /\ g \in Int
        BY <1>6, <1>10, <2>2
      <4>2. q <= g /\ -q <= g
        BY <1>7, <1>9, <4>1
      <4> QED
        BY <1>6, <4>2
    <3> HIDE DEF tooLarge
    <3>3. tooLarge <=> q \notin -half .. half - 1
      BY <1>1, <1>4, <1>10, <2>1, <3>1, <3>2
    <3> QED
      BY <1>1, <2>2, <3>3
  <2>3. CASE ~signed
    BY <1>1, <1>11, <2>1, <2>3
  <2> QED
    BY <2>2, <2>3
<1>14. /\ c.data \in Int /\ c.residue \in Int
       /\ c.data % m = q % m /\ c.residue % m = t % m
  <2>1. /\ Complement(q, D) \in 0 .. D - 1 /\ Complement(q, D) % m = q % m
        /\ Complement(t, D) \in 0 .. D - 1 /\ Complement(t, D) % m = t % m
    BY <1>11, <1>12, ComplementIs
  <2> HIDE DEF D, m
  <2> QED
    BY <1>4, <1>9, <2>1
<1>15. r.ax = (IF wide THEN q % m ELSE Wide(t, q)) /\ r.dx = (IF wide THEN t % m ELSE dx)
  <2>1. CASE wide
    BY <1>5, <1>14, <2>1 DEF Mod
  <2>2. CASE ~wide
    <3>1. m = ByteMod
      BY <2>2 DEF Mod
    <3>2. Wide(c.residue, c.data) = Wide(t, q)
      BY <1>14, <3>1 DEF Wide
    <3> QED
      BY <1>5, <2>2, <3>2
  <2> QED
    BY <2>1, <2>2
<1>16. r.overflow <=> tooLarge
  <2> HIDE DEF tooLarge, r
  <2>1. r.overflow = tooLarge
    BY <1>5
  <2> QED
    BY <2>1, Zenon
<1> HIDE DEF r, tooLarge
<1>17. r.overflow <=> q \notin (IF signed THEN -(m \div 2) .. m \div 2 - 1 ELSE 0 .. m - 1)
  BY <1>13, <1>16, Zenon
<1> QED
  BY <1>7, <1>8, <1>9, <1>11, <1>15, <1>17, Zenon DEF n, v, r, m, D, W, dividend, Divided

LEMMA DivideStepIs ==
    ASSUME Begun, Machine, Moves, DivideStep
    PROVE  Machine'
<1> DEFINE s == Inst.src
           signed == Inst.op = "idiv"
           wide == WordSize
           r == DivideWide(s, signed, wide)
           m == Mod(wide)
<1>1. s \in 0 .. m - 1 /\ signed \in BOOLEAN /\ wide \in BOOLEAN /\ m \in Nat \ {0}
  BY InstIs
<1>2. ~Stays
  BY DEF Stays, Moves, Begun
<1>3. ~r.overflow /\ Leaves(r.ax, r.dx, flags)
  BY <1>2, Zenon DEF DivideStep, DivideOverflow, Stays
<1> HIDE DEF s, signed, wide
<1>4. s # 0
  <2> SUFFICES ASSUME s = 0 PROVE FALSE
    OBVIOUS
  <2>1. r = [ax |-> ax, dx |-> dx, overflow |-> TRUE]
    BY Zenon DEF DivideWide
  <2>2. r.overflow
    BY <2>1
  <2> QED
    BY <1>3, <2>2
<1>5. s \in 1 .. m - 1
  BY <1>1, <1>4
<1>6. \E q \in Int, t \in Int : /\ r.ax = IF wide THEN q % m ELSE Wide(t, q)
                                /\ r.dx = IF wide THEN t % m ELSE dx
  BY <1>1, <1>5, DivideWideIs DEF Divided
<1>7. ax' = r.ax /\ dx' = r.dx /\ flags' = flags
  BY <1>3 DEF Leaves
<1> HIDE DEF r
<1>8. PICK q \in Int, t \in Int : /\ ax' = IF wide THEN q % m ELSE Wide(t, q)
                                 /\ dx' = IF wide THEN t % m ELSE dx
  BY <1>6, <1>7
<1>9. wide => m = WordMod
  BY DEF Mod
<1> HIDE DEF m
<1>10. q % m \in 0 .. m - 1 /\ t % m \in 0 .. m - 1 /\ Wide(t, q) \in Word
  BY <1>1, DivisionIs, WideIs
<1> QED
  BY <1>1, <1>7, <1>8, <1>9, <1>10 DEF Machine, Word

\* Registers and flags keep their types.
LEMMA MachineStep == Begun /\ Machine /\ [Next]_vars => Machine'
<1> SUFFICES ASSUME Begun, Machine, [Next]_vars PROVE Machine'
  OBVIOUS
<1>1. CASE Stays
  BY <1>1 DEF Stays, Machine
<1>2. CASE Moves
  <2>1. \/ AluStep \/ IncDecStep \/ NegStep \/ NotStep \/ RotateBy \/ DecimalStep
        \/ Aam \/ Aad \/ Extend \/ MultiplyStep \/ DivideStep
    <3>1. ~Done /\ ~UNCHANGED vars
      BY <1>2 DEF Done, vars, Moves, Begun
    <3> QED
      BY <3>1 DEF Next
  <2> QED
    BY <1>2, <2>1, AluStepIs, IncDecStepIs, NegStepIs, NotStepIs, RotateByIs, DecimalStepIs,
       AsciiStepsAre, ExtendIs, MultiplyStepIs, DivideStepIs, Zenon
<1> QED
  BY <1>1, <1>2, StepIs

LEMMA MachineInvariance == Spec => []Machine
<1>1. Init => Machine
  BY AluAssumption DEF Init, Machine, Word, FlagSet
<1> QED
  BY <1>1, MachineStep, BegunInvariance, PTL DEF Spec

-----------------------------------------------------------------------------
(* ZF and SF.                                                                *)

LEMMA ResultFlagsStep == Begun /\ Machine /\ ResultFlags /\ [Next]_vars => ResultFlags'
<1> SUFFICES ASSUME Begun, Machine, ResultFlags, [Next]_vars PROVE ResultFlags'
  OBVIOUS
<1>1. CASE Stays
  BY <1>1 DEF Stays, ResultFlags, Get
<1>2. CASE ~Stays
  <2> DEFINE last == Inst
             left == Register(last.reg, ax', dx')
             describes == \/ last.op \in (AluOps \ {"cmp"}) \cup {"inc", "dec", "neg", "daa", "das"}
                          \/ last.op \in {"shl", "shr", "sar"} /\ last.src > 0
  <2>1. Moves /\ code' = code /\ pc' = pc + 1
    BY <1>2, StepIs DEF Moves
  <2>2. code'[pc'] = last /\ Inst.op = code[pc + 1].op
    BY <2>1 DEF Inst
  <2>3. ASSUME describes
        PROVE  flags'.zf = (left = 0) /\ flags'.sf = (Signed(left, Mod(IsWide(last.reg))) < 0)
    <3>1. CASE last.op \in AluOps \ {"cmp"}
      <4>1. AluStep /\ Shown
        BY <1>2, <2>1, <2>2, <3>1, StepIs, AluStepIs
      <4> QED
        BY <2>1, <4>1, InstIs, Zenon DEF Shown
    <3>2. CASE last.op \in {"inc", "dec"}
      <4>1. IncDecStep /\ Shown
        BY <1>2, <2>1, <2>2, <3>2, StepIs, IncDecStepIs
      <4> QED
        BY <2>1, <4>1, InstIs, Zenon DEF Shown
    <3>3. CASE last.op = "neg"
      <4>1. NegStep /\ Shown
        BY <1>2, <2>1, <2>2, <3>3, StepIs, NegStepIs
      <4> QED
        BY <2>1, <4>1, InstIs, Zenon DEF Shown
    <3>4. CASE last.op \in {"daa", "das"}
      <4>1. DecimalStep /\ Shown
        BY <1>2, <2>1, <2>2, <3>4, StepIs, DecimalStepIs
      <4> QED
        BY <2>1, <4>1, InstIs, Zenon DEF Shown
    <3>5. CASE last.op \in {"shl", "shr", "sar"} /\ last.src > 0
      <4>1. RotateBy /\ Shown
        BY <1>2, <2>1, <2>2, <3>5, StepIs, RotateByIs DEF RotateOps
      <4> QED
        BY <2>1, <4>1, InstIs, Zenon DEF Shown
    <3> QED
      BY <2>3, <3>1, <3>2, <3>3, <3>4, <3>5
  <2>4. ASSUME last.op \in {"aam", "aad"}
        PROVE  flags'.zf = (last.src = 0) /\ ~flags'.sf
    <3>1. Aam \/ Aad
      BY <1>2, <2>1, <2>2, <2>4, StepIs
    <3> QED
      BY <2>1, <3>1, AsciiStepsAre
  <2> QED
    BY <2>2, <2>3, <2>4, Zenon DEF ResultFlags, Get
<1> QED
  BY <1>1, <1>2

\* ZF and SF describe what the last instruction that sets them left in its register.
THEOREM FlagsDescribe == Spec => []ResultFlags
<1>1. Init => ResultFlags
  BY DEF Init, ResultFlags
<1> QED
  BY <1>1, ResultFlagsStep, BegunInvariance, MachineInvariance, PTL DEF Spec

-----------------------------------------------------------------------------
(* Words made of bytes.                                                      *)

\* A word of two sums: what the low one carries is added to the high one.
LEMMA WideSum ==
    ASSUME NEW hi \in Int, NEW lo \in Int
    PROVE  Wide(hi + (lo \div ByteMod), lo) = (ByteMod * hi + lo) % WordMod
<1> DEFINE b == ByteMod
           q == lo \div b
           r == lo % b
           top == hi + q
           Q == top \div b
           R == top % b
           x == b * hi + lo
           y == b * R + r
<1>1. b \in Nat \ {0} /\ WordMod = b * b
  BY Widths DEF WordMod
<1> HIDE DEF b
<1>2. lo = b * q + r /\ q \in Int /\ r \in 0 .. b - 1
  BY <1>1, DivisionIs
<1> HIDE DEF q, r
<1>3. top \in Int
  BY <1>2
<1>4. top = b * Q + R /\ Q \in Int /\ R \in 0 .. b - 1
  <2> HIDE DEF top
  <2> QED
    BY <1>1, <1>3, DivisionIs
<1> HIDE DEF Q, R
<1>5. b * top = b * hi + b * q
  BY <1>1, <1>2
<1>6. b * top = (b * b) * Q + b * R
  <2> HIDE DEF top
  <2>1. b * (b * Q + R) = (b * b) * Q + b * R
    BY <1>1, <1>4, SMT
  <2> QED
    BY <1>4, <2>1
<1>7. y \in Int /\ y >= 0 /\ y < b * b
  <2>1. b * R <= b * (b - 1) /\ b * R >= 0 /\ b * R \in Int /\ b * (b - 1) = b * b - b
    BY <1>1, <1>4, SMT
  <2> DEFINE bR == b * R
             bb == b * b
  <2>2. bR \in Int /\ bR >= 0 /\ bR <= bb - b /\ bb \in Int
    BY <1>1, <2>1
  <2> HIDE DEF bR, bb
  <2>3. bR + r \in Int /\ bR + r >= 0 /\ bR + r < bb
    BY <1>1, <1>2, <2>2
  <2> QED
    BY <2>3 DEF bR, bb
<1> DEFINE w == b * b
<1>8. w \in Nat \ {0} /\ y \in 0 .. w - 1
  <2>1. w \in Nat \ {0}
    BY <1>1, SMT
  <2> HIDE DEF w, y
  <2>2. y < w
    BY <1>7 DEF w
  <2> QED
    BY <1>7, <2>1, <2>2
<1>9. x = w * Q + y
  <2> DEFINE bh == b * hi
             bq == b * q
             bR == b * R
             wQ == w * Q
             bt == b * top
  <2>1. /\ bh \in Int /\ bq \in Int /\ bR \in Int /\ wQ \in Int
        /\ bt = bh + bq /\ bt = wQ + bR /\ lo = bq + r
        /\ x = bh + lo /\ y = bR + r
    BY <1>1, <1>2, <1>4, <1>5, <1>6, <1>8
  <2> HIDE DEF bh, bq, bR, wQ, bt, x, y
  <2>2. x = wQ + y
    BY <1>2, <2>1
  <2> QED
    BY <2>2 DEF wQ
<1>10. x \in Int
  BY <1>1
<1> HIDE DEF w, x, y
<1>11. x % w = y
  BY <1>4, <1>8, <1>9, <1>10, DivisionUnique
<1>12. Wide(top, lo) = y
  <2>1. Wide(top, lo) = R * b + r
    BY DEF Wide, R, r, b
  <2> QED
    BY <1>1, <1>2, <1>4, <2>1 DEF y
<1> QED
  BY <1>1, <1>11, <1>12 DEF w, x, q, b

\* Words are ordered as their high bytes are, then as their low bytes are.
LEMMA WordOrder ==
    ASSUME NEW b \in Nat \ {0}, NEW p \in Int, NEW q \in Int,
           NEW r \in 0 .. b - 1, NEW s \in 0 .. b - 1
    PROVE  b * p + r < b * q + s <=> p < q \/ (p = q /\ r < s)
<1> DEFINE bp == b * p
           bq == b * q
<1>1. bp \in Int /\ bq \in Int
  OBVIOUS
<1>2. p < q => bp <= bq - b
  <2> SUFFICES ASSUME p < q PROVE bp <= bq - b
    OBVIOUS
  <2>1. b * (q - 1 - p) >= 0 /\ b * (q - 1 - p) = b * q - b - b * p
    BY SMT
  <2> HIDE DEF bp, bq
  <2>2. bq - b - bp >= 0
    BY <2>1 DEF bp, bq
  <2> QED
    BY <1>1, <2>2
<1>3. q < p => bq <= bp - b
  <2> SUFFICES ASSUME q < p PROVE bq <= bp - b
    OBVIOUS
  <2>1. b * (p - 1 - q) >= 0 /\ b * (p - 1 - q) = b * p - b - b * q
    BY SMT
  <2> HIDE DEF bp, bq
  <2>2. bp - b - bq >= 0
    BY <2>1 DEF bp, bq
  <2> QED
    BY <1>1, <2>2
<1>4. p = q => bp = bq
  OBVIOUS
<1> HIDE DEF bp, bq
<1>5. bp + r < bq + s <=> p < q \/ (p = q /\ r < s)
  BY <1>1, <1>2, <1>3, <1>4
<1> QED
  BY <1>5 DEF bp, bq

\* The sign of a word is that of its high byte.
LEMMA SignedWord ==
    ASSUME NEW hi \in 0 .. ByteMod - 1, NEW lo \in 0 .. ByteMod - 1
    PROVE  /\ Signed(hi, ByteMod) \in Int
           /\ Signed(ByteMod * hi + lo, WordMod) = ByteMod * Signed(hi, ByteMod) + lo
<1> DEFINE b == ByteMod
           x == b * hi + lo
<1>1. PICK h \in Nat \ {0, 1} : b = 2 * h
  BY Widths
<1>2. WordMod = b * b
  BY DEF WordMod
<1> HIDE DEF b
<1>3. hi \in 0 .. b - 1 /\ lo \in 0 .. b - 1 /\ hi \in Int /\ lo \in Int
  BY <1>1 DEF b
<1>4. b * b = 2 * (b * h) /\ b * h \in Nat /\ (b * b) \div 2 = b * h
  <2>1. b * b = 2 * (b * h) /\ b * h \in Nat
    BY <1>1, SMT
  <2> DEFINE g == b * h
             w == b * b
  <2>2. w = 2 * g /\ g \in Nat
    BY <2>1
  <2> HIDE DEF g, w
  <2>3. w \div 2 = g
    BY <2>2
  <2> QED
    BY <2>1, <2>3 DEF w, g
<1>5. x < b * h + 0 <=> hi < h \/ (hi = h /\ lo < 0)
  <2>1. b \in Nat \ {0} /\ 0 \in 0 .. b - 1 /\ h \in Int
    BY <1>1
  <2> QED
    BY <1>3, <2>1, WordOrder
<1>6. b \div 2 = h
  BY <1>1
<1>7. Signed(hi, b) = IF hi >= h THEN hi - b ELSE hi
  BY <1>6 DEF Signed
<1>8. b * (hi - b) = b * hi - b * b
  BY <1>1, <1>3
<1>9. Signed(x, b * b) = b * Signed(hi, b) + lo
  <2> DEFINE bh == b * hi
             g == b * h
             w == b * b
  <2>1. bh \in Int /\ g \in Int /\ w \in Int /\ w \div 2 = g /\ x = bh + lo /\ x \in Int
    BY <1>1, <1>3, <1>4
  <2>2. x < g <=> hi < h
    BY <1>1, <1>3, <1>5, <2>1
  <2>3. b * (hi - b) = bh - w
    BY <1>8
  <2> HIDE DEF bh, g, w, x
  <2>4. Signed(x, w) = IF x >= g THEN x - w ELSE x
    BY <2>1 DEF Signed
  <2>5. CASE hi >= h
    <3>1. Signed(x, w) = bh + lo - w /\ Signed(hi, b) = hi - b
      BY <1>1, <1>3, <1>7, <2>1, <2>2, <2>4, <2>5
    <3> DEFINE c == b * (hi - b)
    <3>2. c = bh - w
      BY <2>3
    <3> HIDE DEF c
    <3>3. Signed(x, w) = c + lo
      BY <1>3, <2>1, <3>1, <3>2
    <3> QED
      BY <3>1, <3>3 DEF c, w
  <2>6. CASE hi < h
    <3>1. Signed(x, w) = bh + lo /\ Signed(hi, b) = hi
      BY <1>1, <1>3, <1>7, <2>1, <2>2, <2>4, <2>6
    <3> QED
      BY <3>1 DEF bh, w
  <2> QED
    BY <1>1, <1>3, <2>5, <2>6
<1>10. Signed(hi, b) \in Int
  BY <1>1, <1>3, <1>7
<1> QED
  BY <1>2, <1>9, <1>10 DEF x, b

\* What the instructions of byte programs leave in AX and in the carry.
LEMMA ByteSteps ==
    ASSUME Begun, Machine, [Next]_vars, ~Stays
    PROVE  LET c == code[pc + 1]
               s == c.src
               t == s + Carry(flags)
           IN
           /\ c.op = "add" /\ c.reg = "al" =>
                ax' = Wide(ah, al + s) /\ flags'.cf = Bit(al + s, ByteMod)
           /\ c.op = "sub" /\ c.reg = "al" =>
                ax' = Wide(ah, al - s) /\ flags'.cf = Bit(al - s, ByteMod)
           /\ c.op = "adc" /\ c.reg = "ah" =>
                ax' = Wide(ah + t, al) /\ flags'.cf = Bit(ah + t, ByteMod)
           /\ c.op = "sbb" /\ c.reg = "ah" =>
                /\ ax' = Wide(ah - t, al)
                /\ flags' = Sub(flags, ah, t, FALSE).flags
           /\ c.op = "neg" /\ c.reg = "al" =>
                ax' = Wide(ah, 0 - al) /\ flags'.cf = Bit(0 - al, ByteMod)
           /\ c.op = "neg" /\ c.reg = "ah" => ax' = Wide(0 - ah, al)
           /\ c.op \in {"inc", "dec"} /\ c.reg = "dx" => ax' = ax /\ flags'.cf = flags.cf
           /\ c.op = "cmp" => ax' = ax
<1> DEFINE c == code[pc + 1]
           s == c.src
           t == s + Carry(flags)
<1>1. Moves /\ Inst = c
  BY StepIs DEF Inst
<1>2. /\ c.op \in AluOps => AluStep
      /\ c.op \in {"inc", "dec"} => IncDecStep
      /\ c.op = "neg" => NegStep
  BY StepIs
<1>3. flags \in FlagSet
  BY DEF Machine
<1>4. /\ Register("al", ax, dx) = al /\ Register("ah", ax, dx) = ah
      /\ "al" \notin WordRegs /\ "ah" \notin WordRegs
  BY DEF Register, al, ah, WordRegs
<1>5. Mod(FALSE) = ByteMod
  BY DEF Mod
<1>6. ASSUME c.reg \in {"al", "ah"}
      PROVE  WordSize = FALSE /\ Get(c.reg) = (IF c.reg = "al" THEN al ELSE ah)
  BY <1>1, <1>4, <1>6 DEF WordSize, Get
<1>7. \A d, x : /\ Add(flags, d, x, FALSE).data = d + x
                /\ Add(flags, d, x, FALSE).flags.cf = Bit(d + x, ByteMod)
                /\ Sub(flags, d, x, FALSE).data = d - x
                /\ Sub(flags, d, x, FALSE).flags.cf = Bit(d - x, ByteMod)
  <2> DEFINE no == FALSE
  <2>1. Mod(no) = ByteMod
    BY <1>5
  <2> HIDE DEF no
  <2>2. \A d, x : /\ Add(flags, d, x, no).data = d + x
                  /\ Add(flags, d, x, no).flags.cf = Bit(d + x, Mod(no))
                  /\ Sub(flags, d, x, no).data = d - x
                  /\ Sub(flags, d, x, no).flags.cf = Bit(d - x, Mod(no))
    BY <1>3, SumIs, DifferenceIs
  <2> QED
    BY <2>1, <2>2, Zenon DEF no
<1>8. \A r : SetReg(r) => /\ c.reg = "al" => ax' = Wide(ah, r.data)
                          /\ c.reg = "ah" => ax' = Wide(r.data, al)
                          /\ c.reg = "dx" => ax' = ax
                          /\ flags' = r.flags
  BY <1>1 DEF SetReg, Leaves
<1>9. /\ ALUOperation("add", flags, Get(c.reg), s, WordSize) = Add(flags, Get(c.reg), s, WordSize)
      /\ ALUOperation("sub", flags, Get(c.reg), s, WordSize) = Sub(flags, Get(c.reg), s, WordSize)
      /\ ALUOperation("adc", flags, Get(c.reg), s, WordSize) = Add(flags, Get(c.reg), t, WordSize)
      /\ ALUOperation("sbb", flags, Get(c.reg), s, WordSize) = Sub(flags, Get(c.reg), t, WordSize)
  BY DEF ALUOperation
<1>10. "add" \in AluOps /\ "sub" \in AluOps /\ "adc" \in AluOps /\ "sbb" \in AluOps /\ "cmp" \in AluOps
  BY DEF AluOps
<1>11. ASSUME c.op \in {"add", "sub", "adc", "sbb"}
       PROVE  SetReg(ALUOperation(c.op, flags, Get(c.reg), s, WordSize))
  <2>1. AluStep /\ c.op # "cmp"
    BY <1>2, <1>10, <1>11
  <2> QED
    BY <1>1, <2>1, Zenon DEF AluStep
<1> HIDE DEF c, t
<1>12. ASSUME c.op = "add", c.reg = "al"
       PROVE  ax' = Wide(ah, al + s) /\ flags'.cf = Bit(al + s, ByteMod)
  <2>1. SetReg(Add(flags, al, s, FALSE))
    BY <1>6, <1>9, <1>11, <1>12
  <2>2. c.reg = "al"
    BY <1>12
  <2> QED
    BY <1>7, <1>8, <2>1, <2>2
<1>13. ASSUME c.op = "sub", c.reg = "al"
       PROVE  ax' = Wide(ah, al - s) /\ flags'.cf = Bit(al - s, ByteMod)
  <2>1. SetReg(Sub(flags, al, s, FALSE))
    BY <1>6, <1>9, <1>11, <1>13
  <2> DEFINE r == Sub(flags, al, s, FALSE)
  <2>2. r.data = al - s /\ r.flags.cf = Bit(al - s, ByteMod)
    BY <1>7, Zenon
  <2> HIDE DEF r
  <2> QED
    BY <1>8, <1>13, <2>1, <2>2, Zenon DEF r
<1>14. ASSUME c.op = "adc", c.reg = "ah"
       PROVE  ax' = Wide(ah + t, al) /\ flags'.cf = Bit(ah + t, ByteMod)
  <2>1. SetReg(Add(flags, ah, t, FALSE))
    BY <1>6, <1>9, <1>11, <1>14
  <2> QED
    BY <1>7, <1>8, <1>14, <2>1
<1>15. ASSUME c.op = "sbb", c.reg = "ah"
       PROVE  ax' = Wide(ah - t, al) /\ flags' = Sub(flags, ah, t, FALSE).flags
  <2>1. SetReg(Sub(flags, ah, t, FALSE))
    BY <1>6, <1>9, <1>11, <1>15
  <2> DEFINE r == Sub(flags, ah, t, FALSE)
  <2>2. r.data = ah - t /\ r.flags.cf = Bit(ah - t, ByteMod)
    BY <1>7, Zenon
  <2> HIDE DEF r
  <2> QED
    BY <1>8, <1>15, <2>1, <2>2, Zenon DEF r
<1>16. ASSUME c.op = "neg", c.reg = "al"
       PROVE  ax' = Wide(ah, 0 - al) /\ flags'.cf = Bit(0 - al, ByteMod)
  <2>1. SetReg(Sub(flags, 0, al, FALSE))
    BY <1>1, <1>2, <1>6, <1>16 DEF NegStep
  <2> DEFINE r == Sub(flags, 0, al, FALSE)
  <2>2. r.data = 0 - al /\ r.flags.cf = Bit(0 - al, ByteMod)
    BY <1>7, Zenon
  <2> HIDE DEF r
  <2> QED
    BY <1>8, <1>16, <2>1, <2>2, Zenon DEF r
<1>17. ASSUME c.op = "neg", c.reg = "ah"
       PROVE  ax' = Wide(0 - ah, al)
  <2>1. SetReg(Sub(flags, 0, ah, FALSE))
    BY <1>1, <1>2, <1>6, <1>17 DEF NegStep
  <2> DEFINE r == Sub(flags, 0, ah, FALSE)
  <2>2. r.data = 0 - ah /\ r.flags.cf = Bit(0 - ah, ByteMod)
    BY <1>7, Zenon
  <2> HIDE DEF r
  <2> QED
    BY <1>8, <1>17, <2>1, <2>2, Zenon DEF r
<1>18. ASSUME c.op \in {"inc", "dec"}, c.reg = "dx"
       PROVE  ax' = ax /\ flags'.cf = flags.cf
  <2> DEFINE d == Get(c.reg)
             r == IncDec(flags, d, c.op = "dec", WordSize)
  <2>1. d \in Int /\ WordSize \in BOOLEAN /\ (c.op = "dec") \in BOOLEAN
    BY <1>1, InstIs
  <2>2. r.flags.cf = flags.cf
    <3> HIDE DEF d
    <3> QED
      BY <1>3, <2>1, IncDecIs
  <2>3. SetReg(r)
    BY <1>1, <1>2, <1>18 DEF IncDecStep
  <2> HIDE DEF r
  <2> QED
    BY <1>8, <1>18, <2>2, <2>3
<1>19. ASSUME c.op = "cmp"
       PROVE  ax' = ax
  BY <1>1, <1>2, <1>10, <1>19 DEF AluStep, Leaves
<1> QED
  BY <1>12, <1>13, <1>14, <1>15, <1>16, <1>17, <1>18, <1>19, Zenon DEF c, s, t

\* The carry of a sum or difference of bytes is what it carries to the next.
LEMMA CarryIs ==
    ASSUME NEW x \in Int, -ByteMod <= x, x < 2 * ByteMod
    PROVE  /\ Bit(x, ByteMod) \in BOOLEAN
           /\ Bit(x, ByteMod) <=> x < 0 \/ x >= ByteMod
           /\ x \div ByteMod = IF x < 0 THEN -1 ELSE IF x >= ByteMod THEN 1 ELSE 0
<1> DEFINE b == ByteMod
<1>1. b \in Nat \ {0} /\ -b <= x /\ x < 2 * b
  BY Widths
<1>2. Bit(x, b) \in BOOLEAN
  BY DEF Bit
<1> HIDE DEF b
<1>3. Bit(x, b) <=> x < 0 \/ x >= b
  <2>1. -(2 * b) <= x /\ x < 4 * b
    BY <1>1
  <2>2. Bit(x, b) <=> x \in (-b) .. -1 \/ x \in b .. 2 * b - 1 \/ x >= 3 * b
    BY <1>1, <2>1, BitNear
  <2> QED
    BY <1>1, <2>2
<1>4. \A q \in {-1, 0, 1}, y \in 0 .. b - 1 : x = b * q + y => x \div b = q
  BY <1>1, DivisionUnique
<1>5. x \div b = IF x < 0 THEN -1 ELSE IF x >= b THEN 1 ELSE 0
  <2>1. CASE x < 0
    <3>1. x + b \in 0 .. b - 1 /\ x = b * (-1) + (x + b)
      BY <1>1, <2>1
    <3> QED
      BY <1>4, <2>1, <3>1
  <2>2. CASE 0 <= x /\ x < b
    <3>1. x \in 0 .. b - 1 /\ x = b * 0 + x
      BY <1>1, <2>2
    <3> QED
      BY <1>1, <1>4, <2>2, <3>1
  <2>3. CASE b <= x
    <3>1. x - b \in 0 .. b - 1 /\ x = b * 1 + (x - b)
      BY <1>1, <2>3
    <3> QED
      BY <1>1, <1>4, <2>3, <3>1
  <2> QED
    BY <1>1, <2>1, <2>2, <2>3
<1> QED
  BY <1>2, <1>3, <1>5 DEF b

\* SBB compares like a comparison with one more, but for the exception.
LEMMA BorrowCompares ==
    ASSUME NEW f \in FlagSet, NEW d \in 0 .. ByteMod - 1, NEW s \in 0 .. ByteMod - 1,
           NEW c \in {0, 1}
    PROVE  LET g == Sub(f, d, s + c, FALSE).flags
               less == Signed(d, ByteMod) < Signed(s, ByteMod) + c
           IN  g.sf # g.of <=> (less # (c = 1 /\ s = ByteMod \div 2 - 1))
<1> DEFINE b == ByteMod
           no == FALSE
           y == s + c
           x == d - y
           g == Sub(f, d, y, no).flags
           less == Signed(d, b) < Signed(s, b) + c
           hit == c = 1 /\ s = b \div 2 - 1
<1>1. PICK h \in Nat \ {0, 1} : b = 2 * h
  BY Widths
<1>2. Mod(no) = b /\ no \in BOOLEAN
  BY DEF Mod
<1> HIDE DEF b, no
<1>3. d \in 0 .. 2 * h - 1 /\ s \in 0 .. 2 * h - 1 /\ b \div 2 = h
  BY <1>1 DEF b
<1>4. /\ g \in FlagSet /\ g.sf = Top(x, no) /\ g.of = OFSub(x, d, y, no)
  BY DifferenceIs
<1>5. /\ Top(x, no) <=> x \in (-h) .. -1 \/ x \in h .. 2 * h - 1
      /\ Top(d, no) <=> d >= h
      /\ Top(y, no) <=> y \in h .. 2 * h - 1
      /\ Top(x, no) \in BOOLEAN /\ Top(d, no) \in BOOLEAN /\ Top(y, no) \in BOOLEAN
  <2>1. h \in Nat \ {0} /\ Mod(no) = 2 * h
    BY <1>1, <1>2
  <2>2. \A z \in Int : Top(z, no) \in BOOLEAN
    BY DEF Top, Bit
  <2>3. \A z \in Int : -(2 * h) <= z /\ z < 4 * h
          => (Top(z, no) <=> z \in (-h) .. -1 \/ z \in h .. 2 * h - 1 \/ z >= 3 * h)
    BY <1>2, <2>1, SignIs
  <2> HIDE DEF x, y
  <2>4. x \in Int /\ y \in Int /\ d \in Int /\ -(2 * h) <= x /\ x < 2 * h /\ y <= 2 * h /\ y >= 0
    BY <1>1, <1>3 DEF x, y
  <2>5. /\ Top(x, no) <=> x \in (-h) .. -1 \/ x \in h .. 2 * h - 1
        /\ Top(d, no) <=> d >= h
        /\ Top(y, no) <=> y \in h .. 2 * h - 1
    BY <1>1, <1>3, <2>3, <2>4
  <2> QED
    BY <2>2, <2>4, <2>5
<1>6. g.of = (Top(d, no) # Top(y, no) /\ Top(x, no) # Top(d, no))
  BY <1>4, Zenon DEF OFSub
<1> HIDE DEF g
<1>7. g.sf # g.of <=> \/ (Top(d, no) <=> Top(y, no)) /\ Top(x, no)
                      \/ Top(d, no) /\ ~Top(y, no)
  BY <1>4, <1>5, <1>6
<1>8. /\ Signed(d, b) = IF d >= h THEN d - 2 * h ELSE d
      /\ Signed(s, b) = IF s >= h THEN s - 2 * h ELSE s
  BY <1>1, <1>3 DEF Signed
<1>9. less # hit <=> \/ ((d >= h) <=> y \in h .. 2 * h - 1)
                          /\ (x \in (-h) .. -1 \/ x \in h .. 2 * h - 1)
                     \/ d >= h /\ ~(y \in h .. 2 * h - 1)
  BY <1>1, <1>3, <1>8
<1>10. g.sf # g.of <=> (less # hit)
  <2> HIDE DEF less, hit, x, y
  <2> QED
    BY <1>5, <1>7, <1>9
<1> QED
  BY <1>10 DEF g, no, b

\* A program that has executed a shape of instructions had executed the shorter one.
LEMMA RanStep ==
    ASSUME Begun, [Next]_vars, ~Stays
    PROVE  /\ \A a, r : Ran(<<a>>, <<r>>)' =>
                /\ pc = 0 /\ code[pc + 1].op = a /\ code[pc + 1].reg = r
           /\ \A a, b, r, q : Ran(<<a, b>>, <<r, q>>)' =>
                /\ pc = 1 /\ Ran(<<a>>, <<r>>)
                /\ code[pc + 1].op = b /\ code[pc + 1].reg = q
           /\ \A a, b, c, r, q, p : Ran(<<a, b, c>>, <<r, q, p>>)' =>
                /\ pc = 2 /\ Ran(<<a, b>>, <<r, q>>)
                /\ code[pc + 1].op = c /\ code[pc + 1].reg = p
<1>1. code' = code /\ pc' = pc + 1 /\ pc \in Nat /\ Len(code) \in Nat /\ pc < Len(code)
  BY StepIs, CodeType DEF Moves, Begun
<1>2. ASSUME NEW a, NEW r, Ran(<<a>>, <<r>>)'
      PROVE  pc = 0 /\ code[pc + 1].op = a /\ code[pc + 1].reg = r
  BY <1>1, <1>2 DEF Ran
<1>3. ASSUME NEW a, NEW b, NEW r, NEW q, Ran(<<a, b>>, <<r, q>>)'
      PROVE  /\ pc = 1 /\ Ran(<<a>>, <<r>>)
             /\ code[pc + 1].op = b /\ code[pc + 1].reg = q
  BY <1>1, <1>3 DEF Ran
<1>4. ASSUME NEW a, NEW b, NEW c, NEW r, NEW q, NEW p, Ran(<<a, b, c>>, <<r, q, p>>)'
      PROVE  /\ pc = 2 /\ Ran(<<a, b>>, <<r, q>>)
             /\ code[pc + 1].op = c /\ code[pc + 1].reg = p
  BY <1>1, <1>4 DEF Ran
<1> QED
  BY <1>2, <1>3, <1>4

\* The operand of an instruction that has been executed or is executed next.
LEMMA SrcIs ==
    ASSUME Begun, NEW i \in 1 .. Len(code)
    PROVE  /\ code[i].src \in Nat
           /\ code[i].reg \in {"al", "ah"} => code[i].src \in 0 .. ByteMod - 1
<1>1. code[i].src \in 0 .. Mod(IsWide(code[i].reg)) - 1
  BY CodeType DEF Begun
<1>2. Mod(IsWide(code[i].reg)) \in Nat /\ (code[i].reg \in {"al", "ah"} => ~IsWide(code[i].reg))
  BY Widths DEF Mod, IsWide, WordRegs
<1> QED
  BY <1>1, <1>2 DEF Mod

LEMMA StartBytes ==
    ASSUME Begun
    PROVE  LET h == High(start.ax)
               l == Low(start.ax)
           IN  /\ ByteMod \in Nat \ {0}
               /\ h \in 0 .. ByteMod - 1 /\ l \in 0 .. ByteMod - 1 /\ h \in Int /\ l \in Int
               /\ start.ax = ByteMod * h + l /\ start.ax \in Int
<1>1. start.ax \in 0 .. WordMod - 1 /\ ByteMod \in Nat \ {0} /\ WordMod \in Nat
  BY StartType, Widths
<1>2. /\ start.ax % ByteMod \in 0 .. ByteMod - 1 /\ start.ax \div ByteMod \in 0 .. ByteMod - 1
      /\ start.ax = ByteMod * (start.ax \div ByteMod) + (start.ax % ByteMod)
  BY <1>1, BytesOfWord
<1>3. start.ax \in Int
  BY <1>1
<1> QED
  BY <1>1, <1>2, <1>3 DEF High, Low

\* What programs that make words of bytes have done before their last instruction.
LowSum   == ax = Wide(High(start.ax), Low(start.ax) + Src(1))
              /\ flags.cf = Bit(Low(start.ax) + Src(1), ByteMod)
LowDifference == ax = Wide(High(start.ax), Low(start.ax) - Src(1))
              /\ flags.cf = Bit(Low(start.ax) - Src(1), ByteMod)
Half ==
    /\ Ran(<<"cmp">>, <<"al">>) => ax = start.ax
    /\ Ran(<<"add">>, <<"al">>) => LowSum
    /\ Ran(<<"add", "dec">>, <<"al", "dx">>) => LowSum
    /\ Ran(<<"sub">>, <<"al">>) => LowDifference
    /\ Ran(<<"sub", "inc">>, <<"al", "dx">>) => LowDifference
    /\ Ran(<<"neg">>, <<"al">>) =>
         /\ ax = Wide(High(start.ax), 0 - Low(start.ax))
         /\ flags.cf = Bit(0 - Low(start.ax), ByteMod)
    /\ Ran(<<"neg", "adc">>, <<"al", "ah">>) /\ Src(2) = 0 =>
         ax = Wide(High(start.ax) + (IF Bit(0 - Low(start.ax), ByteMod) THEN 1 ELSE 0),
                   0 - Low(start.ax))

\* A word that was put together from bytes.
LEMMA Parts ==
    ASSUME NEW h \in Int, NEW l \in Int, ax = Wide(h, l)
    PROVE  /\ al = l % ByteMod /\ ah = h % ByteMod
           /\ \A x \in Int : Wide(x, al) = Wide(x, l)
           /\ h \in 0 .. ByteMod - 1 => ah = h
<1>1. al = l % ByteMod /\ ah = h % ByteMod
  BY WideIs DEF al, ah
<1>2. ByteMod \in Nat \ {0}
  BY Widths
<1>3. al % ByteMod = al
  <2> DEFINE b == ByteMod
  <2> HIDE DEF b
  <2>1. l % b \in 0 .. b - 1 /\ b \in Nat \ {0}
    BY <1>2, DivisionIs DEF b
  <2> DEFINE y == l % b
  <2> HIDE DEF y
  <2>2. y % b = y
    BY <2>1, SmallResidue DEF y
  <2> QED
    BY <1>1, <2>2 DEF y, b
<1>4. \A x \in Int : Wide(x, al) = Wide(x, l)
  BY <1>1, <1>3 DEF Wide
<1> QED
  BY <1>1, <1>2, <1>4, SmallResidue

LEMMA HalfStep == Begun /\ Machine /\ Half /\ [Next]_vars => Half'
<1> SUFFICES ASSUME Begun, Machine, Half, [Next]_vars PROVE Half'
  OBVIOUS
<1>1. CASE Stays
  BY <1>1 DEF Stays, Half, Ran, Src, LowSum, LowDifference
<1>2. CASE ~Stays
  <2> DEFINE h == High(start.ax)
             l == Low(start.ax)
             c == code[pc + 1]
  <2>1. start' = start /\ code' = code
    BY <1>2, StepIs DEF Moves
  <2>2. pc = 0 => ax = start.ax /\ al = l /\ ah = h /\ c.src = Src(1)
    BY DEF Begun, al, ah, Low, High, Src
  <2>3. Ran(<<"cmp">>, <<"al">>)' => ax' = start.ax
    BY <1>2, <2>2, RanStep, ByteSteps
  <2>4. Ran(<<"add">>, <<"al">>)' =>
          ax' = Wide(h, l + Src(1)) /\ flags'.cf = Bit(l + Src(1), ByteMod)
    BY <1>2, <2>2, RanStep, ByteSteps
  <2>5. Ran(<<"sub">>, <<"al">>)' =>
          ax' = Wide(h, l - Src(1)) /\ flags'.cf = Bit(l - Src(1), ByteMod)
    BY <1>2, <2>2, RanStep, ByteSteps
  <2>6. Ran(<<"neg">>, <<"al">>)' =>
          ax' = Wide(h, 0 - l) /\ flags'.cf = Bit(0 - l, ByteMod)
    BY <1>2, <2>2, RanStep, ByteSteps
  <2>7. Ran(<<"add", "dec">>, <<"al", "dx">>)' =>
          ax' = Wide(h, l + Src(1)) /\ flags'.cf = Bit(l + Src(1), ByteMod)
    <3> SUFFICES ASSUME Ran(<<"add", "dec">>, <<"al", "dx">>)'
                 PROVE  ax' = Wide(h, l + Src(1)) /\ flags'.cf = Bit(l + Src(1), ByteMod)
      OBVIOUS
    <3>1. Ran(<<"add">>, <<"al">>) /\ c.op = "dec" /\ c.reg = "dx"
      BY <1>2, RanStep
    <3>2. ax' = ax /\ flags'.cf = flags.cf
      BY <1>2, <3>1, ByteSteps
    <3> QED
      BY <3>1, <3>2 DEF Half, LowSum
  <2>8. Ran(<<"sub", "inc">>, <<"al", "dx">>)' =>
          ax' = Wide(h, l - Src(1)) /\ flags'.cf = Bit(l - Src(1), ByteMod)
    <3> SUFFICES ASSUME Ran(<<"sub", "inc">>, <<"al", "dx">>)'
                 PROVE  ax' = Wide(h, l - Src(1)) /\ flags'.cf = Bit(l - Src(1), ByteMod)
      OBVIOUS
    <3>1. Ran(<<"sub">>, <<"al">>) /\ c.op = "inc" /\ c.reg = "dx"
      BY <1>2, RanStep
    <3>2. ax' = ax /\ flags'.cf = flags.cf
      BY <1>2, <3>1, ByteSteps
    <3> QED
      BY <3>1, <3>2 DEF Half, LowDifference
  <2>9. Ran(<<"neg", "adc">>, <<"al", "ah">>)' /\ Src(2) = 0 =>
          ax' = Wide(h + (IF Bit(0 - l, ByteMod) THEN 1 ELSE 0), 0 - l)
    <3> SUFFICES ASSUME Ran(<<"neg", "adc">>, <<"al", "ah">>)', Src(2) = 0
                 PROVE  ax' = Wide(h + (IF Bit(0 - l, ByteMod) THEN 1 ELSE 0), 0 - l)
      OBVIOUS
    <3>1. pc = 1 /\ Ran(<<"neg">>, <<"al">>) /\ c.op = "adc" /\ c.reg = "ah" /\ c.src = 0
      BY <1>2, RanStep DEF Src
    <3>2. ax = Wide(h, 0 - l) /\ flags.cf = Bit(0 - l, ByteMod)
      BY <3>1 DEF Half
    <3>3. h \in 0 .. ByteMod - 1 /\ h \in Int /\ 0 - l \in Int
      BY StartBytes
    <3> DEFINE k == Carry(flags)
    <3>4. k \in Int /\ k = (IF Bit(0 - l, ByteMod) THEN 1 ELSE 0)
      BY <3>2 DEF Carry
    <3>5. ax' = Wide(ah + (0 + k), al)
      BY <1>2, <3>1, ByteSteps
    <3> HIDE DEF k, h
    <3>6. ah = h /\ \A x \in Int : Wide(x, al) = Wide(x, 0 - l)
      BY <3>2, <3>3, Parts
    <3>7. ah + (0 + k) = h + k /\ h + k \in Int
      BY <3>3, <3>4, <3>6
    <3>8. ax' = Wide(h + k, 0 - l)
      BY <3>5, <3>6, <3>7
    <3> QED
      BY <3>4, <3>8
  <2> QED
    BY <2>1, <2>3, <2>4, <2>5, <2>6, <2>7, <2>8, <2>9 DEF Half, LowSum, LowDifference, Src
<1> QED
  BY <1>1, <1>2

LEMMA HalfInvariance == Spec => []Half
<1>1. Init => Half
  BY DEF Init, Half, Ran
<1> QED
  BY <1>1, HalfStep, BegunInvariance, MachineInvariance, PTL DEF Spec

LEMMA WideComparisonStep ==
    Begun /\ Machine /\ Half /\ ConditionsCompare /\ WideComparison /\ [Next]_vars
      => WideComparison'
<1> SUFFICES ASSUME Begun, Machine, Half, ConditionsCompare, WideComparison, [Next]_vars
             PROVE  WideComparison'
  OBVIOUS
<1>1. CASE Stays
  BY <1>1 DEF Stays, WideComparison, Ran, Src
<1>2. CASE ~Stays
  <2> DEFINE h == High(start.ax)
             l == Low(start.ax)
             p == Src(1)
             q == Src(2)
             borrow == l < p
             k == Carry(flags)
             less == Signed(start.ax, WordMod) < Signed(Wide(q, p), WordMod)
  <2> SUFFICES ASSUME Ran(<<"cmp", "sbb">>, <<"al", "ah">>)'
               PROVE  Condition("l", flags') = (less # (borrow /\ q = ByteMod \div 2 - 1))
    BY <1>2, StepIs DEF Moves, WideComparison, Src
  <2>1. /\ pc = 1 /\ Ran(<<"cmp">>, <<"al">>)
        /\ code[2].op = "sbb" /\ code[2].reg = "ah"
    BY <1>2, RanStep
  <2>2. ax = start.ax /\ al = l /\ ah = h
    BY <2>1 DEF Half, al, ah, Low, High
  <2>3. p \in 0 .. ByteMod - 1 /\ q \in 0 .. ByteMod - 1
    <3>1. 1 \in 1 .. Len(code) /\ 2 \in 1 .. Len(code) /\ code[1].reg = "al"
      BY <1>2, <2>1, StepIs, CodeType DEF Moves, Begun, Ran
    <3> QED
      BY <2>1, <3>1, SrcIs DEF Src
  <2>4. flags.cf = borrow
    <3>1. Decides(flags, Register("al", start.ax, start.dx), p, Mod(IsWide("al")))
      BY <2>1 DEF ConditionsCompare, Regs
    <3>2. Condition("b", flags) = (Register("al", start.ax, start.dx) < p)
      BY <3>1, Zenon DEF Decides
    <3> QED
      BY <3>2 DEF Condition, Register, Low
  <2>5. flags' = Sub(flags, h, q + k, FALSE).flags
    <3>1. code[pc + 1] = code[2]
      BY <2>1
    <3>2. flags' = Sub(flags, ah, code[2].src + Carry(flags), FALSE).flags
      BY <1>2, <2>1, <3>1, ByteSteps
    <3> QED
      BY <2>2, <3>2, Zenon DEF Src
  <2>6. k \in {0, 1} /\ (k = 1 <=> borrow)
    <3>1. flags.cf \in BOOLEAN
      BY DEF Machine, FlagSet
    <3>2. k = IF borrow THEN 1 ELSE 0
      BY <2>4, Zenon DEF Carry
    <3> HIDE DEF k, borrow
    <3> QED
      BY <3>2
  <2>7. flags'.sf # flags'.of
          <=> ((Signed(h, ByteMod) < Signed(q, ByteMod) + k) # (k = 1 /\ q = ByteMod \div 2 - 1))
    <3> HIDE DEF h, q, k
    <3> QED
      BY <2>3, <2>5, <2>6, StartBytes, BorrowCompares DEF Machine, h
  <2>8. less <=> Signed(h, ByteMod) < Signed(q, ByteMod) + k
    <3> DEFINE b == ByteMod
               hs == Signed(h, b)
               qs == Signed(q, b)
    <3>1. /\ b \in Nat \ {0} /\ h \in 0 .. b - 1 /\ l \in 0 .. b - 1
          /\ start.ax = b * h + l
      BY StartBytes
    <3>2. Wide(q, p) = b * q + p
      <4>1. q % b = q /\ p % b = p
        BY <2>3, <3>1, SmallResidue
      <4>2. q \in Int /\ p \in Int
        BY <2>3, <3>1
      <4> QED
        BY <4>1, <4>2, WideIs
    <3>3. /\ hs \in Int /\ Signed(start.ax, WordMod) = b * hs + l
          /\ qs \in Int /\ Signed(Wide(q, p), WordMod) = b * qs + p
      BY <2>3, <3>1, <3>2, SignedWord
    <3> HIDE DEF b, hs, qs, h, l, p, q, k
    <3>4. b * hs + l < b * qs + p <=> hs < qs \/ (hs = qs /\ l < p)
      BY <2>3, <3>1, <3>3, WordOrder DEF b
    <3>5. less <=> hs < qs \/ (hs = qs /\ l < p)
      BY <3>3, <3>4
    <3>6. hs < qs + k <=> hs < qs \/ (hs = qs /\ k = 1)
      BY <2>6, <3>3
    <3> QED
      BY <2>6, <3>5, <3>6 DEF hs, qs, b
  <2> DEFINE lower == Signed(h, ByteMod) < Signed(q, ByteMod) + k
             top == q = ByteMod \div 2 - 1
  <2>9. Condition("l", flags') = (flags'.sf # flags'.of)
    BY Zenon DEF Condition
  <2>10. /\ (flags'.sf # flags'.of) <=> (lower # (k = 1 /\ top))
         /\ (less <=> lower) /\ ((k = 1) <=> borrow)
         /\ less \in BOOLEAN /\ lower \in BOOLEAN /\ borrow \in BOOLEAN /\ top \in BOOLEAN
    BY <2>6, <2>7, <2>8
  <2> HIDE DEF k, less, borrow, q, lower, top
  <2>11. (lower # (k = 1 /\ top)) <=> (less # (borrow /\ top))
    BY <2>10
  <2>12. (flags'.sf # flags'.of) = (less # (borrow /\ top))
    BY <2>10, <2>11
  <2> QED
    BY <2>9, <2>12, Zenon DEF top
<1> QED
  BY <1>1, <1>2

\* The order of words, decided by bytes, and the one exception to it.
THEOREM BytesCompare == Spec => []WideComparison
<1>1. Init => WideComparison
  BY DEF Init, WideComparison, Ran
<1> QED
  BY <1>1, WideComparisonStep, BegunInvariance, MachineInvariance, HalfInvariance,
     ComparisonsDecide, PTL DEF Spec

\* Two bytes make a word.
LEMMA WideOfBytes ==
    ASSUME NEW q \in 0 .. ByteMod - 1, NEW p \in 0 .. ByteMod - 1
    PROVE  Wide(q, p) = ByteMod * q + p
<1>1. ByteMod \in Nat \ {0}
  BY Widths
<1>2. q % ByteMod = q /\ p % ByteMod = p
  BY <1>1, SmallResidue
<1>3. q \in Int /\ p \in Int
  BY <1>1
<1> QED
  BY <1>2, <1>3, WideIs

\* A sum of two numbers of two digits each: the carry out of the upper digit is that
\* of the whole.
LEMMA Overflows ==
    ASSUME NEW hi \in Int, NEW lo \in Int
    PROVE  LET total == ByteMod * hi + lo
               top   == hi + (lo \div ByteMod)
           IN  /\ total \in Int
               /\ total < 0 <=> top < 0
               /\ total >= WordMod <=> top >= ByteMod
<1> DEFINE b == ByteMod
           k == lo \div b
           r == lo % b
           top == hi + k
<1>1. b \in Nat \ {0} /\ WordMod = b * b
  BY Widths DEF WordMod
<1> HIDE DEF b
<1>2. lo = b * k + r /\ k \in Int /\ r \in 0 .. b - 1
  BY <1>1, DivisionIs
<1> HIDE DEF k, r
<1>3. top \in Int
  BY <1>2
<1>4. b * hi + lo = b * top + r
  BY <1>1, <1>2
<1> HIDE DEF top
<1>5. 0 \in Int /\ 0 \in 0 .. b - 1
  BY <1>1
<1>6. b * top + r < b * 0 + 0 <=> top < 0 \/ (top = 0 /\ r < 0)
  BY <1>1, <1>2, <1>3, <1>5, WordOrder
<1>7. b * top + r < b * b + 0 <=> top < b \/ (top = b /\ r < 0)
  BY <1>1, <1>2, <1>3, <1>5, WordOrder
<1> DEFINE x == b * top
           y == b * b
<1>8. x \in Int /\ y \in Int /\ b * 0 = 0
  BY <1>1, <1>3
<1> HIDE DEF x, y
<1>9. x + r < 0 <=> top < 0
  BY <1>2, <1>6, <1>8 DEF x
<1>10. x + r >= y <=> top >= b
  BY <1>1, <1>2, <1>3, <1>7, <1>8 DEF x, y
<1>11. b * hi + lo = x + r /\ WordMod = y
  BY <1>1, <1>4 DEF x, y
<1> QED
  BY <1>2, <1>8, <1>9, <1>10, <1>11 DEF top, k, b

\* The number of a bit that is set or not.
One(bit) == IF bit THEN 1 ELSE 0

LEMMA SumByBytes ==
    ASSUME NEW h \in 0 .. ByteMod - 1, NEW l \in 0 .. ByteMod - 1,
           NEW q \in 0 .. ByteMod - 1, NEW p \in 0 .. ByteMod - 1
    PROVE  LET x == ByteMod * h + l
               s == Wide(q, p)
               t == q + One(Bit(l + p, ByteMod))
           IN  /\ Wide(h + t, l + p) = (x + s) % WordMod
               /\ Bit(h + t, ByteMod) = (x + s >= WordMod)
<1> DEFINE b == ByteMod
           lo == l + p
           hi == h + q
           k == lo \div b
           t == q + One(Bit(lo, b))
<1>1. b \in Nat \ {0}
  BY Widths
<1>2. lo \in Int /\ -b <= lo /\ lo < 2 * b /\ lo >= 0 /\ hi \in Int
  BY <1>1
<1>3. One(Bit(lo, b)) = k /\ k \in {0, 1}
  <2>1. /\ Bit(lo, b) <=> lo < 0 \/ lo >= b
        /\ k = IF lo < 0 THEN -1 ELSE IF lo >= b THEN 1 ELSE 0
    <3> HIDE DEF lo
    <3> QED
      BY <1>2, CarryIs
  <2> HIDE DEF lo, k
  <2> QED
    BY <1>1, <1>2, <2>1 DEF One
<1>4. h + t = hi + k
  <2> HIDE DEF k
  <2> QED
    BY <1>3
<1>5. Wide(q, p) = b * q + p
  BY WideOfBytes
<1>6. (b * h + l) + Wide(q, p) = b * hi + lo
  BY <1>1, <1>5
<1> HIDE DEF lo, hi
<1>7. Wide(hi + k, lo) = (b * hi + lo) % WordMod
  BY <1>2, WideSum
<1>8. b * hi + lo >= WordMod <=> hi + k >= b
  BY <1>2, Overflows
<1>9. Bit(hi + k, b) <=> hi + k >= b
  <2> DEFINE top == hi + k
  <2> HIDE DEF k
  <2>1. top \in Int /\ 0 <= top /\ top < 2 * b
    BY <1>1, <1>3 DEF hi
  <2> HIDE DEF top
  <2>2. Bit(top, b) <=> top < 0 \/ top >= b
    BY <1>1, <2>1, CarryIs
  <2> QED
    BY <1>1, <2>1, <2>2 DEF top
<1>10. Bit(h + t, b) = (b * hi + lo >= WordMod)
  <2>1. Bit(h + t, b) \in BOOLEAN
    BY DEF Bit
  <2>2. Bit(h + t, b) <=> b * hi + lo >= WordMod
    BY <1>4, <1>8, <1>9
  <2> QED
    BY <2>1, <2>2
<1> QED
  BY <1>4, <1>6, <1>7, <1>10 DEF lo

LEMMA DifferenceByBytes ==
    ASSUME NEW h \in 0 .. ByteMod - 1, NEW l \in 0 .. ByteMod - 1,
           NEW q \in 0 .. ByteMod - 1, NEW p \in 0 .. ByteMod - 1
    PROVE  LET x == ByteMod * h + l
               s == Wide(q, p)
               t == q + One(Bit(l - p, ByteMod))
           IN  /\ Wide(h - t, l - p) = (x - s) % WordMod
               /\ Bit(h - t, ByteMod) = (x < s)
<1> DEFINE b == ByteMod
           lo == l - p
           hi == h - q
           k == lo \div b
           t == q + One(Bit(lo, b))
<1>1. b \in Nat \ {0}
  BY Widths
<1>2. lo \in Int /\ -b <= lo /\ lo < b /\ lo < 2 * b /\ hi \in Int
  BY <1>1
<1>3. -One(Bit(lo, b)) = k /\ k \in {-1, 0}
  <2>1. /\ Bit(lo, b) <=> lo < 0 \/ lo >= b
        /\ k = IF lo < 0 THEN -1 ELSE IF lo >= b THEN 1 ELSE 0
    <3> HIDE DEF lo
    <3> QED
      BY <1>2, CarryIs
  <2> HIDE DEF lo, k
  <2> QED
    BY <1>1, <1>2, <2>1 DEF One
<1>4. h - t = hi + k
  <2>1. One(Bit(lo, b)) \in Int
    BY DEF One
  <2> DEFINE one == One(Bit(lo, b))
  <2> HIDE DEF k, one
  <2> QED
    BY <1>3, <2>1 DEF one
<1>5. Wide(q, p) = b * q + p
  BY WideOfBytes
<1> DEFINE x == b * h + l
           s == Wide(q, p)
           total == b * hi + lo
<1>6. x - s = total /\ x \in Int /\ s \in Int /\ total \in Int
  BY <1>1, <1>5
<1> HIDE DEF lo, hi
<1>7. Wide(hi + k, lo) = total % WordMod
  BY <1>2, WideSum
<1>8. total < 0 <=> hi + k < 0
  BY <1>2, Overflows
<1>9. Bit(hi + k, b) <=> hi + k < 0
  <2> DEFINE top == hi + k
  <2> HIDE DEF k
  <2>1. top \in Int /\ -b <= top /\ top < b
    BY <1>1, <1>3 DEF hi
  <2> HIDE DEF top
  <2>2. Bit(top, b) <=> top < 0 \/ top >= b
    BY <1>1, <2>1, CarryIs
  <2> QED
    BY <1>1, <2>1, <2>2 DEF top
<1>10. Bit(h - t, b) = (x < s)
  <2>1. Bit(h - t, b) \in BOOLEAN
    BY DEF Bit
  <2> HIDE DEF x, s, total
  <2>2. total < 0 <=> x < s
    BY <1>6
  <2>3. Bit(h - t, b) <=> x < s
    BY <1>4, <1>8, <1>9, <2>2
  <2> QED
    BY <2>1, <2>3
<1> QED
  BY <1>4, <1>6, <1>7, <1>10 DEF lo

\* The complement of a word, by the complements of its bytes.
LEMMA NegatedByBytes ==
    ASSUME NEW h \in 0 .. ByteMod - 1, NEW l \in 0 .. ByteMod - 1
    PROVE  Wide(0 - ((h + One(Bit(0 - l, ByteMod))) % ByteMod), 0 - l)
             = (-(ByteMod * h + l)) % WordMod
<1> DEFINE b == ByteMod
           lo == 0 - l
           hi == 0 - h
           k == lo \div b
           one == One(Bit(lo, b))
           sum == h + one
           y == 0 - (sum % b)
<1>1. b \in Nat \ {0}
  BY Widths
<1>2. lo \in Int /\ -b <= lo /\ lo < b /\ lo < 2 * b /\ hi \in Int
  BY <1>1
<1>3. -one = k /\ k \in {-1, 0}
  <2>1. /\ Bit(lo, b) <=> lo < 0 \/ lo >= b
        /\ k = IF lo < 0 THEN -1 ELSE IF lo >= b THEN 1 ELSE 0
    <3> HIDE DEF lo
    <3> QED
      BY <1>2, CarryIs
  <2> HIDE DEF lo, k
  <2> QED
    BY <1>1, <1>2, <2>1 DEF One
<1>4. one \in Int
  BY DEF One
<1> HIDE DEF lo, one
<1>5. sum \in Int /\ 0 - sum = hi + k
  <2> HIDE DEF k
  <2> QED
    BY <1>3, <1>4
<1> HIDE DEF sum
<1>6. y % b = (0 - sum) % b
  <2> DEFINE Q == sum \div b
             R == sum % b
  <2>1. sum = b * Q + R /\ Q \in Int /\ R \in 0 .. b - 1
    BY <1>1, <1>5, DivisionIs
  <2> HIDE DEF Q, R
  <2> DEFINE z == 0 - sum
  <2>2. z \in Int /\ 0 - R = z + b * Q
    BY <1>1, <2>1
  <2> HIDE DEF z
  <2>3. (z + b * Q) % b = z % b
    BY <1>1, <2>1, <2>2, SameResidue
  <2> QED
    BY <2>2, <2>3 DEF z, R
<1>7. Wide(y, lo) = Wide(hi + k, lo)
  BY <1>5, <1>6 DEF Wide
<1>8. Wide(hi + k, lo) = (b * hi + lo) % WordMod
  BY <1>2, WideSum
<1>9. b * hi + lo = -(b * h + l)
  BY <1>1 DEF lo
<1> QED
  BY <1>7, <1>8, <1>9 DEF lo, one, sum

LEMMA WideArithmeticStep ==
    Begun /\ Machine /\ Half /\ WideArithmetic /\ [Next]_vars => WideArithmetic'
<1> SUFFICES ASSUME Begun, Machine, Half, WideArithmetic, [Next]_vars
             PROVE  WideArithmetic'
  OBVIOUS
<1>1. CASE Stays
  BY <1>1 DEF Stays, WideArithmetic, Ran, Src
<1>2. CASE ~Stays
  <2> DEFINE b == ByteMod
             h == High(start.ax)
             l == Low(start.ax)
             p == Src(1)
             q == Src(3)
             s == Wide(q, p)
             c == code[pc + 1]
             bytes == <<"al", "dx", "ah">>
             x == start.ax
  <2>1. start' = start /\ code' = code
    BY <1>2, StepIs DEF Moves
  <2>2. /\ b \in Nat \ {0} /\ h \in 0 .. b - 1 /\ l \in 0 .. b - 1 /\ h \in Int /\ l \in Int
        /\ x = b * h + l /\ x \in Int
    BY StartBytes
  <2>3. \A i \in {1, 3} : i <= Len(code) /\ code[i].reg \in {"al", "ah"} => Src(i) \in 0 .. b - 1
    <3> SUFFICES ASSUME NEW i \in {1, 3}, i <= Len(code), code[i].reg \in {"al", "ah"}
                 PROVE  Src(i) \in 0 .. b - 1
      OBVIOUS
    <3>1. i \in 1 .. Len(code)
      BY CodeType DEF Begun
    <3> QED
      BY <3>1, SrcIs DEF Src
  <2>4. ASSUME Ran(<<"add", "dec", "adc">>, bytes)'
        PROVE  ax' = (x + s) % WordMod /\ flags'.cf = (x + s >= WordMod)
    <3>1. /\ pc = 2 /\ Ran(<<"add", "dec">>, <<"al", "dx">>)
          /\ c.op = "adc" /\ c.reg = "ah"
      BY <1>2, <2>4, RanStep
    <3>2. p \in 0 .. b - 1 /\ q \in 0 .. b - 1
      <4>1. 3 <= Len(code) /\ 1 <= Len(code) /\ code[1].reg = "al" /\ code[3].reg = "ah"
        BY <1>2, <3>1, StepIs, CodeType DEF Moves, Begun, Ran
      <4> QED
        BY <2>3, <4>1
    <3> DEFINE t == q + One(Bit(l + p, b))
    <3>3. ax = Wide(h, l + p) /\ flags.cf = Bit(l + p, b)
      BY <3>1 DEF Half, LowSum
    <3>4. c.src + Carry(flags) = t
      <4>1. c = code[3]
        BY <3>1
      <4> QED
        BY <3>3, <4>1, Zenon DEF Src, Carry, One
    <3>5. ax' = Wide(ah + t, al) /\ flags'.cf = Bit(ah + t, b)
      <4>1. /\ ax' = Wide(ah + (c.src + Carry(flags)), al)
            /\ flags'.cf = Bit(ah + (c.src + Carry(flags)), b)
        BY <1>2, <3>1, ByteSteps
      <4> QED
        BY <3>4, <4>1, Zenon
    <3>6. t \in Int /\ l + p \in Int
      BY <2>2, <3>2 DEF One
    <3> DEFINE lo == l + p
    <3> HIDE DEF h, l, p, q, t, lo
    <3>7. ah = h /\ \A y \in Int : Wide(y, al) = Wide(y, lo)
      BY <2>2, <3>3, <3>6, Parts DEF lo
    <3>8. ax' = Wide(h + t, lo) /\ flags'.cf = Bit(h + t, b)
      BY <2>2, <3>5, <3>6, <3>7
    <3>9. /\ Wide(h + t, l + p) = (b * h + l + s) % WordMod
          /\ Bit(h + t, b) = (b * h + l + s >= WordMod)
      BY <2>2, <3>2, SumByBytes DEF t
    <3> QED
      BY <2>2, <3>8, <3>9 DEF lo
  <2>5. ASSUME Ran(<<"sub", "inc", "sbb">>, bytes)'
        PROVE  ax' = (x - s) % WordMod /\ flags'.cf = (x < s)
    <3>1. /\ pc = 2 /\ Ran(<<"sub", "inc">>, <<"al", "dx">>)
          /\ c.op = "sbb" /\ c.reg = "ah"
      BY <1>2, <2>5, RanStep
    <3>2. p \in 0 .. b - 1 /\ q \in 0 .. b - 1
      <4>1. 3 <= Len(code) /\ 1 <= Len(code) /\ code[1].reg = "al" /\ code[3].reg = "ah"
        BY <1>2, <3>1, StepIs, CodeType DEF Moves, Begun, Ran
      <4> QED
        BY <2>3, <4>1
    <3> DEFINE t == q + One(Bit(l - p, b))
    <3>3. ax = Wide(h, l - p) /\ flags.cf = Bit(l - p, b)
      BY <3>1 DEF Half, LowDifference
    <3>4. c.src + Carry(flags) = t
      <4>1. c = code[3]
        BY <3>1
      <4> QED
        BY <3>3, <4>1, Zenon DEF Src, Carry, One
    <3>5. ax' = Wide(ah - t, al) /\ flags'.cf = Bit(ah - t, b)
      <4>1. /\ ax' = Wide(ah - (c.src + Carry(flags)), al)
            /\ flags' = Sub(flags, ah, c.src + Carry(flags), FALSE).flags
        BY <1>2, <3>1, ByteSteps
      <4>2. ax' = Wide(ah - t, al) /\ flags' = Sub(flags, ah, t, FALSE).flags
        BY <3>4, <4>1, Zenon
      <4> DEFINE no == FALSE
      <4> HIDE DEF no, t
      <4>3. Sub(flags, ah, t, no).flags.cf = Bit(ah - t, Mod(no))
        BY DifferenceIs DEF Machine
      <4>4. Mod(no) = b
        BY DEF no, Mod
      <4> QED
        BY <4>2, <4>3, <4>4, Zenon DEF no
    <3>6. t \in Int /\ l - p \in Int
      BY <2>2, <3>2 DEF One
    <3> DEFINE lo == l - p
    <3> HIDE DEF h, l, p, q, t, lo
    <3>7. ah = h /\ \A y \in Int : Wide(y, al) = Wide(y, lo)
      BY <2>2, <3>3, <3>6, Parts DEF lo
    <3>8. ax' = Wide(h - t, lo) /\ flags'.cf = Bit(h - t, b)
      BY <2>2, <3>5, <3>6, <3>7
    <3>9. /\ Wide(h - t, l - p) = ((b * h + l) - s) % WordMod
          /\ Bit(h - t, b) = (b * h + l < s)
      BY <2>2, <3>2, DifferenceByBytes DEF t
    <3> QED
      BY <2>2, <3>8, <3>9 DEF lo
  <2>6. ASSUME Ran(<<"neg", "adc", "neg">>, <<"al", "ah", "ah">>)', Src(2) = 0
        PROVE  ax' = (-x) % WordMod
    <3>1. Ran(<<"neg", "adc">>, <<"al", "ah">>) /\ c.op = "neg" /\ c.reg = "ah"
      BY <1>2, <2>6, RanStep
    <3> DEFINE lo == 0 - l
               sum == h + One(Bit(lo, b))
    <3>2. ax = Wide(sum, lo)
      BY <2>6, <3>1 DEF Half, One
    <3>3. sum \in Int /\ lo \in Int
      BY <2>2 DEF One
    <3>4. ax' = Wide(0 - ah, al)
      BY <1>2, <3>1, ByteSteps
    <3> HIDE DEF h, l, sum, lo
    <3>5. ah = sum % b /\ \A y \in Int : Wide(y, al) = Wide(y, lo)
      BY <3>2, <3>3, Parts
    <3>6. 0 - (sum % b) \in Int
      BY <2>2, <3>3, DivisionIs
    <3>7. ax' = Wide(0 - (sum % b), lo)
      BY <3>4, <3>5, <3>6
    <3>8. Wide(0 - (sum % b), lo) = (-(b * h + l)) % WordMod
      BY <2>2, NegatedByBytes DEF sum, lo
    <3> QED
      BY <2>2, <3>7, <3>8
  <2> QED
    BY <2>1, <2>4, <2>5, <2>6 DEF WideArithmetic, Src
<1> QED
  BY <1>1, <1>2

\* Words are added, subtracted and negated by their bytes.
THEOREM BytesCarry == Spec => []WideArithmetic
<1>1. Init => WideArithmetic
  BY DEF Init, WideArithmetic, Ran
<1> QED
  BY <1>1, WideArithmeticStep, BegunInvariance, MachineInvariance, HalfInvariance,
     PTL DEF Spec

-----------------------------------------------------------------------------
(* Products.                                                                 *)

\* The two halves of a product of unsigned numbers.
LEMMA UnsignedProduct ==
    ASSUME NEW wide \in BOOLEAN, NEW d \in 0 .. Mod(wide) - 1, NEW s \in 0 .. Mod(wide) - 1
    PROVE  /\ d * s \in Nat
           /\ Upper(d, s, FALSE, wide) = (d * s) \div Mod(wide)
           /\ (d * s) \div Mod(wide) \in 0 .. Mod(wide) - 1
<1> DEFINE m == Mod(wide)
           x == d * s
           q == x \div m
           r == x % m
<1>1. m \in Nat \ {0} /\ d \in 0 .. m - 1 /\ s \in 0 .. m - 1
  BY Widths DEF Mod
<1> HIDE DEF m
<1>2. x \in Nat /\ x <= m * (m - 1)
  <2>1. d * s <= m * s /\ m * s <= m * (m - 1) /\ d * s >= 0
    BY <1>1, SMT
  <2> QED
    BY <1>1, <2>1
<1>3. x < m * m
  BY <1>1, <1>2
<1> HIDE DEF x
<1>4. x = m * q + r /\ q \in Int /\ r \in 0 .. m - 1
  BY <1>1, <1>2, DivisionIs
<1> HIDE DEF q, r
<1>5. q >= 0
  <2> SUFFICES ASSUME q <= -1 PROVE FALSE
    BY <1>4
  <2>1. m * q <= -m
    BY <1>1, <1>4
  <2> DEFINE y == m * q
  <2>2. y \in Int
    BY <1>1, <1>4
  <2> HIDE DEF y
  <2> QED
    BY <1>1, <1>2, <1>4, <2>1, <2>2 DEF y
<1>6. q <= m - 1
  <2> SUFFICES ASSUME q >= m PROVE FALSE
    BY <1>1, <1>4
  <2>1. m * q >= m * m
    BY <1>1, <1>4
  <2> DEFINE y == m * q
             z == m * m
  <2>2. y \in Int /\ z \in Int
    BY <1>1, <1>4
  <2> HIDE DEF y, z
  <2> QED
    BY <1>2, <1>3, <1>4, <2>1, <2>2 DEF y, z
<1> DEFINE upper == Upper(d, s, FALSE, wide)
<1>7. upper = q
  <2>1. upper = ((q - 0) - 0) % m
    BY Zenon DEF Upper, m, x, q
  <2>2. q % m = q
    BY <1>1, <1>4, <1>5, <1>6, SmallResidue
  <2> HIDE DEF upper
  <2> QED
    BY <1>4, <2>1, <2>2
<1>8. x \in Nat /\ upper = q /\ q \in 0 .. m - 1
  <2> HIDE DEF upper
  <2> QED
    BY <1>1, <1>2, <1>4, <1>5, <1>6, <1>7
<1> QED
  BY <1>8, Zenon DEF x, q, m

\* The upper half of a signed product, corrected, is the quotient of the product.
Corrects(d, s, wide, h) ==
    \E u \in -h .. h - 1 :
      /\ Signed(d, Mod(wide)) * Signed(s, Mod(wide)) = Mod(wide) * u + ((d * s) % Mod(wide))
      /\ Upper(d, s, TRUE, wide) = u % Mod(wide)

\* It is so for the two halves of every product, and half the range is enough for it.
LEMMA SignedProduct ==
    ASSUME NEW wide \in BOOLEAN, NEW d \in 0 .. Mod(wide) - 1, NEW s \in 0 .. Mod(wide) - 1,
           NEW h \in Nat \ {0, 1}, Mod(wide) = 2 * h
    PROVE  Corrects(d, s, wide, h)
<1> DEFINE m == Mod(wide)
           x == d * s
           q == x \div m
           r == x % m
           ds == Signed(d, m)
           ss == Signed(s, m)
           dc == IF s >= h THEN d ELSE 0
           sc == IF d >= h THEN s ELSE 0
           both == IF d >= h /\ s >= h THEN m ELSE 0
           c == (q - dc) - sc
           u == c + both
<1>1. /\ m \in Nat \ {0} /\ m = 2 * h /\ m \div 2 = h
      /\ d \in 0 .. m - 1 /\ s \in 0 .. m - 1 /\ d \in Int /\ s \in Int
  OBVIOUS
<1>2. (Top(d, wide) <=> d >= h) /\ (Top(s, wide) <=> s >= h)
  <2>1. d % m = d /\ s % m = s
    <3> HIDE DEF m
    <3> QED
      BY <1>1, SmallResidue
  <2>2. d % (2 * h) = d /\ s % (2 * h) = s /\ h \in Nat \ {0}
    BY <1>1, <2>1
  <2>3. /\ Top(d, wide) <=> d % (2 * h) >= h
        /\ Top(s, wide) <=> s % (2 * h) >= h
    BY <1>1, <2>2, SignIs
  <2> QED
    BY <2>2, <2>3
<1>3. Upper(d, s, TRUE, wide) = c % m
  <2>1. Upper(d, s, TRUE, wide) = ((q - (IF Top(s, wide) THEN d ELSE 0))
                                     - (IF Top(d, wide) THEN s ELSE 0)) % m
    BY Zenon DEF Upper, m, x, q
  <2> QED
    BY <1>2, <2>1, Zenon
<1> HIDE DEF m
<1>4. /\ ds = (IF d >= h THEN d - m ELSE d)
      /\ ss = (IF s >= h THEN s - m ELSE s)
  BY <1>1 DEF Signed
<1>5. ds \in -h .. h - 1 /\ ss \in -h .. h - 1 /\ ds \in Int /\ ss \in Int
  BY <1>1, <1>4
<1>6. x = m * q + r /\ q \in Int /\ r \in 0 .. m - 1 /\ x \in Int
  <2>1. x \in Int
    BY <1>1
  <2> HIDE DEF x
  <2> QED
    BY <1>1, <2>1, DivisionIs
<1>7. c \in Int /\ u \in Int
  BY <1>1, <1>6
<1>8. ds * ss = m * u + r
  <2> HIDE DEF q, r, ds, ss
  <2>1. CASE d >= h /\ s >= h
    <3>1. ds * ss = ((x - m * d) - m * s) + m * m
      BY <1>1, <1>4, <2>1
    <3>2. m * u = ((m * q - m * d) - m * s) + m * m
      BY <1>1, <1>6, <2>1
    <3> QED
      BY <1>1, <1>6, <3>1, <3>2
  <2>2. CASE d >= h /\ ~(s >= h)
    <3>1. ds * ss = x - m * s
      BY <1>1, <1>4, <2>2
    <3>2. m * u = m * q - m * s
      BY <1>1, <1>6, <2>2
    <3> QED
      BY <1>1, <1>6, <3>1, <3>2
  <2>3. CASE ~(d >= h) /\ s >= h
    <3>1. ds * ss = x - m * d
      BY <1>1, <1>4, <2>3
    <3>2. m * u = m * q - m * d
      BY <1>1, <1>6, <2>3
    <3> QED
      BY <1>1, <1>6, <3>1, <3>2
  <2>4. CASE ~(d >= h) /\ ~(s >= h)
    <3>1. ds * ss = x
      BY <1>1, <1>4, <2>4
    <3>2. u = q
      BY <1>1, <1>6, <2>4
    <3> QED
      BY <1>1, <1>6, <3>1, <3>2
  <2> QED
    BY <2>1, <2>2, <2>3, <2>4
<1>9. -(h * h) <= ds * ss /\ ds * ss <= h * h
  <2> HIDE DEF ds, ss
  <2> DEFINE a == IF ds < 0 THEN -ds ELSE ds
             b == IF ss < 0 THEN -ss ELSE ss
  <2>1. a \in 0 .. h /\ b \in 0 .. h /\ a \in Int /\ b \in Int
    BY <1>5
  <2>2. ds * ss = a * b \/ ds * ss = -(a * b)
    BY <1>5
  <2> HIDE DEF a, b
  <2>3. a * b >= 0 /\ a * b <= h * b /\ h * b <= h * h
    BY <2>1, SMT
  <2> DEFINE y == a * b
             z == h * h
             w == h * b
             v == ds * ss
  <2>4. y \in Int /\ z \in Int /\ w \in Int /\ v \in Int
    BY <1>5, <2>1
  <2> HIDE DEF y, z, w, v
  <2> QED
    BY <2>2, <2>3, <2>4 DEF y, z, w, v
<1> HIDE DEF c, u, ds, ss, q, r
<1>10. u <= h - 1
  <2> SUFFICES ASSUME u >= h PROVE FALSE
    BY <1>1, <1>7
  <2>1. m * u >= 2 * (h * h) /\ h * h > 0
    BY <1>1, <1>7, SMT
  <2> DEFINE y == m * u
             z == h * h
  <2>2. y \in Int /\ z \in Int
    BY <1>1, <1>7
  <2> HIDE DEF y, z
  <2>3. y + r <= z /\ y >= 2 * z /\ z > 0
    BY <1>8, <1>9, <2>1 DEF y, z
  <2> QED
    BY <1>6, <2>2, <2>3
<1>11. u >= -h
  <2> SUFFICES ASSUME u <= -h - 1 PROVE FALSE
    BY <1>1, <1>7
  <2>1. m * u <= -(2 * (h * h)) - m /\ h * h > 0
    BY <1>1, <1>7, SMT
  <2> DEFINE y == m * u
             z == h * h
  <2>2. y \in Int /\ z \in Int
    BY <1>1, <1>7
  <2> HIDE DEF y, z
  <2>3. y + r >= -z /\ y <= -(2 * z) - m /\ z > 0
    BY <1>8, <1>9, <2>1 DEF y, z
  <2> QED
    BY <1>1, <1>6, <2>2, <2>3
<1>12. c % m = u % m
  <2> DEFINE k == IF d >= h /\ s >= h THEN 1 ELSE 0
  <2>1. k \in Int /\ u = c + m * k
    BY <1>1, <1>7 DEF u
  <2> HIDE DEF k
  <2> QED
    BY <1>1, <1>7, <2>1, SameResidue
<1>13. u \in -h .. h - 1
  BY <1>1, <1>7, <1>10, <1>11
<1>14. ds * ss = m * u + r /\ Upper(d, s, TRUE, wide) = u % m
  BY <1>3, <1>8, <1>12, Zenon
<1> QED
  BY <1>13, <1>14, Zenon DEF m, ds, ss, r, x, Corrects

\* A signed number from its two halves.
LEMMA SignedHalves ==
    ASSUME NEW h \in Nat \ {0, 1}, NEW u \in -h .. h - 1, NEW r \in 0 .. 2 * h - 1
    PROVE  LET m == 2 * h
           IN  /\ u % m = (IF u < 0 THEN u + m ELSE u)
               /\ Signed((u % m) * m + r, m * m) = m * u + r
               /\ m * u + r \in -h .. h - 1 <=> u % m = (IF r >= h THEN m - 1 ELSE 0)
<1> DEFINE m == 2 * h
           v == IF u < 0 THEN u + m ELSE u
<1>1. m \in Nat \ {0} /\ u \in Int /\ v \in 0 .. m - 1 /\ v \in Int /\ r \in Int
  OBVIOUS
<1>2. u % m = v
  <2>1. u = m * (IF u < 0 THEN -1 ELSE 0) + v
    OBVIOUS
  <2> DEFINE k == IF u < 0 THEN -1 ELSE 0
  <2>2. k \in Int /\ u = m * k + v
    BY <2>1
  <2> HIDE DEF k, m, v
  <2> QED
    BY <1>1, <2>2, DivisionUnique
<1>3. (m * m) \div 2 = m * h /\ m * m = 2 * (m * h)
  <2> DEFINE y == m * h
  <2>1. m * m = 2 * y /\ y \in Int
    OBVIOUS
  <2> HIDE DEF m, y
  <2> QED
    BY <2>1 DEF y
<1>4. Signed(v * m + r, m * m) = m * u + r
  <2> DEFINE x == v * m + r
             y == m * h
             z == m * u
  <2>1. CASE u < 0
    <3>1. v * m = z + m * m
      BY <2>1
    <3>2. z + m * m >= y
      <4>1. v * m >= h * m
        <5>1. v >= h
          BY <2>1
        <5> HIDE DEF v
        <5> QED
          BY <1>1, <5>1, SMT
      <4> QED
        BY <3>1, <4>1
    <3>3. z \in Int /\ y \in Int /\ m * m \in Int
      OBVIOUS
    <3> DEFINE w == m * m
    <3> HIDE DEF z, y, w, v
    <3>4. x = z + w + r /\ z + w >= y
      BY <3>1, <3>2 DEF w
    <3>5. Signed(x, w) = IF x >= y THEN x - w ELSE x
      BY <1>3 DEF Signed, w, y
    <3> HIDE DEF x, m
    <3>6. x >= y
      BY <1>1, <3>3, <3>4 DEF w
    <3> QED
      BY <1>1, <3>3, <3>4, <3>5, <3>6 DEF w, x, z
  <2>2. CASE ~(u < 0)
    <3>1. v * m = z /\ v = u
      BY <2>2
    <3>2. z <= y - m
      <4>1. m * u <= m * (h - 1) /\ m * (h - 1) = y - m
        BY SMT
      <4> QED
        BY <4>1
    <3>3. z \in Int /\ y \in Int /\ m * m \in Int
      OBVIOUS
    <3> DEFINE w == m * m
    <3> HIDE DEF z, y, w, v
    <3>4. x = z + r
      BY <3>1
    <3>5. Signed(x, w) = IF x >= y THEN x - w ELSE x
      BY <1>3 DEF Signed, w, y
    <3> HIDE DEF x, m
    <3>6. x < y
      <4>1. r < m
        BY DEF m
      <4> QED
        BY <1>1, <3>2, <3>3, <3>4, <4>1
    <3> QED
      BY <1>1, <3>3, <3>4, <3>5, <3>6 DEF w, x, z
  <2> QED
    BY <2>1, <2>2
<1>5. m * u + r \in -h .. h - 1 <=> v = (IF r >= h THEN m - 1 ELSE 0)
  <2>1. CASE u >= 1
    <3>1. m * u >= m
      BY <2>1, SMT
    <3> QED
      BY <2>1, <3>1
  <2>2. CASE u = 0
    BY <2>2
  <2>3. CASE u = -1
    BY <2>3
  <2>4. CASE u <= -2
    <3>1. m * u <= -(2 * m)
      BY <2>4, SMT
    <3> QED
      BY <2>4, <3>1
  <2> QED
    BY <2>1, <2>2, <2>3, <2>4
<1> QED
  BY <1>2, <1>4, <1>5

\* What a product that a program begins with leaves.
FirstMultiplied(op, reg) ==
    LET wide == IsWide(reg)
        signed == op = "imul"
        m == Mod(wide)
        d == Register(reg, start.ax, start.dx)
        s == Src(1)
        low == (d * s) % m
        high == Upper(d, s, signed, wide)
        cf == IF signed THEN high = (IF Top(low, wide) THEN m - 1 ELSE 0) ELSE high # 0
    IN  /\ wide \in BOOLEAN /\ d \in 0 .. m - 1 /\ s \in 0 .. m - 1
        /\ low \in 0 .. m - 1 /\ high \in 0 .. m - 1
        /\ LowHalf(wide)' = low /\ HighHalf(wide)' = high
        /\ flags'.cf = cf /\ flags'.of = cf

\* A product that a program begins with.
LEMMA FirstProduct ==
    ASSUME Begun, Machine, [Next]_vars, ~Stays,
           NEW op \in {"mul", "imul"}, NEW reg \in {"al", "ax"}, Ran(<<op>>, <<reg>>)'
    PROVE  FirstMultiplied(op, reg)
<1> DEFINE wide == IsWide(reg)
           signed == op = "imul"
           m == Mod(wide)
           d == Register(reg, start.ax, start.dx)
           s == Src(1)
           low == (d * s) % m
           high == Upper(d, s, signed, wide)
           cf == IF signed THEN high = (IF Top(low, wide) THEN m - 1 ELSE 0) ELSE high # 0
           e == IF wide THEN ax ELSE al
           r == Multiply(flags, s, signed, wide)
<1>1. pc = 0 /\ code[1].op = op /\ code[1].reg = reg
  BY RanStep
<1>2. Moves /\ MultiplyStep
  BY <1>1, StepIs
<1>3. Inst = code[1]
  BY <1>1 DEF Inst
<1>4. /\ s = Inst.src /\ signed = (Inst.op = "imul") /\ wide = WordSize
      /\ wide \in BOOLEAN /\ signed \in BOOLEAN
  BY <1>1, <1>3 DEF Src, WordSize, IsWide
<1>5. s \in 0 .. m - 1 /\ s \in Nat
  BY <1>2, <1>4, InstIs
<1>6. e = d
  <2>1. ax = start.ax /\ dx = start.dx
    BY <1>1 DEF Begun
  <2> QED
    BY <2>1 DEF al, Register, IsWide, WordRegs
<1>7. Leaves(r.ax, r.dx, r.flags) /\ Multiplied(s, signed, wide)
  <2>1. Leaves(r.ax, r.dx, r.flags)
    BY <1>2, <1>4, Zenon DEF MultiplyStep
  <2> HIDE DEF s, signed, wide
  <2> QED
    BY <1>4, <1>5, <2>1, MultiplyIs
<1> HIDE DEF s, signed, wide, d, e
<1>8. /\ r.ax = (IF wide THEN (e * s) % m ELSE Wide(Upper(e, s, signed, wide), (e * s) % m))
      /\ r.dx = (IF wide THEN Upper(e, s, signed, wide) ELSE dx)
      /\ e \in 0 .. m - 1 /\ (e * s) % m \in 0 .. m - 1
      /\ Upper(e, s, signed, wide) \in 0 .. m - 1
  BY <1>7, Zenon DEF Multiplied, e
<1>9. LET l == (e * s) % m
          u == Upper(e, s, signed, wide)
          c == IF signed THEN u = (IF Top(l, wide) THEN m - 1 ELSE 0) ELSE u # 0
      IN  r.flags.cf = c /\ r.flags.of = c
  BY <1>7, Zenon DEF Multiplied, e
<1>10. /\ d \in 0 .. m - 1 /\ low \in 0 .. m - 1 /\ high \in 0 .. m - 1
       /\ r.ax = (IF wide THEN low ELSE Wide(high, low))
       /\ r.dx = (IF wide THEN high ELSE dx)
  BY <1>6, <1>8
<1>11. r.flags.cf = cf /\ r.flags.of = cf
  BY <1>6, <1>9, Zenon
<1>12. ax' = r.ax /\ dx' = r.dx /\ flags' = r.flags
  BY <1>7 DEF Leaves
<1> HIDE DEF low, high, cf, r
<1>13. (IF wide THEN ax' ELSE ax' % ByteMod) = low
       /\ (IF wide THEN dx' ELSE ax' \div ByteMod) = high
  <2>1. CASE wide
    BY <1>10, <1>12, <2>1
  <2>2. CASE ~wide
    <3>1. /\ m = ByteMod /\ ByteMod \in Nat \ {0}
          /\ low \in 0 .. ByteMod - 1 /\ high \in 0 .. ByteMod - 1
          /\ low \in Int /\ high \in Int
      BY <1>10, <2>2, Widths DEF Mod
    <3>2. low % ByteMod = low /\ high % ByteMod = high
      BY <3>1, SmallResidue
    <3>3. Wide(high, low) % ByteMod = low /\ Wide(high, low) \div ByteMod = high
      BY <3>1, <3>2, WideIs
    <3> QED
      BY <1>10, <1>12, <2>2, <3>3
  <2> QED
    BY <1>4, <2>1, <2>2
<1>14. LowHalf(wide)' = low /\ HighHalf(wide)' = high
  BY <1>13, Zenon DEF LowHalf, HighHalf, al, ah, wide
<1> QED
  BY <1>4, <1>5, <1>10, <1>11, <1>12, <1>14, Zenon DEF wide, d, s, m, low, high, cf, signed, FirstMultiplied

LEMMA CarryStep ==
    Begun /\ Machine /\ CarryOfProducts /\ [Next]_vars => CarryOfProducts'
<1> SUFFICES ASSUME Begun, Machine, CarryOfProducts, [Next]_vars
             PROVE  CarryOfProducts'
  OBVIOUS
<1>1. CASE Stays
  BY <1>1 DEF Stays, CarryOfProducts, Ran, Src
<1>2. CASE ~Stays
  <2> SUFFICES ASSUME NEW reg \in {"al", "ax"}
               PROVE  LET m == Mod(IsWide(reg))
                          s == Src(1)
                          d == Register(reg, start.ax, start.dx)
                          fits == Signed(d, m) * Signed(s, m) \in -(m \div 2) .. m \div 2 - 1
                      IN
                      /\ Ran(<<"mul">>, <<reg>>)' =>
                           flags'.cf = (d * s >= m) /\ flags'.of = flags'.cf
                      /\ Ran(<<"imul">>, <<reg>>)' =>
                           flags'.cf = fits /\ flags'.of = flags'.cf
    BY <1>2, StepIs DEF Moves, CarryOfProducts, Src
  <2> DEFINE wide == IsWide(reg)
             m == Mod(wide)
             s == Src(1)
             d == Register(reg, start.ax, start.dx)
             low == (d * s) % m
             fits == Signed(d, m) * Signed(s, m) \in -(m \div 2) .. m \div 2 - 1
  <2>1. ASSUME Ran(<<"mul">>, <<reg>>)'
        PROVE  flags'.cf = (d * s >= m) /\ flags'.of = flags'.cf
    <3> DEFINE high == Upper(d, s, FALSE, wide)
               cf == high # 0
    <3>1. /\ wide \in BOOLEAN /\ d \in 0 .. m - 1 /\ s \in 0 .. m - 1
          /\ flags'.cf = cf /\ flags'.of = cf
      <4> DEFINE signed == "mul" = "imul"
      <4>1. signed = FALSE
        OBVIOUS
      <4>2. "mul" \in {"mul", "imul"}
        OBVIOUS
      <4>3. LET hi == Upper(d, s, signed, wide)
                c == IF signed THEN hi = (IF Top(low, wide) THEN m - 1 ELSE 0) ELSE hi # 0
            IN  /\ wide \in BOOLEAN /\ d \in 0 .. m - 1 /\ s \in 0 .. m - 1
                /\ flags'.cf = c /\ flags'.of = c
        <5>1. FirstMultiplied("mul", reg)
          BY <1>2, <2>1, <4>2, FirstProduct, Zenon
        <5> QED
          BY <5>1, Zenon DEF FirstMultiplied
      <4> HIDE DEF signed, d, s, wide, m, low
      <4> QED
        BY <4>1, <4>3, Zenon
    <3> HIDE DEF wide, s, d
    <3>2. high = (d * s) \div m /\ d * s \in Nat
      BY <3>1, UnsignedProduct, Zenon
    <3>3. m \in Nat \ {0}
      BY <3>1, ModIs
    <3> DEFINE x == d * s
    <3> HIDE DEF high, x, m
    <3>4. x = m * (x \div m) + (x % m) /\ x \div m \in Int /\ x % m \in 0 .. m - 1
      <4>1. x \in Int
        BY <3>2 DEF x
      <4> QED
        BY <3>3, <4>1, DivisionIs
    <3> DEFINE q == x \div m
    <3>5. q # 0 <=> x >= m
      <4>1. x \in Nat
        BY <3>2 DEF x
      <4> DEFINE t == x % m
      <4> HIDE DEF q, t
      <4>2. x = m * q + t /\ q \in Int /\ t \in 0 .. m - 1
        BY <3>4 DEF q, t
      <4>3. CASE q = 0
        BY <3>3, <4>2, <4>3
      <4>4. CASE q >= 1
        <5>1. m * q >= m
          BY <3>3, <4>2, <4>4, SMT
        <5> DEFINE y == m * q
        <5>2. y \in Int
          BY <3>3, <4>2
        <5> HIDE DEF y
        <5> QED
          BY <3>3, <4>2, <4>4, <5>1, <5>2 DEF y
      <4>5. CASE q <= -1
        <5>1. m * q <= -m
          BY <3>3, <4>2, <4>5, SMT
        <5> DEFINE y == m * q
        <5>2. y \in Int
          BY <3>3, <4>2
        <5> HIDE DEF y
        <5> QED
          BY <3>3, <4>1, <4>2, <4>5, <5>1, <5>2 DEF y
      <4> QED
        BY <4>2, <4>3, <4>4, <4>5
    <3>6. cf = (d * s >= m)
      <4>1. high = q
        BY <3>2 DEF x
      <4> HIDE DEF q
      <4> QED
        BY <3>5, <4>1 DEF x
    <3> QED
      BY <3>1, <3>6, Zenon
  <2>2. ASSUME Ran(<<"imul">>, <<reg>>)'
        PROVE  flags'.cf = fits /\ flags'.of = flags'.cf
    <3> DEFINE high == Upper(d, s, TRUE, wide)
               cf == high = (IF Top(low, wide) THEN m - 1 ELSE 0)
    <3>1. /\ wide \in BOOLEAN /\ d \in 0 .. m - 1 /\ s \in 0 .. m - 1
          /\ low \in 0 .. m - 1
          /\ flags'.cf = cf /\ flags'.of = cf
      <4> DEFINE signed == "imul" = "imul"
      <4>1. signed = TRUE
        OBVIOUS
      <4>2. "imul" \in {"mul", "imul"}
        OBVIOUS
      <4>3. LET hi == Upper(d, s, signed, wide)
                c == IF signed THEN hi = (IF Top(low, wide) THEN m - 1 ELSE 0) ELSE hi # 0
            IN  /\ wide \in BOOLEAN /\ d \in 0 .. m - 1 /\ s \in 0 .. m - 1
                /\ low \in 0 .. m - 1
                /\ flags'.cf = c /\ flags'.of = c
        <5>1. FirstMultiplied("imul", reg)
          BY <1>2, <2>2, <4>2, FirstProduct, Zenon
        <5> QED
          BY <5>1, Zenon DEF FirstMultiplied
      <4> HIDE DEF signed, d, s, wide, m, low
      <4> QED
        BY <4>1, <4>3, Zenon
    <3> HIDE DEF wide, s, d
    <3>2. PICK h \in Nat \ {0, 1} : m = 2 * h /\ m \div 2 = h
      BY <3>1, ModIs
    <3>3. PICK u \in -h .. h - 1 :
             /\ Signed(d, m) * Signed(s, m) = m * u + low
             /\ high = u % m
      <4>1. Corrects(d, s, wide, h)
        BY <3>1, <3>2, SignedProduct
      <4> QED
        BY <4>1, Zenon DEF Corrects
    <3>4. Top(low, wide) <=> low >= h
      <4>1. low % (2 * h) = low
        <5>1. 2 * h \in Nat \ {0} /\ low \in 0 .. 2 * h - 1
          BY <3>1, <3>2
        <5> DEFINE w == 2 * h
        <5> HIDE DEF w, low
        <5> QED
          BY <5>1, SmallResidue DEF w
      <4> HIDE DEF low
      <4>2. low \in Int
        BY <3>1, <3>2
      <4> QED
        BY <3>1, <3>2, <4>1, <4>2, SignIs
    <3> HIDE DEF high, low
    <3>5. m * u + low \in -h .. h - 1 <=> u % m = (IF low >= h THEN m - 1 ELSE 0)
      <4>1. low \in 0 .. 2 * h - 1
        BY <3>1, <3>2
      <4> DEFINE w == 2 * h
      <4>2. w * u + low \in -h .. h - 1 <=> u % w = (IF low >= h THEN w - 1 ELSE 0)
        BY <4>1, SignedHalves
      <4>3. w = m
        BY <3>2
      <4> HIDE DEF m, w
      <4> QED
        BY <4>2, <4>3, Zenon
    <3>6. cf = fits
      <4>1. cf <=> u % m = (IF low >= h THEN m - 1 ELSE 0)
        BY <3>3, <3>4, Zenon
      <4>2. fits <=> m * u + low \in -h .. h - 1
        BY <3>2, <3>3, Zenon
      <4>3. cf \in BOOLEAN /\ fits \in BOOLEAN
        OBVIOUS
      <4> HIDE DEF cf, fits
      <4> QED
        BY <3>5, <4>1, <4>2, <4>3, Zenon
    <3> QED
      BY <3>1, <3>6, Zenon
  <2> QED
    BY <2>1, <2>2
<1> QED
  BY <1>1, <1>2

\* The carry of MUL, and that of IMUL, which is the other way round.
THEOREM ProductsCarry == Spec => []CarryOfProducts
<1>1. Init => CarryOfProducts
  BY DEF Init, CarryOfProducts, Ran
<1> QED
  BY <1>1, CarryStep, BegunInvariance, MachineInvariance, PTL DEF Spec

-----------------------------------------------------------------------------
(* Quotients.                                                                *)

\* What can end the emulator: a divide error.
LEMMA TrapIs ==
    ASSUME [Next]_vars, trapped' # trapped
    PROVE  /\ Stays /\ ~trapped /\ Running
           /\ \/ Inst.op = "aam"
              \/ /\ Inst.op \in {"div", "idiv"}
                 /\ DivideWide(Inst.src, Inst.op = "idiv", WordSize).overflow
<1>1. \A a, d, f : ~Leaves(a, d, f)
  BY DEF Leaves
<1>2. \A r : ~SetReg(r)
  BY <1>1, Zenon DEF SetReg
<1>3. ~(UNCHANGED vars)
  BY DEF vars
<1>4. Aam \/ DivideStep
  BY <1>1, <1>2, <1>3, Zenon DEF Next, AluStep, IncDecStep, NegStep, NotStep, RotateBy,
     DecimalStep, Aad, Extend, MultiplyStep, Done
<1>5. DivideOverflow => Stays
  BY DEF DivideOverflow, Stays
<1> QED
  BY <1>1, <1>4, <1>5, Zenon DEF Aam, DivideStep, Running

\* Why a division is refused: a divisor of zero, or a quotient that does not fit.
Refused(op, reg) ==
    LET wide == IsWide(reg)
        signed == op = "idiv"
        m == Mod(wide)
        s == code[pc + 1].src
        dividend == IF wide THEN dx * WordMod + ax ELSE ax
        n == Meant(dividend, signed, m * m)
        v == Meant(s, signed, m)
    IN  /\ s \in 0 .. m - 1
        /\ \/ s = 0
           \/ \E q \in Int, t \in Int :
                /\ Rounds(n, v, q, t)
                /\ q \notin (IF signed THEN -(m \div 2) .. m \div 2 - 1 ELSE 0 .. m - 1)
                /\ q <= (IF n < 0 THEN -n ELSE n) /\ -q <= (IF n < 0 THEN -n ELSE n)
                /\ ~signed => q = dividend \div s
                /\ n \in Int /\ v \in Int

\* A division that is refused.
LEMMA Refusal ==
    ASSUME Begun, Machine, [Next]_vars, trapped' # trapped,
           NEW op \in {"div", "idiv"}, NEW reg \in {"al", "ax"},
           code[pc + 1].op = op, code[pc + 1].reg = reg
    PROVE  Refused(op, reg)
<1> DEFINE wide == IsWide(reg)
           signed == op = "idiv"
           m == Mod(wide)
           s == code[pc + 1].src
           dividend == IF wide THEN dx * WordMod + ax ELSE ax
           n == Meant(dividend, signed, m * m)
           v == Meant(s, signed, m)
           r == DivideWide(s, signed, wide)
           range == IF signed THEN -(m \div 2) .. m \div 2 - 1 ELSE 0 .. m - 1
           size == IF n < 0 THEN -n ELSE n
<1>1. r.overflow /\ pc < Len(code)
  <2>1. Inst.op = op /\ Inst.reg = reg /\ Inst.src = s /\ op # "aam"
    BY DEF Inst
  <2>2. WordSize = wide /\ (Inst.op = "idiv") = signed
    BY <2>1 DEF WordSize, IsWide
  <2> QED
    BY <2>1, <2>2, TrapIs, Zenon DEF Running
<1>2. s \in 0 .. m - 1 /\ wide \in BOOLEAN /\ signed \in BOOLEAN
  <2>1. pc + 1 \in 1 .. Len(code)
    BY <1>1, CodeType DEF Begun
  <2>2. s \in 0 .. Mod(IsWide(code[pc + 1].reg)) - 1
    BY <2>1, CodeType, Zenon DEF Begun
  <2> QED
    BY <2>2 DEF IsWide
<1>3. CASE s = 0
  BY <1>2, <1>3, Zenon DEF Refused
<1>4. CASE s # 0
  <2>1. s \in 1 .. m - 1
    <3> HIDE DEF s, m
    <3>1. m \in Nat
      BY <1>2, ModIs DEF m
    <3> QED
      BY <1>2, <1>4, <3>1
  <2>2. \E q \in Int, t \in Int :
           /\ Rounds(n, v, q, t)
           /\ r.overflow <=> q \notin range
           /\ r.ax = IF wide THEN q % m ELSE Wide(t, q)
           /\ r.dx = IF wide THEN t % m ELSE dx
           /\ q <= size /\ -q <= size
           /\ ~signed => q = dividend \div s
           /\ n \in Int /\ v \in Int
    <3>1. Divided(s, signed, wide)
      BY <1>2, <2>1, DivideWideIs
    <3> QED
      BY <3>1, Zenon DEF Divided
  <2> HIDE DEF n, v, r, range, size, dividend
  <2>3. PICK q \in Int, t \in Int :
           /\ Rounds(n, v, q, t)
           /\ r.overflow <=> q \notin range
           /\ q <= size /\ -q <= size
           /\ ~signed => q = dividend \div s
           /\ n \in Int /\ v \in Int
    BY <2>2
  <2>4. q \notin range
    BY <1>1, <2>3
  <2> QED
    BY <1>2, <2>3, <2>4, Zenon DEF n, v, range, size, dividend, Refused
<1> QED
  BY <1>3, <1>4

\* What a division that a program begins with leaves.
FirstDivided(op, reg) ==
    LET wide == IsWide(reg)
        signed == op = "idiv"
        m == Mod(wide)
        s == Src(1)
        dividend == IF wide THEN start.dx * WordMod + start.ax ELSE start.ax
        n == Meant(dividend, signed, m * m)
        v == Meant(s, signed, m)
    IN  /\ wide \in BOOLEAN /\ s \in 1 .. m - 1
        /\ \E q \in Int, t \in Int :
             /\ Rounds(n, v, q, t)
             /\ q \in (IF signed THEN -(m \div 2) .. m \div 2 - 1 ELSE 0 .. m - 1)
             /\ LowHalf(wide)' = q % m /\ HighHalf(wide)' = t % m
             /\ ~signed => q = dividend \div s
             /\ n \in Int /\ v \in Int

\* A division that a program begins with.
LEMMA FirstQuotient ==
    ASSUME Begun, Machine, [Next]_vars, ~Stays,
           NEW op \in {"div", "idiv"}, NEW reg \in {"al", "ax"}, Ran(<<op>>, <<reg>>)'
    PROVE  FirstDivided(op, reg)
<1> DEFINE wide == IsWide(reg)
           signed == op = "idiv"
           m == Mod(wide)
           s == Src(1)
           dividend == IF wide THEN start.dx * WordMod + start.ax ELSE start.ax
           n == Meant(dividend, signed, m * m)
           v == Meant(s, signed, m)
           r == DivideWide(s, signed, wide)
           range == IF signed THEN -(m \div 2) .. m \div 2 - 1 ELSE 0 .. m - 1
           size == IF n < 0 THEN -n ELSE n
<1>1. pc = 0 /\ code[1].op = op /\ code[1].reg = reg
  BY RanStep
<1>2. Moves /\ DivideStep
  BY <1>1, StepIs
<1>3. Inst = code[1]
  BY <1>1 DEF Inst
<1>4. /\ s = Inst.src /\ signed = (Inst.op = "idiv") /\ wide = WordSize
      /\ wide \in BOOLEAN /\ signed \in BOOLEAN
  BY <1>1, <1>3 DEF Src, WordSize, IsWide
<1>5. s \in 0 .. m - 1 /\ m \in Nat
  BY <1>2, <1>4, InstIs
<1>6. ax = start.ax /\ dx = start.dx
  BY <1>1 DEF Begun
<1>7. ~r.overflow /\ Leaves(r.ax, r.dx, flags)
  <2>1. ~DivideOverflow
    BY DEF DivideOverflow, Stays
  <2> QED
    BY <1>2, <1>4, <2>1, Zenon DEF DivideStep
<1>8. s # 0
  <2> SUFFICES ASSUME s = 0 PROVE FALSE
    OBVIOUS
  <2> HIDE DEF s, signed, wide
  <2>1. r = [ax |-> ax, dx |-> dx, overflow |-> TRUE]
    BY Zenon DEF DivideWide
  <2>2. r.overflow
    BY <2>1
  <2> QED
    BY <1>7, <2>2
<1>9. s \in 1 .. m - 1
  <2> HIDE DEF s, m
  <2> QED
    BY <1>5, <1>8
<1>10. \E q \in Int, t \in Int :
          /\ Rounds(n, v, q, t)
          /\ r.overflow <=> q \notin range
          /\ r.ax = IF wide THEN q % m ELSE Wide(t, q)
          /\ r.dx = IF wide THEN t % m ELSE dx
          /\ q <= size /\ -q <= size
          /\ ~signed => q = dividend \div s
          /\ n \in Int /\ v \in Int
  <2> DEFINE current == IF wide THEN dx * WordMod + ax ELSE ax
  <2>1. current = dividend
    BY <1>6
  <2> DEFINE k == Meant(current, signed, m * m)
             bound == IF k < 0 THEN -k ELSE k
  <2>2. \E q \in Int, t \in Int :
           /\ Rounds(k, v, q, t)
           /\ r.overflow <=> q \notin range
           /\ r.ax = IF wide THEN q % m ELSE Wide(t, q)
           /\ r.dx = IF wide THEN t % m ELSE dx
           /\ q <= bound /\ -q <= bound
           /\ ~signed => q = current \div s
           /\ k \in Int /\ v \in Int
    <3> HIDE DEF wide, signed, s
    <3>1. Divided(s, signed, wide)
      BY <1>4, <1>9, DivideWideIs
    <3> QED
      BY <3>1, Zenon DEF Divided
  <2>3. k = n /\ bound = size
    <3> HIDE DEF current, dividend, signed, m
    <3> QED
      BY <2>1, Zenon
  <2> HIDE DEF k, bound, current, n, v, r, range, size, dividend
  <2> QED
    BY <2>1, <2>2, <2>3
<1>11. PICK q \in Int, t \in Int :
          /\ Rounds(n, v, q, t)
          /\ q \in range
          /\ r.ax = IF wide THEN q % m ELSE Wide(t, q)
          /\ r.dx = IF wide THEN t % m ELSE dx
          /\ ~signed => q = dividend \div s
          /\ n \in Int /\ v \in Int
  <2> HIDE DEF n, v, r, range, size, dividend
  <2> QED
    BY <1>7, <1>10
<1>12. ax' = r.ax /\ dx' = r.dx
  BY <1>7 DEF Leaves
<1> HIDE DEF r, wide, n, v, range, s, dividend, signed
<1>13. (IF wide THEN ax' ELSE ax' % ByteMod) = q % m
       /\ (IF wide THEN dx' ELSE ax' \div ByteMod) = t % m
  <2>1. CASE wide
    BY <1>11, <1>12, <2>1
  <2>2. CASE ~wide
    <3>1. m = ByteMod
      BY <2>2 DEF Mod
    <3>2. Wide(t, q) % ByteMod = q % ByteMod /\ Wide(t, q) \div ByteMod = t % ByteMod
      BY WideIs
    <3> QED
      BY <1>11, <1>12, <2>2, <3>1, <3>2
  <2> QED
    BY <1>4, <2>1, <2>2
<1>14. LowHalf(wide)' = q % m /\ HighHalf(wide)' = t % m
  BY <1>13, Zenon DEF LowHalf, HighHalf, al, ah, wide
<1> QED
  BY <1>4, <1>9, <1>11, <1>14, Zenon DEF wide, signed, m, s, dividend, n, v, range, FirstDivided

\* There is no other quotient.
LEMMA RoundsOnce ==
    ASSUME NEW n \in Int, NEW v \in Int, NEW q \in Int, NEW t \in Int,
           Rounds(n, v, q, t), NEW p \in Int, Residue(n - p * v, n, v)
    PROVE  p = q
<1> DEFINE w == IF v < 0 THEN -v ELSE v
           u == n - p * v
           k == IF v < 0 THEN p - q ELSE q - p
           y == p * v
           z == v * q
<1>1. /\ n = z + t /\ u = n - y
      /\ (IF t < 0 THEN -t ELSE t) < w /\ (t # 0 => (t < 0) = (n < 0))
      /\ (IF u < 0 THEN -u ELSE u) < w /\ (u # 0 => (u < 0) = (n < 0))
  BY DEF Rounds, Residue
<1>2. w * k = z - y /\ k \in Int
  BY DEF w
<1>3. y \in Int /\ z \in Int /\ u \in Int /\ w \in Int
  OBVIOUS
<1> HIDE DEF y, z, u
<1>4. w > 0
  BY <1>1, <1>3
<1>5. -w < u - t /\ u - t < w
  <2> HIDE DEF w
  <2> QED
    BY <1>1, <1>3
<1>6. z - y = u - t
  BY <1>1, <1>3
<1> HIDE DEF w, k
<1>7. w \in Nat \ {0}
  BY <1>3, <1>4
<1>8. k = 0
  BY <1>2, <1>5, <1>6, <1>7, Multiple
<1> QED
  BY <1>8 DEF k

LEMMA SignedResidue ==
    ASSUME NEW h \in Nat \ {0, 1}, NEW q \in -h .. h - 1
    PROVE  Signed(q % (2 * h), 2 * h) = q
<1>1. 0 \in 0 .. 2 * h - 1
  OBVIOUS
<1>2. q % (2 * h) = (IF q < 0 THEN q + 2 * h ELSE q)
  BY <1>1, SignedHalves
<1>3. (2 * h) \div 2 = h
  OBVIOUS
<1> QED
  BY <1>2, <1>3 DEF Signed

\* What CBW and CWD leave for a division.
Extension ==
    /\ pc = 1 /\ code[1].op = "cbw" => ax = SignExtend(Low(start.ax))
    /\ pc = 1 /\ code[1].op = "cwd" =>
         ax = start.ax /\ dx = (IF Top(start.ax, TRUE) THEN WordMod - 1 ELSE 0)

LEMMA ExtensionInvariance == Spec => []Extension
<1>1. Init => Extension
  BY DEF Init, Extension
<1>2. Begun /\ Extension /\ [Next]_vars => Extension'
  <2> SUFFICES ASSUME Begun, Extension, [Next]_vars PROVE Extension'
    OBVIOUS
  <2>1. CASE Stays
    BY <2>1 DEF Stays, Extension
  <2>2. CASE ~Stays
    <3>1. start' = start /\ code' = code /\ pc' = pc + 1 /\ pc \in Nat
      BY <2>2, StepIs, CodeType DEF Moves, Begun
    <3>2. ASSUME pc' = 1, code[1].op = "cbw" PROVE ax' = SignExtend(Low(start.ax))
      <4>1. pc = 0 /\ code[pc + 1].op = "cbw"
        BY <3>1, <3>2
      <4>2. Extend /\ ax = start.ax /\ Inst.op = "cbw"
        BY <2>2, <4>1, StepIs DEF Begun, Inst
      <4> QED
        BY <4>2, Zenon DEF Extend, Leaves, al, Low
    <3>3. ASSUME pc' = 1, code[1].op = "cwd"
          PROVE  ax' = start.ax /\ dx' = (IF Top(start.ax, TRUE) THEN WordMod - 1 ELSE 0)
      <4>1. pc = 0 /\ code[pc + 1].op = "cwd"
        BY <3>1, <3>3
      <4>2. Extend /\ ax = start.ax /\ Inst.op # "cbw"
        BY <2>2, <4>1, StepIs DEF Begun, Inst
      <4> QED
        BY <4>2, Zenon DEF Extend, Leaves
    <3> QED
      BY <3>1, <3>2, <3>3, Zenon DEF Extension
  <2> QED
    BY <2>1, <2>2
<1> QED
  BY <1>1, <1>2, BegunInvariance, PTL DEF Spec

\* A residue is as many values as the divisor has.
LEMMA ResidueIs ==
    ASSUME NEW n \in Int, NEW v \in Int, NEW q \in Int, NEW t \in Int, Rounds(n, v, q, t)
    PROVE  /\ t < (IF v < 0 THEN -v ELSE v) /\ -t < (IF v < 0 THEN -v ELSE v)
           /\ t # 0 => (t < 0 <=> n < 0)
           /\ n = v * q + t /\ q * v + t = n
<1> DEFINE neg == t < 0
           nneg == n < 0
<1>1. n = v * q + t /\ (IF t < 0 THEN -t ELSE t) < (IF v < 0 THEN -v ELSE v)
      /\ (t # 0 => neg = nneg)
  BY DEF Rounds, Residue
<1>2. t # 0 => (t < 0 <=> n < 0)
  BY <1>1
<1>3. q * v = v * q
  OBVIOUS
<1> QED
  BY <1>1, <1>2, <1>3

\* The only quotient of a word or a byte, extended, that does not fit.
LEMMA LargestQuotient ==
    ASSUME NEW h \in Nat \ {0, 1}, NEW n \in -h .. h - 1, NEW v \in Int,
           NEW q \in Int, NEW t \in Int, Rounds(n, v, q, t), q \notin -h .. h - 1,
           q <= (IF n < 0 THEN -n ELSE n), -q <= (IF n < 0 THEN -n ELSE n)
    PROVE  n = -h /\ v = -1
<1>1. q = h /\ n = -h
  OBVIOUS
<1>2. /\ t < (IF v < 0 THEN -v ELSE v) /\ -t < (IF v < 0 THEN -v ELSE v)
      /\ n = v * q + t /\ n \in Int
  BY ResidueIs
<1>3. ~(v >= 0)
  <2> SUFFICES ASSUME v >= 0 PROVE FALSE
    OBVIOUS
  <2>1. v * h >= v
    BY SMT
  <2> DEFINE y == v * h
  <2>2. y \in Int
    OBVIOUS
  <2> HIDE DEF y
  <2> QED
    BY <1>1, <1>2, <2>1, <2>2 DEF y
<1>4. ~(v <= -2)
  <2> SUFFICES ASSUME v <= -2 PROVE FALSE
    OBVIOUS
  <2>1. v * (h - 1) <= -(2 * (h - 1)) /\ v * (h - 1) = v * h - v
    BY SMT
  <2> DEFINE y == v * h
  <2>2. y \in Int
    OBVIOUS
  <2>3. y - v <= -(2 * (h - 1))
    BY <2>1
  <2> HIDE DEF y
  <2>4. -h = y + t
    BY <1>1, <1>2 DEF y
  <2> QED
    BY <1>2, <2>2, <2>3, <2>4
<1> QED
  BY <1>1, <1>3, <1>4

\* The word or double word that CBW and CWD make means what the byte or word does.
LEMMA ExtendedIs ==
    ASSUME Begun, Machine, Extension, NEW wide \in BOOLEAN,
           pc = 1, code[1].op = (IF wide THEN "cwd" ELSE "cbw")
    PROVE  LET m == Mod(wide)
               dividend == IF wide THEN dx * WordMod + ax ELSE ax
           IN  Signed(dividend, m * m)
                 = Signed(IF wide THEN start.ax ELSE Low(start.ax), m)
<1> DEFINE m == Mod(wide)
           x == IF wide THEN start.ax ELSE Low(start.ax)
           dividend == IF wide THEN dx * WordMod + ax ELSE ax
<1>1. PICK h \in Nat \ {0, 1} : m = 2 * h /\ m \div 2 = h
  BY ModIs
<1>2. x \in 0 .. m - 1 /\ x \in Int
  <2>1. CASE wide
    BY <2>1, AluAssumption, Widths DEF Begun, Mod
  <2>2. CASE ~wide
    BY <2>2, StartBytes DEF Mod
  <2> QED
    BY <2>1, <2>2
<1> DEFINE u == IF x >= h THEN -1 ELSE 0
<1>3. u \in -h .. h - 1 /\ u % m = (IF x >= h THEN m - 1 ELSE 0) /\ u \in Int
  <2>1. u \in -h .. h - 1 /\ 0 \in 0 .. 2 * h - 1
    BY <1>1
  <2>2. u % (2 * h) = (IF u < 0 THEN u + 2 * h ELSE u)
    <3> HIDE DEF u
    <3> QED
      BY <2>1, SignedHalves
  <2> HIDE DEF x, m
  <2> QED
    BY <1>1, <2>1, <2>2
<1>4. dividend = (u % m) * m + x
  <2>1. CASE wide
    <3>1. m = WordMod /\ x = start.ax
      BY <2>1 DEF Mod
    <3>2. ax = x /\ dx = (IF Top(start.ax, TRUE) THEN WordMod - 1 ELSE 0)
      BY <2>1, <3>1 DEF Extension
    <3>3. Top(x, wide) <=> x >= h
      <4>1. x % (2 * h) = x
        <5> DEFINE w == 2 * h
        <5>1. w \in Nat \ {0} /\ x \in 0 .. w - 1
          BY <1>1, <1>2
        <5> HIDE DEF w, x
        <5> QED
          BY <5>1, SmallResidue DEF w
      <4> HIDE DEF x
      <4> QED
        BY <1>1, <1>2, <4>1, SignIs
    <3>4. wide = TRUE
      BY <2>1
    <3>5. Top(start.ax, TRUE) <=> x >= h
      BY <3>1, <3>3, <3>4, Zenon
    <3>6. dx = u % m
      BY <1>3, <3>1, <3>2, <3>5
    <3> HIDE DEF x, u, m
    <3> QED
      BY <2>1, <3>1, <3>2, <3>6
  <2>2. CASE ~wide
    <3>1. m = ByteMod /\ x = Low(start.ax)
      BY <2>2 DEF Mod
    <3>2. ax = IF x < h THEN x ELSE x + WordMod - m
      BY <1>1, <2>2, <3>1 DEF Extension, SignExtend
    <3>3. WordMod = m * m
      BY <3>1 DEF WordMod
    <3> HIDE DEF x
    <3>4. CASE x >= h
      <4>1. dividend = (x + m * m) - m
        <5> DEFINE mm == m * m
        <5>1. mm \in Int /\ m \in Int
          BY <1>1
        <5>2. ax = x + mm - m
          BY <1>1, <1>2, <3>2, <3>3, <3>4
        <5> HIDE DEF mm, m
        <5> QED
          BY <1>2, <2>2, <5>1, <5>2 DEF mm
      <4>2. u % m = m - 1
        BY <1>3, <3>4
      <4>3. (m - 1) * m = m * m - m
        BY <1>1
      <4> DEFINE mm == m * m
      <4>4. mm \in Int /\ m \in Int
        BY <1>1
      <4> HIDE DEF u, dividend, mm, m
      <4> QED
        BY <1>2, <4>1, <4>2, <4>3, <4>4 DEF mm
    <3>5. CASE x < h
      BY <1>1, <1>2, <1>3, <2>2, <3>2, <3>5
    <3> QED
      BY <1>1, <1>2, <3>4, <3>5
  <2> QED
    BY <2>1, <2>2
<1>5. Signed((u % m) * m + x, m * m) = m * u + x
  <2>1. x \in 0 .. 2 * h - 1
    BY <1>1, <1>2
  <2> DEFINE w == 2 * h
  <2> HIDE DEF u, x
  <2>2. Signed((u % w) * w + x, w * w) = w * u + x
    BY <1>3, <2>1, SignedHalves
  <2> HIDE DEF w, m
  <2>3. w = m
    BY <1>1 DEF w
  <2> QED
    BY <2>2, <2>3
<1>6. m * u + x = Signed(x, m)
  <2> HIDE DEF x, m
  <2> QED
    BY <1>1, <1>2 DEF Signed
<1> QED
  BY <1>4, <1>5, <1>6, Zenon DEF dividend, m, x

\* A program that has just begun with a product.
LEMMA ProductStep ==
    ASSUME Begun, Machine, [Next]_vars, ~Stays, NEW reg \in {"al", "ax"}
    PROVE  ProductOf(reg)'
<1> DEFINE wide == IsWide(reg)
           m == Mod(wide)
           s == Src(1)
           d == Register(reg, start.ax, start.dx)
           low  == LowHalf(wide)'
           high == HighHalf(wide)'
           r == (d * s) % m
<1>1. ASSUME Ran(<<"mul">>, <<reg>>)' PROVE high * m + low = d * s
  <2> DEFINE signed == "mul" = "imul"
             upper == Upper(d, s, FALSE, wide)
  <2>1. signed = FALSE /\ "mul" \in {"mul", "imul"}
    OBVIOUS
  <2>2. /\ wide \in BOOLEAN /\ d \in 0 .. m - 1 /\ s \in 0 .. m - 1
        /\ low = r /\ high = Upper(d, s, signed, wide)
    <3>1. FirstMultiplied("mul", reg)
      BY <1>1, <2>1, FirstProduct, Zenon
    <3> QED
      BY <3>1, Zenon DEF FirstMultiplied
  <2> HIDE DEF signed, wide, d, s, low, high
  <2>3. high = upper
    BY <2>1, <2>2, Zenon
  <2>4. d * s \in Nat /\ upper = (d * s) \div m
    BY <2>2, UnsignedProduct, Zenon
  <2>5. m \in Nat \ {0}
    BY <2>2, ModIs
  <2> DEFINE x == d * s
  <2> HIDE DEF upper, x, m
  <2>6. x = m * (x \div m) + (x % m) /\ x \div m \in Int /\ x % m \in 0 .. m - 1
    <3>1. x \in Int
      BY <2>4 DEF x
    <3> QED
      BY <2>5, <3>1, DivisionIs
  <2> DEFINE u == x \div m
             v == x % m
  <2> HIDE DEF u, v
  <2>7. x = m * u + v /\ u \in Int /\ v \in Int /\ m \in Int
    BY <2>5, <2>6 DEF u, v
  <2>8. high = u /\ low = v
    BY <2>2, <2>3, <2>4 DEF u, v, x
  <2>9. u * m = m * u
    BY <2>7
  <2> QED
    BY <2>7, <2>8, <2>9 DEF x
<1>2. ASSUME Ran(<<"imul">>, <<reg>>)'
      PROVE  Signed(high * m + low, m * m) = Signed(d, m) * Signed(s, m)
  <2> DEFINE signed == "imul" = "imul"
             upper == Upper(d, s, TRUE, wide)
  <2>1. signed = TRUE /\ "imul" \in {"mul", "imul"}
    OBVIOUS
  <2>2. /\ wide \in BOOLEAN /\ d \in 0 .. m - 1 /\ s \in 0 .. m - 1
        /\ low = r /\ high = Upper(d, s, signed, wide) /\ r \in 0 .. m - 1
    <3>1. FirstMultiplied("imul", reg)
      BY <1>2, <2>1, FirstProduct, Zenon
    <3> QED
      BY <3>1, Zenon DEF FirstMultiplied
  <2> HIDE DEF signed, wide, d, s, low, high
  <2>3. high = upper
    BY <2>1, <2>2, Zenon
  <2>4. PICK h \in Nat \ {0, 1} : m = 2 * h
    BY <2>2, ModIs
  <2>5. PICK u \in -h .. h - 1 :
           /\ Signed(d, m) * Signed(s, m) = m * u + r
           /\ upper = u % m
    <3>1. wide \in BOOLEAN /\ d \in 0 .. Mod(wide) - 1 /\ s \in 0 .. Mod(wide) - 1
      BY <2>2
    <3>2. Mod(wide) = 2 * h
      BY <2>4
    <3>3. Corrects(d, s, wide, h)
      BY <3>1, <3>2, SignedProduct
    <3> QED
      BY <3>3, Zenon DEF Corrects
  <2> HIDE DEF upper, r
  <2> DEFINE w == 2 * h
  <2>6. r \in 0 .. w - 1
    BY <2>2, <2>4
  <2>7. Signed((u % w) * w + r, w * w) = w * u + r
    BY <2>6, SignedHalves
  <2>8. w = m
    BY <2>4
  <2> HIDE DEF w, m
  <2> QED
    BY <2>2, <2>3, <2>5, <2>7, <2>8, Zenon
<1>3. start' = start /\ code' = code
  BY StepIs DEF Moves
<1> QED
  BY <1>1, <1>2, <1>3, Zenon DEF ProductOf, Src

\* A program that has just begun with a division.
LEMMA DivisionStep ==
    ASSUME Begun, Machine, [Next]_vars, ~Stays, NEW reg \in {"al", "ax"}
    PROVE  QuotientOf(reg)'
<1> DEFINE wide == IsWide(reg)
           m == Mod(wide)
           s == Src(1)
           dividend == IF wide THEN start.dx * WordMod + start.ax ELSE start.ax
           low  == LowHalf(wide)'
           high == HighHalf(wide)'
           sdividend == Signed(dividend, m * m)
<1>1. ASSUME Ran(<<"div">>, <<reg>>)' PROVE low * s + high = dividend /\ high < s
  <2> DEFINE signed == "div" = "idiv"
             n == Meant(dividend, signed, m * m)
             v == Meant(s, signed, m)
             range == IF signed THEN -(m \div 2) .. m \div 2 - 1 ELSE 0 .. m - 1
  <2>1. signed = FALSE /\ "div" \in {"div", "idiv"}
    OBVIOUS
  <2>2. /\ wide \in BOOLEAN /\ s \in 1 .. m - 1
        /\ \E q \in Int, t \in Int :
             /\ Rounds(n, v, q, t) /\ q \in range
             /\ low = q % m /\ high = t % m
             /\ ~signed => q = dividend \div s
             /\ n \in Int /\ v \in Int
    <3>1. FirstDivided("div", reg)
      BY <1>1, <2>1, FirstQuotient, Zenon
    <3> QED
      BY <3>1, Zenon DEF FirstDivided
  <2>3. n = dividend /\ v = s /\ range = 0 .. m - 1
    BY <2>1 DEF Meant
  <2> HIDE DEF signed, wide, dividend, n, v, range, s, low, high
  <2>4. PICK q \in Int, t \in Int :
           /\ Rounds(dividend, s, q, t) /\ q \in 0 .. m - 1
           /\ low = q % m /\ high = t % m /\ dividend \in Int
    BY <2>2, <2>3
  <2>5. m \in Nat \ {0}
    BY <2>2, ModIs
  <2> HIDE DEF m
  <2>6. /\ t < (IF s < 0 THEN -s ELSE s) /\ -t < (IF s < 0 THEN -s ELSE s)
        /\ t # 0 => (t < 0 <=> dividend < 0)
        /\ q * s + t = dividend
    <3>1. s \in Int
      BY <2>2, <2>5
    <3> QED
      BY <2>4, <3>1, ResidueIs
  <2>7. t >= 0
    <3>1. dividend >= 0
      <4>1. start.dx \in Nat /\ start.ax \in Nat /\ WordMod \in Nat
        BY AluAssumption, Widths DEF Begun
      <4>2. start.dx * WordMod \in Nat
        BY <4>1
      <4> QED
        BY <4>1, <4>2 DEF dividend
    <3> QED
      BY <2>4, <2>6, <3>1
  <2>8. t \in 0 .. m - 1 /\ t < s
    BY <2>2, <2>5, <2>6, <2>7
  <2>9. q % m = q /\ t % m = t
    BY <2>4, <2>5, <2>8, SmallResidue
  <2> QED
    BY <2>4, <2>6, <2>8, <2>9
<1>2. ASSUME Ran(<<"idiv">>, <<reg>>)'
      PROVE  /\ Signed(low, m) * Signed(s, m) + Signed(high, m) = sdividend
             /\ Residue(Signed(high, m), sdividend, Signed(s, m))
  <2> DEFINE signed == "idiv" = "idiv"
             n == Meant(dividend, signed, m * m)
             v == Meant(s, signed, m)
             range == IF signed THEN -(m \div 2) .. m \div 2 - 1 ELSE 0 .. m - 1
  <2>1. signed = TRUE /\ "idiv" \in {"div", "idiv"}
    OBVIOUS
  <2>2. /\ wide \in BOOLEAN /\ s \in 1 .. m - 1
        /\ \E q \in Int, t \in Int :
             /\ Rounds(n, v, q, t) /\ q \in range
             /\ low = q % m /\ high = t % m
             /\ ~signed => q = dividend \div s
             /\ n \in Int /\ v \in Int
    <3>1. FirstDivided("idiv", reg)
      BY <1>2, <2>1, FirstQuotient, Zenon
    <3> QED
      BY <3>1, Zenon DEF FirstDivided
  <2>3. n = sdividend /\ v = Signed(s, m) /\ range = -(m \div 2) .. m \div 2 - 1
    BY <2>1 DEF Meant
  <2> HIDE DEF signed, wide, dividend, n, v, range, s, low, high, sdividend
  <2>4. PICK q \in Int, t \in Int :
           /\ Rounds(sdividend, v, q, t) /\ q \in -(m \div 2) .. m \div 2 - 1
           /\ low = q % m /\ high = t % m /\ sdividend \in Int /\ v \in Int
    BY <2>2, <2>3
  <2>5. PICK h \in Nat \ {0, 1} : m = 2 * h /\ m \div 2 = h
    BY <2>2, ModIs
  <2>6. /\ t < (IF v < 0 THEN -v ELSE v) /\ -t < (IF v < 0 THEN -v ELSE v)
        /\ q * v + t = sdividend
    BY <2>4, ResidueIs
  <2>7. v \in -h .. h - 1
    BY <2>2, <2>3, <2>5 DEF Signed
  <2>8. q \in -h .. h - 1 /\ t \in -h .. h - 1
    BY <2>4, <2>5, <2>6, <2>7
  <2> DEFINE w == 2 * h
  <2>9. Signed(q % w, w) = q /\ Signed(t % w, w) = t
    BY <2>8, SignedResidue
  <2>10. w = m
    BY <2>5
  <2> HIDE DEF w, m
  <2>11. Signed(low, m) = q /\ Signed(high, m) = t /\ Signed(s, m) = v
    BY <2>3, <2>4, <2>9, <2>10
  <2>12. Residue(t, sdividend, v)
    BY <2>4 DEF Rounds
  <2> QED
    BY <2>6, <2>11, <2>12
<1>3. start' = start /\ code' = code
  BY StepIs DEF Moves
<1> QED
  BY <1>1, <1>2, <1>3, Zenon DEF QuotientOf, Dividend, Src

\* A division that ends the program.
LEMMA RefusalStep ==
    ASSUME Begun, Machine, Extension, [Next]_vars, trapped' # trapped, NEW reg \in {"al", "ax"}
    PROVE  RefusalOf(reg)'
<1> DEFINE wide == IsWide(reg)
           m == Mod(wide)
           d == Register(reg, start.ax, start.dx)
           dividend == IF wide THEN start.dx * WordMod + start.ax ELSE start.ax
           current  == IF wide THEN dx * WordMod + ax ELSE ax
           sdividend == Signed(dividend, m * m)
           scurrent  == Signed(current, m * m)
<1>1. wide \in BOOLEAN
  BY DEF IsWide
<1>2. PICK h \in Nat \ {0, 1} : m = 2 * h /\ m \div 2 = h
  BY <1>1, ModIs
<1>3. pc = 0 => current = dividend
  BY DEF Begun
<1>4. ASSUME pc = 0, code[1].op = "div", code[1].reg = reg
      PROVE  Src(1) = 0 \/ dividend \div Src(1) >= m
  <2> DEFINE s == code[pc + 1].src
  <2>1. Refused("div", reg)
    <3>1. code[pc + 1].op = "div" /\ code[pc + 1].reg = reg /\ "div" \in {"div", "idiv"}
      BY <1>4
    <3> QED
      BY <3>1, Refusal, Zenon
  <2>2. /\ s \in 0 .. m - 1
        /\ s = 0 \/ \E q \in Int : q \notin 0 .. m - 1 /\ q = current \div s
    <3> DEFINE signed == "div" = "idiv"
               n == Meant(current, signed, m * m)
               v == Meant(s, signed, m)
               range == IF signed THEN -(m \div 2) .. m \div 2 - 1 ELSE 0 .. m - 1
               size == IF n < 0 THEN -n ELSE n
    <3>1. /\ s \in 0 .. m - 1
          /\ \/ s = 0
             \/ \E q \in Int, t \in Int :
                  /\ Rounds(n, v, q, t) /\ q \notin range
                  /\ q <= size /\ -q <= size
                  /\ ~signed => q = current \div s
                  /\ n \in Int /\ v \in Int
      BY <2>1, Zenon DEF Refused
    <3>2. ~signed /\ range = 0 .. m - 1
      OBVIOUS
    <3> HIDE DEF signed, range, n, v, size, s, current
    <3> QED
      BY <3>1, <3>2
  <2>3. Src(1) = s
    BY <1>4 DEF Src
  <2> HIDE DEF s, current, dividend
  <2>4. CASE s = 0
    BY <2>3, <2>4
  <2>5. CASE s # 0
    <3>1. PICK q \in Int : q \notin 0 .. m - 1 /\ q = current \div s
      BY <2>2, <2>5
    <3>2. current \in Nat
      <4>1. start.dx \in Nat /\ start.ax \in Nat /\ WordMod \in Nat
        BY AluAssumption, Widths DEF Begun
      <4>2. start.dx * WordMod \in Nat
        BY <4>1
      <4> QED
        BY <1>3, <1>4, <4>1, <4>2 DEF dividend
    <3>3. s \in Nat \ {0}
      BY <1>2, <2>2, <2>5
    <3>4. q >= 0
      <4> DEFINE r == current % s
      <4>1. current = s * q + r /\ r \in 0 .. s - 1
        BY <3>1, <3>2, <3>3, DivisionIs
      <4> HIDE DEF r
      <4> SUFFICES ASSUME q <= -1 PROVE FALSE
        OBVIOUS
      <4>2. s * q <= -s
        BY <3>3, SMT
      <4> DEFINE y == s * q
      <4>3. y \in Int
        BY <3>3
      <4> HIDE DEF y
      <4> QED
        BY <3>2, <3>3, <4>1, <4>2, <4>3 DEF y
    <3>5. q >= m
      <4> HIDE DEF m
      <4> QED
        BY <1>2, <3>1, <3>4
    <3> QED
      BY <1>3, <1>4, <2>3, <3>1, <3>5
  <2> QED
    BY <2>4, <2>5
<1>5. ASSUME code[pc + 1].op = "idiv", code[pc + 1].reg = reg
      PROVE  LET s == code[pc + 1].src
                 v == Signed(s, m)
             IN  s = 0 \/ \E q \in Int, t \in Int :
                            /\ Rounds(scurrent, v, q, t) /\ q \notin -h .. h - 1
                            /\ q <= (IF scurrent < 0 THEN -scurrent ELSE scurrent)
                            /\ -q <= (IF scurrent < 0 THEN -scurrent ELSE scurrent)
                            /\ scurrent \in Int /\ v \in Int
  <2> DEFINE s == code[pc + 1].src
             signed == "idiv" = "idiv"
             n == Meant(current, signed, m * m)
             v == Meant(s, signed, m)
             range == IF signed THEN -(m \div 2) .. m \div 2 - 1 ELSE 0 .. m - 1
             size == IF n < 0 THEN -n ELSE n
  <2>1. Refused("idiv", reg)
    <3>1. "idiv" \in {"div", "idiv"}
      OBVIOUS
    <3> QED
      BY <1>5, <3>1, Refusal, Zenon
  <2>2. s = 0 \/ \E q \in Int, t \in Int :
                   /\ Rounds(n, v, q, t) /\ q \notin range
                   /\ q <= size /\ -q <= size
                   /\ ~signed => q = current \div s
                   /\ n \in Int /\ v \in Int
    BY <2>1, Zenon DEF Refused
  <2>3. n = scurrent /\ v = Signed(s, m) /\ range = -h .. h - 1
    BY <1>2 DEF Meant
  <2> HIDE DEF n, v, range, s, scurrent, signed
  <2>4. CASE s = 0
    BY <2>4, Zenon DEF s
  <2>5. CASE s # 0
    <3>1. PICK q \in Int, t \in Int :
             /\ Rounds(n, v, q, t) /\ q \notin range
             /\ q <= size /\ -q <= size
             /\ n \in Int /\ v \in Int
      BY <2>2, <2>5
    <3>2. /\ Rounds(scurrent, v, q, t) /\ q \notin -h .. h - 1
          /\ q <= (IF scurrent < 0 THEN -scurrent ELSE scurrent)
          /\ -q <= (IF scurrent < 0 THEN -scurrent ELSE scurrent)
          /\ scurrent \in Int /\ v \in Int
      BY <2>3, <3>1
    <3> QED
      BY <2>3, <3>2, Zenon DEF s
  <2> QED
    BY <2>4, <2>5
<1>6. ASSUME pc = 0, code[1].op = "idiv", code[1].reg = reg
      PROVE  Src(1) = 0 \/ \A q \in -(m \div 2) .. m \div 2 - 1 :
                             ~Residue(sdividend - q * Signed(Src(1), m), sdividend, Signed(Src(1), m))
  <2> DEFINE v == Signed(Src(1), m)
  <2> SUFFICES ASSUME Src(1) # 0, NEW p \in -h .. h - 1,
                      Residue(sdividend - p * v, sdividend, v)
               PROVE  FALSE
    BY <1>2
  <2>1. code[pc + 1] = code[1] /\ code[pc + 1].src = Src(1)
    BY <1>6 DEF Src
  <2>2. scurrent = sdividend
    BY <1>3, <1>6
  <2> HIDE DEF scurrent, sdividend, v
  <2>3. PICK q \in Int, t \in Int :
           /\ Rounds(sdividend, v, q, t) /\ q \notin -h .. h - 1
           /\ sdividend \in Int /\ v \in Int
    BY <1>5, <1>6, <2>1, <2>2 DEF v
  <2>4. p = q
    BY <2>3, RoundsOnce
  <2> QED
    BY <2>3, <2>4
<1>7. ASSUME pc = 1, code[2].op = "idiv", code[2].reg = reg,
             code[1].op = (IF wide THEN "cwd" ELSE "cbw")
      PROVE  Src(2) = 0 \/ (Signed(d, m) = -(m \div 2) /\ Signed(Src(2), m) = -1)
  <2> DEFINE v == Signed(Src(2), m)
  <2> SUFFICES ASSUME Src(2) # 0
               PROVE  Signed(d, m) = -h /\ v = -1
    BY <1>2
  <2>1. code[pc + 1] = code[2] /\ code[pc + 1].src = Src(2)
    BY <1>7 DEF Src
  <2>2. scurrent = Signed(d, m)
    <3>1. scurrent = Signed(IF wide THEN start.ax ELSE Low(start.ax), m)
      BY <1>1, <1>7, ExtendedIs, Zenon
    <3>2. d = IF wide THEN start.ax ELSE Low(start.ax)
      BY DEF Register, IsWide, WordRegs, Low
    <3> HIDE DEF d, wide
    <3> QED
      BY <3>1, <3>2, Zenon
  <2>3. scurrent \in -h .. h - 1
    <3>1. d \in 0 .. m - 1
      <4>1. start.ax \in Word /\ start.dx \in Word
        BY AluAssumption DEF Begun, Word
      <4>2. reg \in Regs
        BY DEF Regs
      <4> QED
        BY <4>1, <4>2, RegisterType, Zenon DEF Word
    <3> HIDE DEF d, m, scurrent
    <3> QED
      BY <1>2, <2>2, <3>1 DEF Signed
  <2> HIDE DEF scurrent, v, d
  <2>4. PICK q \in Int, t \in Int :
           /\ Rounds(scurrent, v, q, t) /\ q \notin -h .. h - 1
           /\ q <= (IF scurrent < 0 THEN -scurrent ELSE scurrent)
           /\ -q <= (IF scurrent < 0 THEN -scurrent ELSE scurrent)
           /\ v \in Int
    BY <1>5, <1>7, <2>1 DEF v
  <2>5. scurrent = -h /\ v = -1
    BY <2>3, <2>4, LargestQuotient
  <2> QED
    BY <2>2, <2>5
<1>8. pc' = pc /\ start' = start /\ code' = code
  BY TrapIs DEF Stays
<1>9. (pc = 1 - 1 <=> pc = 0) /\ (pc = 2 - 1 <=> pc = 1)
  OBVIOUS
<1> QED
  BY <1>4, <1>6, <1>7, <1>8, <1>9, Zenon DEF RefusalOf, Dividend, Src

LEMMA QuotientStep ==
    Begun /\ Machine /\ Extension /\ ProductsAndQuotients /\ [Next]_vars
      => ProductsAndQuotients'
<1> SUFFICES ASSUME Begun, Machine, Extension, ProductsAndQuotients, [Next]_vars,
                    NEW reg \in {"al", "ax"}
             PROVE  ProductOf(reg)' /\ QuotientOf(reg)' /\ RefusalOf(reg)'
  BY DEF ProductsAndQuotients
<1>1. ProductOf(reg) /\ QuotientOf(reg) /\ RefusalOf(reg)
  BY DEF ProductsAndQuotients
<1>2. CASE ~Stays
  <2>1. ~trapped'
    BY <1>2, StepIs
  <2>2. RefusalOf(reg)'
    BY <2>1, Zenon DEF RefusalOf
  <2> QED
    BY <1>2, <2>2, ProductStep, DivisionStep
<1>3. CASE Stays
  <2>1. ProductOf(reg)' /\ QuotientOf(reg)'
    <3>1. /\ ax' = ax /\ dx' = dx /\ pc' = pc /\ code' = code /\ start' = start
      BY <1>3 DEF Stays
    <3>2. ProductOf(reg)'
      BY <1>1, <3>1, Zenon DEF ProductOf, LowHalf, HighHalf, al, ah, Ran, Src
    <3>3. QuotientOf(reg)'
      BY <1>1, <3>1, Zenon DEF QuotientOf, Dividend, LowHalf, HighHalf, al, ah, Ran, Src
    <3> QED
      BY <3>2, <3>3
  <2>2. CASE trapped' = trapped
    BY <1>1, <1>3, <2>1, <2>2, Zenon DEF Stays, RefusalOf, Dividend, Src
  <2>3. CASE trapped' # trapped
    BY <2>1, <2>3, RefusalStep
  <2> QED
    BY <2>1, <2>2, <2>3
<1> QED
  BY <1>2, <1>3

\* Products and quotients are those of the numbers, signed and unsigned, and a divide
\* error means that the quotient does not fit.
THEOREM ProductsAndQuotientsAre == Spec => []ProductsAndQuotients
<1>1. Init => ProductsAndQuotients
  <2> SUFFICES ASSUME Init PROVE ProductsAndQuotients
    OBVIOUS
  <2>1. ~trapped /\ \A a, r : ~Ran(<<a>>, <<r>>)
    BY DEF Init, Ran
  <2> QED
    BY <2>1, Zenon DEF ProductsAndQuotients, ProductOf, QuotientOf, RefusalOf
<1> QED
  BY <1>1, QuotientStep, BegunInvariance, MachineInvariance, ExtensionInvariance, PTL DEF Spec
-----------------------------------------------------------------------------
(* Shifts and rotations by one or by two positions, and back. *)

\* What a rotation shifts in, and out of a number of that many values.
ShiftsIn(op, r, wide) ==
    CASE op = "rol" -> r.data % Mod(wide) >= Mod(wide) \div 2
      [] op = "ror" -> r.data % 2 = 1
      [] op \in {"rcl", "rcr"} -> r.flags.cf
      [] op \in {"shl", "shr"} -> FALSE
      [] op = "sar" -> r.data % Mod(wide) >= Mod(wide) \div 2

\* What is shifted left and cut to a DWord loses no bit that matters.
LEMMA LeftBits ==
    ASSUME NEW wide \in BOOLEAN, NEW d \in Int
    PROVE  LET m == Mod(wide)
               x == d % m
               left == (2 * d) % DWordMod
               out == One(x >= m \div 2)
           IN  /\ Bit(left, m) <=> x >= m \div 2
               /\ \A in \in {0, 1} : (left + in) % m = 2 * x + in - m * out
<1> DEFINE m == Mod(wide)
           x == d % m
           left == (2 * d) % DWordMod
           out == One(x >= m \div 2)
<1>1. PICK h \in Nat \ {0} : m = 2 * h /\ m \div 2 = h
  BY ModIs
<1>2. PICK k \in Nat : DWordMod = (2 * m) * k
  <2>1. PICK g \in Nat : WordMod = 2 * g
    BY Widths
  <2>2. PICK f \in Nat : ByteMod = 2 * f
    BY Widths
  <2>3. CASE wide
    <3>1. WordMod * WordMod = (2 * WordMod) * g
      BY <2>1
    <3> QED
      BY <2>3, <3>1 DEF Mod, DWordMod
  <2>4. CASE ~wide
    <3> DEFINE b == ByteMod
    <3>1. b \in Nat /\ b = 2 * f
      BY <2>2
    <3> HIDE DEF b
    <3>2. b * b = (2 * b) * f
      BY <3>1
    <3>3. (b * b) * (b * b) = (2 * b) * (f * (b * b)) /\ f * (b * b) \in Nat
      BY <3>1, <3>2, SMT
    <3> QED
      BY <2>4, <3>3 DEF Mod, DWordMod, WordMod, b
  <2> QED
    BY <2>3, <2>4
<1>3. m \in Nat \ {0} /\ DWordMod \in Nat \ {0} /\ 2 * m \in Nat \ {0}
  BY <1>1, Widths
<1> HIDE DEF m
<1>4. d = m * (d \div m) + x /\ d \div m \in Int /\ x \in 0 .. m - 1
  BY <1>3, DivisionIs
<1> DEFINE q == d \div m
           Q == (2 * d) \div DWordMod
           e == 2 * d
<1>5. e = DWordMod * Q + left /\ Q \in Int /\ left \in 0 .. DWordMod - 1
  <2>1. e \in Int
    OBVIOUS
  <2> HIDE DEF e
  <2> QED
    BY <1>3, <2>1, DivisionIs DEF e
<1> HIDE DEF x, q, Q, left
<1> DEFINE p == q - k * Q
<1>6. p \in Int /\ left = (2 * m) * p + 2 * x /\ left \in Int
  <2>1. DWordMod * Q = (2 * m) * (k * Q)
    BY <1>2, <1>3, <1>5
  <2>2. e = (2 * m) * q + 2 * x
    <3> DEFINE a == m * q
    <3>1. (2 * m) * q = 2 * a /\ a \in Int /\ d = a + x /\ x \in Int
      BY <1>3, <1>4 DEF q
    <3> HIDE DEF a
    <3> QED
      BY <3>1
  <2>3. (2 * m) * (q - k * Q) = (2 * m) * q - (2 * m) * (k * Q) /\ q - k * Q \in Int
    BY <1>3, <1>4, <1>5 DEF q
  <2> DEFINE a == (2 * m) * q
             c == (2 * m) * (k * Q)
  <2>4. a \in Int /\ c \in Int
    BY <1>3, <1>4, <1>5 DEF q
  <2>5. DWordMod * Q = c /\ e = a + 2 * x /\ (2 * m) * p = a - c
    BY <2>1, <2>2, <2>3
  <2> HIDE DEF a, c, p, e
  <2>6. left \in Int /\ x \in Int
    BY <1>3, <1>4, <1>5
  <2>7. left = (a - c) + 2 * x
    BY <1>5, <2>4, <2>5, <2>6
  <2> QED
    BY <2>3, <2>5, <2>6, <2>7 DEF p
<1> HIDE DEF p
<1>7. Bit(left, m) <=> x >= h
  <2>1. 2 * x \in 0 .. 2 * m - 1
    BY <1>3, <1>4
  <2> DEFINE w == 2 * m
  <2>2. left % w = 2 * x
    <3> HIDE DEF w
    <3>1. left = w * p + 2 * x /\ 2 * x \in 0 .. w - 1 /\ w \in Nat \ {0}
      BY <1>3, <1>6, <2>1 DEF w
    <3> QED
      BY <1>6, <3>1, DivisionUnique
  <2>3. Bit(left, m) <=> left % (2 * m) >= m
    BY <1>3, <1>6, BitIs
  <2> QED
    BY <1>1, <1>4, <2>2, <2>3
<1>8. ASSUME NEW in \in {0, 1}
      PROVE  (left + in) % m = 2 * x + in - m * out
  <2> DEFINE r == 2 * x + in - m * out
             t == 2 * p + out
  <2>1. out = IF x >= h THEN 1 ELSE 0
    BY <1>1 DEF One
  <2>2. r \in 0 .. m - 1
    BY <1>1, <1>3, <1>4, <2>1
  <2>3. t \in Int /\ left + in \in Int
    BY <1>6, <2>1
  <2>4. left + in = m * t + r
    <3>1. CASE out = 0
      <4> HIDE DEF out
      <4>2. m * out = 0 /\ t = 2 * p /\ m \in Int /\ x \in Int
        BY <1>3, <1>4, <1>6, <3>1
      <4>1. m * t = m * (2 * p) /\ m * (2 * p) = (2 * m) * p /\ r = 2 * x + in
        BY <1>6, <4>2
      <4> QED
        BY <1>3, <1>4, <1>6, <4>1
    <3>2. CASE out = 1
      <4>1. m * t = (2 * m) * p + m /\ r = 2 * x + in - m
        BY <1>3, <1>6, <3>2
      <4>2. (2 * m) * p \in Int
        BY <1>3, <1>6
      <4> QED
        BY <1>3, <1>4, <1>6, <4>1, <4>2
    <3> QED
      BY <2>1, <3>1, <3>2
  <2> HIDE DEF r, t
  <2>5. (left + in) % m = r
    BY <1>3, <2>2, <2>3, <2>4, DivisionUnique
  <2> QED
    BY <2>5 DEF r
<1> QED
  BY <1>1, <1>7, <1>8 DEF m, x, left

\* One step of a rotation to the left, of what is left of the data.
LEMMA LeftStep ==
    ASSUME NEW op \in {"rol", "rcl", "shl"}, NEW r \in Results, NEW wide \in BOOLEAN
    PROVE  LET m == Mod(wide)
               x == r.data % m
               t == RotateStep(op, r, wide)
               out == x >= m \div 2
           IN  /\ t.flags.cf = out
               /\ t.data % m = 2 * x + One(ShiftsIn(op, r, wide)) - m * One(out)
<1> DEFINE m == Mod(wide)
           d == r.data
           f == r.flags
           x == d % m
           left == (2 * d) % DWordMod
           out == Bit(left, m)
           in == CASE op \in {"rol", "ror"} -> out
                   [] op \in {"rcl", "rcr"} -> f.cf
                   [] op \in {"shl", "shr"} -> FALSE
                   [] op = "sar" -> Top(d, wide)
           data == left + (IF in THEN 1 ELSE 0)
           g == [f EXCEPT !.cf = out, !.of = Top(data, wide) # Top(d, wide), !.af = f.af]
           t == RotateStep(op, r, wide)
<1>1. t = [data |-> data, flags |-> IF op = "shl" THEN SetPZS(g, data, wide) ELSE g]
  BY Zenon DEF RotateStep, Result
<1>2. d \in Int /\ f \in FlagSet
  BY DEF Results
<1>3. (out <=> x >= m \div 2) /\ out \in BOOLEAN
  <2> HIDE DEF d
  <2> QED
    BY <1>2, LeftBits DEF Bit
<1>4. \A i \in {0, 1} : (left + i) % m = 2 * x + i - m * One(x >= m \div 2)
  <2> HIDE DEF d
  <2> QED
    BY <1>2, LeftBits
<1>5. in \in BOOLEAN /\ in = ShiftsIn(op, r, wide)
  <2>1. f.cf \in BOOLEAN
    BY <1>2 DEF FlagSet
  <2>2. out = (x >= m \div 2)
    <3> HIDE DEF out, x, m
    <3> QED
      BY <1>3
  <2> HIDE DEF out
  <2>3. CASE op = "rol"
    <3>1. in = out /\ ShiftsIn(op, r, wide) = (x >= m \div 2)
      BY <2>3 DEF ShiftsIn
    <3> HIDE DEF in, x, m
    <3> QED
      BY <1>3, <2>2, <3>1
  <2>4. CASE op = "rcl" \/ op = "shl"
    BY <2>1, <2>4 DEF ShiftsIn
  <2> QED
    BY <2>3, <2>4
<1> HIDE DEF out, in
<1>6. t.data = data /\ t.flags.cf = out
  <2>1. g \in FlagSet /\ g.cf = out
    BY <1>2, <1>3 DEF FlagSet, Top, Bit
  <2> HIDE DEF g, data
  <2>2. SetPZS(g, data, wide).cf = out
    BY <2>1, SetPZSIs
  <2> QED
    BY <1>1, <2>1, <2>2
<1>7. One(in) = (IF in THEN 1 ELSE 0) /\ One(in) \in {0, 1}
  BY <1>5 DEF One
<1> HIDE DEF t, left, x, m
<1>8. data % m = 2 * x + One(in) - m * One(x >= m \div 2)
  BY <1>4, <1>7
<1> QED
  BY <1>3, <1>5, <1>6, <1>8 DEF t, x, m, out

\* One step of a rotation to the right, of a number of that width.
LEMMA RightStep ==
    ASSUME NEW op \in {"ror", "rcr", "shr", "sar"}, NEW wide \in BOOLEAN,
           NEW r \in Results, r.data \in 0 .. Mod(wide) - 1
    PROVE  LET m == Mod(wide)
               x == r.data
               t == RotateStep(op, r, wide)
           IN  /\ t.flags.cf = (x % 2 = 1)
               /\ t.data = x \div 2 + (IF ShiftsIn(op, r, wide) THEN m \div 2 ELSE 0)
               /\ t.data \in 0 .. m - 1
<1> DEFINE m == Mod(wide)
           d == r.data
           f == r.flags
           h == m \div 2
           out == d % 2 = 1
           in == CASE op \in {"rol", "ror"} -> out
                   [] op \in {"rcl", "rcr"} -> f.cf
                   [] op \in {"shl", "shr"} -> FALSE
                   [] op = "sar" -> Top(d, wide)
           data == d \div 2 + (IF in THEN h ELSE 0)
           g == [f EXCEPT !.cf = out, !.of = Top(data, wide) # Top(d, wide),
                          !.af = IF op \in {"shr", "sar"} THEN TRUE ELSE f.af]
           t == RotateStep(op, r, wide)
<1>1. t = [data |-> data,
           flags |-> IF op \in {"shl", "shr", "sar"} THEN SetPZS(g, data, wide) ELSE g]
  <2>1. op \notin {"rol", "rcl", "shl"}
    OBVIOUS
  <2> QED
    BY <2>1, Zenon DEF RotateStep, Result
<1>2. d \in 0 .. m - 1 /\ f \in FlagSet
  BY DEF Results
<1>3. PICK k \in Nat \ {0} : m = 2 * k /\ h = k
  BY ModIs
<1>4. out \in BOOLEAN
  OBVIOUS
<1>5. in \in BOOLEAN /\ in = ShiftsIn(op, r, wide)
  <2>1. f.cf \in BOOLEAN
    BY <1>2 DEF FlagSet
  <2>2. CASE op = "ror"
    BY <1>4, <2>2 DEF ShiftsIn
  <2>3. CASE op = "rcr" \/ op = "shr"
    BY <2>1, <2>3 DEF ShiftsIn
  <2>4. CASE op = "sar"
    <3>1. in = Top(d, wide) /\ ShiftsIn(op, r, wide) = (d % m >= h)
      BY <2>4 DEF ShiftsIn
    <3>2. Top(d, wide) \in BOOLEAN /\ Top(d, wide) = Bit(d, h)
      BY DEF Top, Bit
    <3> HIDE DEF in, d, h, m
    <3>3. Bit(d, h) <=> d % m >= h
      BY <1>2, <1>3, BitIs
    <3> QED
      BY <3>1, <3>2, <3>3
  <2> QED
    BY <2>2, <2>3, <2>4
<1> HIDE DEF out, in, m, h
<1>6. t.data = data /\ t.flags.cf = out
  <2>1. g \in FlagSet /\ g.cf = out
    BY <1>2, <1>4 DEF FlagSet, Top, Bit
  <2> HIDE DEF g, data
  <2>2. SetPZS(g, data, wide).cf = out
    BY <2>1, SetPZSIs
  <2> QED
    BY <1>1, <2>1, <2>2
<1>7. data \in 0 .. m - 1
  <2> HIDE DEF d
  <2>1. d \div 2 \in 0 .. k - 1
    BY <1>2, <1>3
  <2> QED
    BY <1>3, <2>1
<1> HIDE DEF t
<1> QED
  BY <1>5, <1>6, <1>7 DEF t, data, out, m, h

\* The rotation that undoes another.
Opposite(op) == IF op = "rol" THEN "ror" ELSE "rcr"

\* A step back undoes a step, if it starts with the number that one left and, where the
\* carry takes part, with the carry it left.
LEMMA StepBack ==
    ASSUME NEW op \in {"rol", "rcl"}, NEW wide \in BOOLEAN, NEW r \in Results, NEW u \in Results,
           u.data = RotateStep(op, r, wide).data % Mod(wide),
           op = "rcl" => u.flags.cf = RotateStep(op, r, wide).flags.cf
    PROVE  LET v == RotateStep(Opposite(op), u, wide)
           IN  /\ v.data = r.data % Mod(wide)
               /\ op = "rcl" => v.flags.cf = r.flags.cf
<1> DEFINE m == Mod(wide)
           x == r.data % m
           y == u.data
           t == RotateStep(op, r, wide)
           v == RotateStep(Opposite(op), u, wide)
           out == x >= m \div 2
           in == ShiftsIn(op, r, wide)
           back == ShiftsIn(Opposite(op), u, wide)
<1>1. PICK h \in Nat \ {0} : m = 2 * h /\ m \div 2 = h
  BY ModIs
<1>2. m \in Nat \ {0} /\ r.data \in Int /\ t \in Results /\ t.data \in Int
  <2>1. t \in Results
    <3>1. op \in RotateOps
      BY DEF RotateOps
    <3> QED
      BY <3>1, RotateStepIs
  <2> HIDE DEF t
  <2> QED
    BY <1>1, <2>1 DEF Results
<1>3. x \in 0 .. m - 1 /\ t.data % m \in 0 .. m - 1
  <2> DEFINE a == r.data
             b == t.data
  <2> HIDE DEF a, b, m
  <2>1. a % m \in 0 .. m - 1 /\ b % m \in 0 .. m - 1
    BY <1>2, DivisionIs DEF a, b
  <2> QED
    BY <2>1 DEF a, b
<1>4. t.flags.cf = out /\ y = 2 * x + One(in) - m * One(out)
  BY LeftStep
<1>5. y \in 0 .. m - 1
  BY <1>3
<1>6. v.flags.cf = (y % 2 = 1) /\ v.data = y \div 2 + (IF back THEN m \div 2 ELSE 0)
  BY <1>5, RightStep DEF Opposite
<1>7. in \in BOOLEAN /\ out \in BOOLEAN
  <2>1. r.flags.cf \in BOOLEAN
    BY DEF Results, FlagSet
  <2>2. op = "rol" => in = out
    BY DEF ShiftsIn
  <2>3. op = "rcl" => in = r.flags.cf
    BY DEF ShiftsIn
  <2>4. out \in BOOLEAN
    OBVIOUS
  <2> HIDE DEF in, out
  <2> QED
    BY <2>1, <2>2, <2>3, <2>4
<1>8. op = "rol" => in = out
  BY DEF ShiftsIn
<1>9. op = "rol" => back = (y % 2 = 1)
  BY DEF ShiftsIn, Opposite
<1>10. op = "rcl" => in = r.flags.cf /\ back = out
  BY <1>4 DEF ShiftsIn, Opposite
<1>11. (y % 2 = 1) = in /\ y \div 2 = x - h * One(out)
  <2>1. One(in) = (IF in THEN 1 ELSE 0) /\ One(out) \in {0, 1}
    BY DEF One
  <2> HIDE DEF in, out, x, y, m
  <2> DEFINE c == h * One(out)
             z == x - c
  <2>2. m * One(out) = 2 * c /\ c \in Int /\ x \in Int /\ One(in) \in Int
    BY <1>1, <1>3, <2>1
  <2> DEFINE e == m * One(out)
  <2> HIDE DEF c, e
  <2>3. y = 2 * z + One(in) /\ z \in Int
    <3>1. y = 2 * x + One(in) - e /\ e = 2 * c
      BY <1>4, <2>2 DEF e
    <3> QED
      BY <2>2, <3>1
  <2> HIDE DEF z
  <2>4. y \div 2 = z /\ (y % 2 = 1) = in
    BY <1>7, <2>1, <2>3
  <2> QED
    BY <2>4 DEF z, c
<1>12. back = out
  <2> HIDE DEF back, out, in, y
  <2> QED
    BY <1>8, <1>9, <1>10, <1>11
<1>13. v.data = x
  <2>1. x \in Int /\ One(out) = (IF out THEN 1 ELSE 0)
    BY <1>3 DEF One
  <2> HIDE DEF back, out, in, y, x, v
  <2> QED
    BY <1>1, <1>6, <1>7, <1>11, <1>12, <2>1
<1>14. op = "rcl" => v.flags.cf = r.flags.cf
  <2> HIDE DEF in, y, v
  <2> QED
    BY <1>6, <1>10, <1>11
<1> QED
  BY <1>13, <1>14

\* So many steps back undo as many steps.
LEMMA RotatesBack ==
    ASSUME NEW op \in {"rol", "rcl"}, NEW wide \in BOOLEAN, NEW d \in 0 .. Mod(wide) - 1,
           NEW n \in Nat, NEW f \in FlagSet
    PROVE  LET y == Rotate(op, d, n, f, wide)
               v == Rotate(Opposite(op), y.data % Mod(wide), n, y.flags, wide)
           IN  v.data = d /\ (op = "rcl" => v.flags.cf = f.cf)
<1> DEFINE m == Mod(wide)
           y == Rotate(op, d, n, f, wide)
           back == Opposite(op)
           v == Rotate(back, y.data % m, n, y.flags, wide)
<1>1. m \in Nat \ {0} /\ d \in Int /\ d \in 0 .. m - 1
  BY ModIs
<1>2. op \in RotateOps /\ back \in RotateOps
  BY DEF RotateOps, Opposite
<1>3. PICK st : Steps(st, op, d, n, f, wide)
  BY <1>1, <1>2, RotateIs
<1>4. /\ y = st[n] /\ st[0] = Result(d, f)
      /\ \A i \in 1 .. n : st[i] = RotateStep(op, st[i - 1], wide)
      /\ \A i \in 0 .. n : st[i] \in Results
  BY <1>3, Zenon DEF Steps
<1>5. y \in Results /\ y.flags \in FlagSet /\ y.data % m \in Int
  <2> HIDE DEF y, m
  <2>1. y \in Results
    BY <1>4
  <2>2. y.data \in Int /\ y.flags \in FlagSet
    BY <2>1 DEF Results
  <2> DEFINE a == y.data
  <2> HIDE DEF a
  <2>3. a % m \in 0 .. m - 1
    BY <1>1, <2>2, DivisionIs DEF a
  <2> QED
    BY <1>1, <2>1, <2>2, <2>3 DEF a
<1> DEFINE a == y.data % m
           g == y.flags
<1>6. PICK ut : Steps(ut, back, a, n, g, wide)
  <2> HIDE DEF a, g, back
  <2> QED
    BY <1>2, <1>5, RotateIs DEF a, g
<1>7. /\ v = ut[n] /\ ut[0] = Result(a, g)
      /\ \A i \in 1 .. n : ut[i] = RotateStep(back, ut[i - 1], wide)
      /\ \A i \in 0 .. n : ut[i] \in Results
  BY <1>6, Zenon DEF Steps
<1> HIDE DEF y, v, m
<1> DEFINE Meets(i) == /\ ut[i].data = st[n - i].data % m
                       /\ op = "rcl" => ut[i].flags.cf = st[n - i].flags.cf
           S == {i \in 0 .. n : Meets(i)}
<1>8. Meets(0)
  <2>1. n - 0 = n
    OBVIOUS
  <2> QED
    BY <1>4, <1>7, <2>1 DEF Result
<1>9. ASSUME NEW i \in 1 .. n, Meets(i - 1) PROVE Meets(i)
  <2> DEFINE j == n - i
  <2>1. /\ j \in 0 .. n /\ j + 1 \in 1 .. n /\ n - (i - 1) = j + 1 /\ (j + 1) - 1 = j
        /\ i - 1 \in 0 .. n
    OBVIOUS
  <2> DEFINE r == st[j]
             u == ut[i - 1]
  <2>2. st[j + 1] = RotateStep(op, r, wide) /\ r \in Results
    <3> HIDE DEF j
    <3>1. st[j + 1] = RotateStep(op, st[(j + 1) - 1], wide)
      BY <1>4, <2>1, Zenon
    <3> QED
      BY <1>4, <2>1, <3>1, Zenon
  <2>3. ut[i] = RotateStep(back, u, wide) /\ u \in Results
    BY <1>7, <2>1, Zenon
  <2>4. /\ u.data = RotateStep(op, r, wide).data % m
        /\ op = "rcl" => u.flags.cf = RotateStep(op, r, wide).flags.cf
    BY <1>9, <2>1, <2>2
  <2> HIDE DEF r, u
  <2>5. /\ RotateStep(back, u, wide).data = r.data % m
        /\ op = "rcl" => RotateStep(back, u, wide).flags.cf = r.flags.cf
    BY <2>2, <2>3, <2>4, StepBack DEF m
  <2> QED
    BY <2>3, <2>5 DEF r
<1>10. n \in S
  <2>1. 0 \in 0 .. n /\ n \in 0 .. n /\ \A i \in 1 .. n : i \in 0 .. n
    OBVIOUS
  <2> HIDE DEF Meets
  <2>2. 0 \in S /\ \A i \in 1 .. n : i - 1 \in S => i \in S
    BY <1>8, <1>9, <2>1, Zenon
  <2> HIDE DEF S
  <2> QED
    BY <2>1, <2>2, UpTo
<1>11. Meets(n) /\ n - n = 0
  BY <1>10
<1>12. st[0].data = d /\ st[0].flags = f
  BY <1>4 DEF Result
<1>13. d % m = d
  BY <1>1, SmallResidue
<1> QED
  BY <1>7, <1>11, <1>12, <1>13 DEF v, y, m

\* The other registers are what they were.
Spared(reg, a, d, newa, newd) ==
    /\ reg = "dx" => newa = a
    /\ reg # "dx" => newd = d
    /\ reg = "al" => newa \div ByteMod = a \div ByteMod
    /\ reg = "ah" => newa % ByteMod = a % ByteMod

\* What shifts and rotations leave.
LEMMA RotatesTo ==
    ASSUME Begun, Machine, [Next]_vars, ~Stays, code[pc + 1].op \in RotateOps
    PROVE  LET c == code[pc + 1]
               wide == IsWide(c.reg)
               r == Rotate(c.op, Get(c.reg), c.src, flags, wide)
           IN  /\ Register(c.reg, ax', dx') = r.data % Mod(wide) /\ flags' = r.flags
               /\ Spared(c.reg, ax, dx, ax', dx')
<1> DEFINE c == code[pc + 1]
           wide == IsWide(c.reg)
           r == Rotate(c.op, Get(c.reg), c.src, flags, wide)
<1>1. Moves /\ RotateBy /\ Inst = c
  BY StepIs DEF Inst
<1>2. WordSize = wide
  BY <1>1 DEF WordSize, IsWide
<1>3. SetReg(r)
  BY <1>1, <1>2, Zenon DEF RotateBy
<1>4. c.reg \in Regs /\ Get(c.reg) \in Int /\ c.src \in Nat /\ wide \in BOOLEAN
      /\ flags \in FlagSet
  BY <1>1, <1>2, InstIs DEF Machine
<1>5. r \in Results
  <2> DEFINE o == c.op
             d == Get(c.reg)
             n == c.src
  <2>1. o \in RotateOps /\ d \in Int /\ n \in Nat
    BY <1>4
  <2> HIDE DEF o, d, n, wide
  <2>2. PICK st : Steps(st, o, d, n, flags, wide)
    BY <1>4, <2>1, RotateIs
  <2>3. n \in 0 .. n
    BY <2>1
  <2>4. Rotate(o, d, n, flags, wide) = st[n] /\ st[n] \in Results
    BY <2>2, <2>3, Zenon DEF Steps
  <2> QED
    BY <2>4, Zenon DEF o, d, n
<1> HIDE DEF r
<1>6. /\ flags' = r.flags /\ Register(Inst.reg, ax', dx') = r.data % Mod(WordSize)
      /\ Inst.reg = "dx" => ax' = ax
      /\ Inst.reg # "dx" => dx' = dx
      /\ Inst.reg = "al" => ax' \div ByteMod = ah
      /\ Inst.reg = "ah" => ax' % ByteMod = al
  BY <1>1, <1>3, <1>4, <1>5, SetRegIs
<1> QED
  BY <1>1, <1>2, <1>6 DEF Spared, al, ah, r

\* After one shift or rotation: the machine is what that one leaves of the start.
Turned ==
    \A op \in RotateOps, reg \in Regs : Ran(<<op>>, <<reg>>) =>
      LET r == Rotate(op, Register(reg, start.ax, start.dx), Src(1), FirstFlags, IsWide(reg))
      IN  /\ Get(reg) = r.data % Mod(IsWide(reg)) /\ flags = r.flags
          /\ Spared(reg, start.ax, start.dx, ax, dx)

LEMMA TurnedStep == Begun /\ Machine /\ Turned /\ [Next]_vars => Turned'
<1> SUFFICES ASSUME Begun, Machine, Turned, [Next]_vars PROVE Turned'
  OBVIOUS
<1>1. CASE Stays
  BY <1>1 DEF Stays, Turned, Ran, Src, Get, FirstFlags
<1>2. CASE ~Stays
  <2> SUFFICES ASSUME NEW op \in RotateOps, NEW reg \in Regs, Ran(<<op>>, <<reg>>)'
               PROVE  LET r == Rotate(op, Register(reg, start.ax, start.dx), Src(1),
                                      FirstFlags, IsWide(reg))
                      IN  /\ Register(reg, ax', dx') = r.data % Mod(IsWide(reg))
                          /\ flags' = r.flags
                          /\ Spared(reg, start.ax, start.dx, ax', dx')
    BY <1>2, StepIs DEF Moves, Turned, Src, Get, FirstFlags
  <2>1. pc = 0 /\ code[pc + 1].op = op /\ code[pc + 1].reg = reg
    BY <1>2, RanStep
  <2>2. /\ ax = start.ax /\ dx = start.dx /\ flags = FirstFlags /\ code[pc + 1].src = Src(1)
        /\ Get(reg) = Register(reg, start.ax, start.dx)
    BY <2>1 DEF Begun, Src, Get
  <2> QED
    BY <1>2, <2>1, <2>2, RotatesTo
<1> QED
  BY <1>1, <1>2

LEMMA TurnedInvariance == Spec => []Turned
<1>1. Init => Turned
  BY DEF Init, Turned, Ran
<1> QED
  BY <1>1, TurnedStep, BegunInvariance, MachineInvariance, PTL DEF Spec

\* After a rotation and as many steps of its opposite.
LEMMA TurnsBack ==
    ASSUME Begun, Machine, Turned, [Next]_vars, ~Stays,
           NEW op \in {"rol", "rcl"}, NEW reg \in Regs,
           Ran(<<op, Opposite(op)>>, <<reg, reg>>)', Src(1) = Src(2)
    PROVE  /\ ax' = start.ax /\ dx' = start.dx
           /\ op = "rcl" => flags'.cf = start.cf
<1> DEFINE wide == IsWide(reg)
           m == Mod(wide)
           d == Register(reg, start.ax, start.dx)
           n == Src(1)
           y == Rotate(op, d, n, FirstFlags, wide)
           v == Rotate(Opposite(op), y.data % m, n, y.flags, wide)
           c == code[pc + 1]
<1>1. pc = 1 /\ Ran(<<op>>, <<reg>>) /\ c.op = Opposite(op) /\ c.reg = reg /\ c.src = n
  BY RanStep DEF Src
<1>2. Get(reg) = y.data % m /\ flags = y.flags /\ Spared(reg, start.ax, start.dx, ax, dx)
  BY <1>1 DEF Turned, RotateOps
<1>3. /\ start.ax \in Word /\ start.dx \in Word /\ FirstFlags \in FlagSet
      /\ d \in 0 .. m - 1 /\ wide \in BOOLEAN
  BY StartType, RegisterType DEF Word, IsWide
<1>4. n \in Nat
  <2>1. 1 \in 1 .. Len(code)
    BY <1>1, StepIs, CodeType DEF Moves, Begun
  <2> QED
    BY <2>1, SrcIs DEF Src
<1>5. v.data = d /\ (op = "rcl" => v.flags.cf = FirstFlags.cf)
  <2> HIDE DEF d, n
  <2> QED
    BY <1>3, <1>4, RotatesBack
<1>6. Opposite(op) \in RotateOps
  BY DEF Opposite, RotateOps
<1>7. /\ Register(reg, ax', dx') = v.data % m /\ flags' = v.flags
      /\ Spared(reg, ax, dx, ax', dx')
  BY <1>1, <1>2, <1>6, RotatesTo
<1>8. Register(reg, ax', dx') = d
  <2>1. m \in Nat \ {0}
    BY <1>3, ModIs
  <2> HIDE DEF d, m, v
  <2>2. d % m = d
    BY <1>3, <2>1, SmallResidue
  <2> QED
    BY <1>5, <1>7, <2>2
<1>9. Spared(reg, start.ax, start.dx, ax', dx')
  BY <1>2, <1>7 DEF Spared
<1>10. ax' = start.ax /\ dx' = start.dx
  <2>1. ax' \in Word
    BY MachineStep DEF Machine
  <2>2. \A a, b \in Word : a % ByteMod = b % ByteMod /\ a \div ByteMod = b \div ByteMod => a = b
    BY BytesOfWord DEF Word
  <2>3. CASE reg = "al" \/ reg = "ah"
    <3>1. /\ ax' % ByteMod = start.ax % ByteMod /\ ax' \div ByteMod = start.ax \div ByteMod
          /\ dx' = start.dx
      BY <1>8, <1>9, <2>3 DEF Register, Spared
    <3> QED
      BY <1>3, <2>1, <2>2, <3>1
  <2>4. CASE reg = "ax" \/ reg = "dx"
    BY <1>8, <1>9, <2>4 DEF Register, Spared
  <2> QED
    BY <2>3, <2>4 DEF Regs
<1>11. op = "rcl" => flags'.cf = start.cf
  BY <1>5, <1>7 DEF FirstFlags
<1> QED
  BY <1>10, <1>11

\* A rotation by one is one step.
LEMMA OneTurn ==
    ASSUME NEW op \in RotateOps, NEW d \in Int, NEW f \in FlagSet, NEW wide \in BOOLEAN
    PROVE  Rotate(op, d, 1, f, wide) = RotateStep(op, Result(d, f), wide)
<1> DEFINE n == 1
<1>1. n \in Nat /\ n = 1
  OBVIOUS
<1> HIDE DEF n
<1>2. PICK st : Steps(st, op, d, n, f, wide)
  BY <1>1, RotateIs
<1>3. n \in 1 .. n /\ n - 1 = 0
  BY <1>1
<1>4. Rotate(op, d, n, f, wide) = st[n] /\ st[n] = RotateStep(op, st[n - 1], wide) /\ st[0] = Result(d, f)
  BY <1>2, <1>3, Zenon DEF Steps
<1> QED
  BY <1>1, <1>3, <1>4

\* Two shifts by one, one of each half of AX.
LEMMA ShiftTwice ==
    ASSUME Begun, Machine, Turned, [Next]_vars, ~Stays,
           NEW op \in RotateOps, NEW next \in RotateOps,
           NEW reg \in {"al", "ah"}, NEW other \in {"al", "ah"}, reg # other,
           Ran(<<op, next>>, <<reg, other>>)', Src(1) = 1, Src(2) = 1
    PROVE  LET r == Result(Register(reg, start.ax, start.dx), FirstFlags)
               t == RotateStep(op, r, FALSE)
               u == Result(Register(other, start.ax, start.dx), t.flags)
               v == RotateStep(next, u, FALSE)
           IN  /\ r \in Results /\ t \in Results /\ u \in Results
               /\ Register(reg, ax', dx') = t.data % ByteMod
               /\ Register(other, ax', dx') = v.data % ByteMod
               /\ flags' = v.flags
<1> DEFINE d == Register(reg, start.ax, start.dx)
           e == Register(other, start.ax, start.dx)
           r == Result(d, FirstFlags)
           no == FALSE
           t == RotateStep(op, r, no)
           u == Result(e, t.flags)
           v == RotateStep(next, u, no)
           c == code[pc + 1]
<1>1. /\ pc = 1 /\ Ran(<<op>>, <<reg>>)
      /\ c.op = next /\ c.reg = other /\ c.src = 1
  BY RanStep DEF Src
<1>2. /\ no \in BOOLEAN /\ IsWide(reg) = no /\ IsWide(other) = no /\ Mod(no) = ByteMod
      /\ reg \in Regs /\ other \in Regs
  BY DEF IsWide, WordRegs, Mod, Regs
<1> HIDE DEF no
<1>3. d \in Int /\ e \in Int /\ FirstFlags \in FlagSet
  <2>1. ByteMod \in Nat
    BY Widths
  <2>2. d \in 0 .. ByteMod - 1 /\ e \in 0 .. ByteMod - 1
    BY <1>2, StartType, RegisterType
  <2> HIDE DEF d, e
  <2> QED
    BY <2>1, <2>2, StartType
<1> HIDE DEF d, e
<1>4. r \in Results
  BY <1>3 DEF Result, Results
<1>5. t \in Results /\ t.flags \in FlagSet
  <2> HIDE DEF r
  <2>1. t \in Results
    BY <1>2, <1>4, RotateStepIs
  <2> HIDE DEF t
  <2> QED
    BY <2>1 DEF Results
<1>6. u \in Results
  <2> HIDE DEF t
  <2> QED
    BY <1>3, <1>5 DEF Result, Results
<1>7. Rotate(op, d, 1, FirstFlags, no) = t /\ Rotate(next, e, 1, t.flags, no) = v
  <2>1. Rotate(op, d, 1, FirstFlags, no) = t
    BY <1>2, <1>3, OneTurn
  <2> HIDE DEF t
  <2>2. Rotate(next, e, 1, t.flags, no) = v
    BY <1>2, <1>3, <1>5, OneTurn
  <2> QED
    BY <2>1, <2>2 DEF t
<1>8. Get(reg) = t.data % ByteMod /\ flags = t.flags /\ Spared(reg, start.ax, start.dx, ax, dx)
  BY <1>1, <1>2, <1>7, Zenon DEF Turned, d
<1>9. Get(other) = e
  BY <1>8 DEF Spared, Get, Register, e
<1>10. /\ Register(other, ax', dx') = v.data % ByteMod /\ flags' = v.flags
       /\ Spared(other, ax, dx, ax', dx')
  <2>1. Rotate(c.op, Get(c.reg), c.src, flags, IsWide(c.reg)) = v
    BY <1>1, <1>2, <1>7, <1>8, <1>9, Zenon
  <2> QED
    BY <1>1, <1>2, <2>1, RotatesTo
<1>11. Register(reg, ax', dx') = Get(reg)
  BY <1>10 DEF Spared, Get, Register
<1> QED
  BY <1>4, <1>5, <1>6, <1>8, <1>10, <1>11, Zenon DEF no, d, e

\* SHL and RCL: the bit out of the low byte goes into the high one.
LEMMA DoubledByBytes ==
    ASSUME Begun, Machine, Turned, [Next]_vars, ~Stays,
           Ran(<<"shl", "rcl">>, <<"al", "ah">>)', Src(1) = 1, Src(2) = 1
    PROVE  ax' = (2 * start.ax) % WordMod
<1> DEFINE b == ByteMod
           l == Low(start.ax)
           h == High(start.ax)
           no == FALSE
           r == Result(l, FirstFlags)
           t == RotateStep("shl", r, no)
           u == Result(h, t.flags)
           v == RotateStep("rcl", u, no)
           o1 == One(l >= b \div 2)
           o2 == One(h >= b \div 2)
           n == start.ax
<1>1. /\ b \in Nat \ {0} /\ h \in 0 .. b - 1 /\ l \in 0 .. b - 1 /\ h \in Int /\ l \in Int
      /\ n = b * h + l /\ n \in Int
  BY StartBytes
<1>2. no \in BOOLEAN /\ Mod(no) = b
  BY DEF Mod
<1>3. /\ r \in Results /\ u \in Results
      /\ ax' % b = t.data % b /\ ax' \div b = v.data % b
  BY ShiftTwice DEF Register, RotateOps, Low, High
<1>4. r.data = l /\ u.data = h /\ u.flags = t.flags
  BY DEF Result
<1> HIDE DEF no, r, u, t, v, l, h, b, n
<1>5. l % b = l /\ h % b = h
  BY <1>1, SmallResidue
<1>6. t.flags.cf = (l >= b \div 2) /\ t.data % b = 2 * l - b * o1
  <2>1. ShiftsIn("shl", r, no) = FALSE
    BY DEF ShiftsIn
  <2>2. One(FALSE) = 0
    BY DEF One
  <2>3. t.data % b = 2 * l + 0 - b * o1 /\ t.flags.cf = (l >= b \div 2)
    BY <1>2, <1>3, <1>4, <1>5, <2>1, <2>2, LeftStep DEF t
  <2>4. o1 \in {0, 1}
    BY DEF One
  <2> HIDE DEF o1
  <2>5. b * o1 \in Int
    BY <1>1, <2>4
  <2> QED
    BY <1>1, <2>3, <2>5
<1>7. v.data % b = 2 * h + o1 - b * o2
  <2>1. ShiftsIn("rcl", u, no) = (l >= b \div 2)
    BY <1>4, <1>6 DEF ShiftsIn
  <2> QED
    BY <1>2, <1>3, <1>4, <1>5, <2>1, LeftStep DEF v
<1>8. o1 \in {0, 1} /\ o2 \in {0, 1}
  BY DEF One
<1> HIDE DEF o1, o2
<1> DEFINE a == ax'
<1>9. a \in 0 .. WordMod - 1 /\ a = b * (a \div b) + (a % b)
  BY MachineStep, BytesOfWord DEF Machine, Word, b
<1>10. a = 2 * n - WordMod * o2
  <2> DEFINE q == 2 * h + o1 - b * o2
             p == 2 * l - b * o1
  <2>1. a = b * q + p
    BY <1>3, <1>6, <1>7, <1>9
  <2>2. b * q = 2 * (b * h) + b * o1 - (b * b) * o2
    BY <1>1, <1>8, SMT
  <2>3. WordMod = b * b
    BY DEF WordMod, b
  <2> DEFINE bh == b * h
             bo == b * o1
             w == (b * b) * o2
  <2>4. bh \in Int /\ bo \in Int /\ w \in Int
    BY <1>1, <1>8
  <2>5. /\ a = b * q + p /\ p = 2 * l - bo /\ b * q = 2 * bh + bo - w
        /\ n = bh + l /\ WordMod * o2 = w
    BY <1>1, <2>1, <2>2, <2>3
  <2> HIDE DEF q, p, bh, bo, w, a
  <2> QED
    BY <1>1, <2>4, <2>5
<1>11. WordMod \in Nat \ {0}
  BY Widths
<1> DEFINE x == 2 * n
<1>12. x \in Int /\ x = WordMod * o2 + a
  <2>1. WordMod * o2 \in Int /\ a \in Int
    BY <1>8, <1>9, <1>11
  <2> DEFINE w == WordMod * o2
  <2> HIDE DEF w, a
  <2> QED
    BY <1>1, <1>10, <2>1 DEF w
<1> HIDE DEF a, x
<1>13. x % WordMod = a
  BY <1>8, <1>9, <1>11, <1>12, DivisionUnique
<1> QED
  BY <1>13 DEF a, x, n

\* SHR or SAR, and RCR: the bit out of the high byte goes into the low one.
LEMMA HalvedByBytes ==
    ASSUME Begun, Machine, Turned, [Next]_vars, ~Stays, NEW op \in {"shr", "sar"},
           Ran(<<op, "rcr">>, <<"ah", "al">>)', Src(1) = 1, Src(2) = 1
    PROVE  /\ ax' = IF op = "shr" THEN start.ax \div 2
                    ELSE (Signed(start.ax, WordMod) \div 2) % WordMod
           /\ flags'.cf = (start.ax % 2 = 1)
<1> DEFINE b == ByteMod
           l == Low(start.ax)
           h == High(start.ax)
           no == FALSE
           r == Result(h, FirstFlags)
           t == RotateStep(op, r, no)
           u == Result(l, t.flags)
           v == RotateStep("rcr", u, no)
           minus == op = "sar" /\ h >= b \div 2
           n == start.ax
           a == ax'
<1>1. /\ b \in Nat \ {0} /\ h \in 0 .. b - 1 /\ l \in 0 .. b - 1 /\ h \in Int /\ l \in Int
      /\ n = b * h + l /\ n \in Int
  BY StartBytes
<1>2. no \in BOOLEAN /\ Mod(no) = b
  BY DEF Mod
<1>3. PICK k \in Nat \ {0} : b = 2 * k /\ b \div 2 = k
  BY <1>2, ModIs
<1>4. /\ r \in Results /\ u \in Results
      /\ a \div b = t.data % b /\ a % b = v.data % b /\ flags' = v.flags
  BY ShiftTwice DEF Register, RotateOps, Low, High
<1>5. r.data = h /\ u.data = l /\ u.flags = t.flags
  BY DEF Result
<1>6. a \in 0 .. WordMod - 1 /\ a = b * (a \div b) + (a % b)
  BY MachineStep, BytesOfWord DEF Machine, Word
<1> HIDE DEF no, r, u, t, v, l, h, b, n, a
<1>7. h % b = h
  BY <1>1, SmallResidue
<1>8. /\ t.flags.cf = (h % 2 = 1)
      /\ t.data = h \div 2 + (IF minus THEN k ELSE 0)
      /\ t.data \in 0 .. b - 1
  <2>1. ShiftsIn(op, r, no) = minus
    <3>1. CASE op = "shr"
      <4>1. ShiftsIn(op, r, no) = FALSE
        BY <3>1 DEF ShiftsIn
      <4>2. minus = FALSE
        BY <3>1 DEF minus
      <4> QED
        BY <4>1, <4>2
    <3>2. CASE op = "sar"
      <4>1. ShiftsIn(op, r, no) = (r.data % Mod(no) >= Mod(no) \div 2)
        BY <3>2 DEF ShiftsIn
      <4>2. minus = (h >= b \div 2)
        BY <3>2 DEF minus
      <4> QED
        BY <1>2, <1>5, <1>7, <4>1, <4>2
    <3> QED
      BY <3>1, <3>2
  <2>2. r.data \in 0 .. Mod(no) - 1
    BY <1>1, <1>2, <1>5
  <2>3. /\ t.flags.cf = (r.data % 2 = 1)
        /\ t.data = r.data \div 2 + (IF ShiftsIn(op, r, no) THEN Mod(no) \div 2 ELSE 0)
        /\ t.data \in 0 .. Mod(no) - 1
    BY <1>2, <1>4, <2>2, RightStep DEF t
  <2> QED
    BY <1>2, <1>3, <1>5, <2>1, <2>3
<1>9. /\ v.flags.cf = (l % 2 = 1)
      /\ v.data = l \div 2 + (IF h % 2 = 1 THEN k ELSE 0)
      /\ v.data \in 0 .. b - 1
  <2>1. ShiftsIn("rcr", u, no) = (h % 2 = 1)
    BY <1>5, <1>8 DEF ShiftsIn
  <2>2. u.data \in 0 .. Mod(no) - 1
    BY <1>1, <1>2, <1>5
  <2>3. /\ v.flags.cf = (u.data % 2 = 1)
        /\ v.data = u.data \div 2 + (IF ShiftsIn("rcr", u, no) THEN Mod(no) \div 2 ELSE 0)
        /\ v.data \in 0 .. Mod(no) - 1
    BY <1>2, <1>4, <2>2, RightStep DEF v
  <2> QED
    BY <1>2, <1>3, <1>5, <2>1, <2>3
<1>10. a \div b = t.data /\ a % b = v.data
  BY <1>1, <1>4, <1>8, <1>9, SmallResidue
<1>11. minus \in BOOLEAN
  OBVIOUS
<1> HIDE DEF minus
<1> DEFINE sign == IF minus THEN b * b ELSE 0
           m == n - sign
<1>12. sign \in Int /\ m \in Int
  BY <1>1
<1>13. 2 * a = (2 * sign + m) - (l % 2)
  <2> DEFINE q == t.data
             p == v.data
             hh == h \div 2
             h1 == h % 2
             ll == l \div 2
             l1 == l % 2
  <2>1. h = 2 * hh + h1 /\ h1 \in {0, 1} /\ hh \in Int /\ l = 2 * ll + l1 /\ l1 \in {0, 1} /\ ll \in Int
    BY <1>1
  <2>2. q = hh + (IF minus THEN k ELSE 0) /\ p = ll + (IF h1 = 1 THEN k ELSE 0) /\ a = b * q + p
    BY <1>6, <1>8, <1>9, <1>10
  <2> HIDE DEF q, p, hh, h1, ll, l1
  <2> DEFINE bh == b * hh
  <2>3. bh \in Int /\ b * h = 2 * bh + b * h1 /\ b * h1 = (IF h1 = 1 THEN b ELSE 0)
    BY <1>1, <2>1
  <2>4. b * q \in Int /\ 2 * (b * q) = 2 * bh + sign
    <3>1. CASE minus
      <4>1. b * (hh + k) = bh + b * k /\ 2 * (b * k) = b * b /\ b * k \in Int
        BY <1>1, <1>3, <2>1, SMT
      <4>2. q = hh + k /\ sign = b * b
        BY <2>2, <3>1
      <4> DEFINE bk == b * k
      <4>3. b * q = bh + bk /\ 2 * bk = sign /\ bk \in Int
        BY <4>1, <4>2
      <4> HIDE DEF bk, bh, sign
      <4> QED
        BY <2>3, <4>3
    <3>2. CASE ~minus
      BY <2>1, <2>2, <2>3, <3>2
    <3> QED
      BY <1>11, <3>1, <3>2
  <2>5. 2 * p = 2 * ll + (IF h1 = 1 THEN b ELSE 0)
    BY <1>3, <2>1, <2>2
  <2> DEFINE bq == b * q
             bh1 == b * h1
  <2>6. /\ a = bq + p /\ bq \in Int /\ 2 * bq = 2 * bh + sign /\ n = 2 * bh + bh1 + 2 * ll + l1
        /\ 2 * p = 2 * ll + bh1 /\ bh1 \in Int /\ p \in Int
    <3>1. n = b * h + l
      BY <1>1
    <3>2. p \in Int /\ bh1 \in Int
      BY <1>1, <1>3, <2>1, <2>2
    <3>3. 2 * p = 2 * ll + bh1
      BY <2>3, <2>5
    <3> DEFINE g == b * h
    <3>4. g = 2 * bh + bh1 /\ n = g + l
      BY <2>3, <3>1
    <3> HIDE DEF g, bh1, bq, bh
    <3>5. n = 2 * bh + bh1 + 2 * ll + l1
      BY <2>1, <2>3, <3>2, <3>4
    <3> QED
      BY <2>2, <2>4, <3>2, <3>3, <3>5 DEF bq
  <2> HIDE DEF bq, bh1, bh, sign
  <2> QED
    BY <1>12, <2>1, <2>3, <2>6 DEF l1
<1>14. n % 2 = l % 2
  <2> DEFINE c == k * h
  <2>1. n = 2 * c + l /\ c \in Int
    BY <1>1, <1>3
  <2> HIDE DEF c
  <2> QED
    BY <1>1, <2>1
<1>15. flags'.cf = (n % 2 = 1)
  BY <1>4, <1>9, <1>14
<1>16. CASE op = "shr"
  <2>1. sign = 0 /\ m = n
    BY <1>1, <1>16 DEF minus
  <2>2. 2 * a = n - (n % 2) /\ a \in Int
    BY <1>1, <1>6, <1>13, <1>14, <2>1
  <2>3. a = n \div 2
    BY <1>1, <2>2
  <2> QED
    BY <1>15, <1>16, <2>3 DEF a, n
<1>17. CASE op = "sar"
  <2>1. WordMod = b * b /\ WordMod \in Nat \ {0}
    BY Widths DEF WordMod, b
  <2>2. m = Signed(n, WordMod)
    <3>1. Signed(n, WordMod) = b * Signed(h, b) + l
      BY <1>1, SignedWord DEF b
    <3>2. minus = (h >= k)
      BY <1>3, <1>17 DEF minus
    <3>3. Signed(h, b) = IF minus THEN h - b ELSE h
      BY <1>3, <3>2 DEF Signed
    <3>4. CASE minus
      <4>1. b * (h - b) = b * h - b * b
        BY <1>1
      <4> DEFINE bh == b * h
                 bb == b * b
      <4>2. bh \in Int /\ bb \in Int
        BY <1>1
      <4>3. Signed(n, WordMod) = (bh - bb) + l /\ m = n - bb /\ n = bh + l
        BY <1>1, <3>1, <3>3, <3>4, <4>1
      <4> HIDE DEF bh, bb, m
      <4> QED
        BY <1>1, <4>2, <4>3
    <3>5. CASE ~minus
      BY <1>1, <3>1, <3>3, <3>5
    <3> QED
      BY <1>11, <3>4, <3>5
  <2>3. PICK s \in {0, 1} : sign = WordMod * s
    <3>1. WordMod * 0 = 0 /\ WordMod * 1 = b * b
      BY <2>1
    <3> QED
      BY <1>11, <3>1
  <2> HIDE DEF m, sign
  <2>4. a = sign + m \div 2
    <3>1. m % 2 = l % 2
      <4>1. PICK e \in Int : sign = 2 * e
        <5>1. b * b = 2 * (k * b) /\ k * b \in Int /\ 0 = 2 * 0
          BY <1>1, <1>3, SMT
        <5> QED
          BY <1>11, <5>1 DEF sign
      <4>2. m = n - 2 * e
        BY <4>1 DEF m
      <4> QED
        BY <1>1, <1>14, <4>1, <4>2
    <3> QED
      BY <1>6, <1>12, <1>13, <2>1, <3>1
  <2> DEFINE y == m \div 2
  <2>5. y \in Int
    BY <1>12
  <2> HIDE DEF y
  <2>6. y = WordMod * (-s) + a
    <3> DEFINE w == WordMod * s
    <3>1. w \in Int /\ WordMod * (-s) = -w /\ a = w + y /\ a \in Int
      BY <1>6, <2>1, <2>3, <2>4 DEF y
    <3> HIDE DEF w
    <3> QED
      BY <2>5, <3>1
  <2>7. y % WordMod = a
    <3>1. -s \in Int /\ a \in 0 .. WordMod - 1
      BY <1>6
    <3> QED
      BY <2>1, <2>5, <2>6, <3>1, DivisionUnique
  <2> QED
    BY <1>15, <1>17, <2>2, <2>7 DEF a, n, y
<1> QED
  BY <1>16, <1>17

LEMMA WideShiftsStep ==
    Begun /\ Machine /\ Turned /\ WideShifts /\ [Next]_vars => WideShifts'
<1> SUFFICES ASSUME Begun, Machine, Turned, WideShifts, [Next]_vars PROVE WideShifts'
  OBVIOUS
<1>1. CASE Stays
  BY <1>1 DEF Stays, WideShifts, Ran, Src
<1>2. CASE ~Stays
  <2>1. start' = start /\ code' = code
    BY <1>2, StepIs DEF Moves
  <2>2. Ran(<<"shl", "rcl">>, <<"al", "ah">>)' /\ Src(1) = 1 /\ Src(2) = 1 =>
          ax' = (2 * start.ax) % WordMod
    BY <1>2, DoubledByBytes
  <2>3. Ran(<<"shr", "rcr">>, <<"ah", "al">>)' /\ Src(1) = 1 /\ Src(2) = 1 =>
          ax' = start.ax \div 2 /\ flags'.cf = (start.ax % 2 = 1)
    BY <1>2, HalvedByBytes
  <2>4. Ran(<<"sar", "rcr">>, <<"ah", "al">>)' /\ Src(1) = 1 /\ Src(2) = 1 =>
          /\ ax' = (Signed(start.ax, WordMod) \div 2) % WordMod
          /\ flags'.cf = (start.ax % 2 = 1)
    BY <1>2, HalvedByBytes
  <2>5. ASSUME NEW reg \in Regs
        PROVE  /\ Ran(<<"rol", "ror">>, <<reg, reg>>)' /\ Src(1) = Src(2) =>
                    ax' = start.ax /\ dx' = start.dx
               /\ Ran(<<"rcl", "rcr">>, <<reg, reg>>)' /\ Src(1) = Src(2) /\ Src(1) > 0 =>
                    ax' = start.ax /\ dx' = start.dx /\ flags'.cf = start.cf
    <3>1. Opposite("rol") = "ror" /\ Opposite("rcl") = "rcr"
      BY DEF Opposite
    <3> QED
      BY <1>2, <3>1, TurnsBack
  <2> QED
    BY <2>1, <2>2, <2>3, <2>4, <2>5 DEF WideShifts, Src
<1> QED
  BY <1>1, <1>2

\* Shifts by bytes and rotations back, for every width and count.
THEOREM BytesShift == Spec => []WideShifts
<1>1. Init => WideShifts
  BY DEF Init, WideShifts, Ran
<1> QED
  BY <1>1, WideShiftsStep, BegunInvariance, MachineInvariance, TurnedInvariance, PTL DEF Spec

-----------------------------------------------------------------------------
(* The digits of a sum and of a difference, and their carry.                *)

\* Multiples of n grow by n.
LEMMA Grows ==
    ASSUME NEW n \in Nat, NEW x \in Int, NEW y \in Int, x < y
    PROVE  n * x + n <= n * y
<1>1. n * (y - x - 1) >= 0
  BY SMT
<1>2. n * (y - x - 1) = n * y - n * x - n
  BY SMT
<1> QED
  BY <1>1, <1>2

\* A number below two turns.
LEMMA ResidueNear ==
    ASSUME NEW w \in Nat \ {0}, NEW x \in Int, 0 <= x, x < 2 * w
    PROVE  x % w = IF x >= w THEN x - w ELSE x
<1>1. CASE x >= w
  <2>1. x = w * 1 + (x - w) /\ x - w \in 0 .. w - 1
    BY <1>1
  <2> QED
    BY <1>1, <2>1, DivisionUnique
<1>2. CASE x < w
  BY <1>2, SmallResidue
<1> QED
  BY <1>1, <1>2

\* What is below n * n has two digits in base n.
LEMMA TwoDigits ==
    ASSUME NEW n \in Nat \ {0}, NEW i \in 0 .. n - 1, NEW j \in 0 .. n - 1
    PROVE  /\ n * i + j \in 0 .. n * n - 1
           /\ (n * i + j) % n = j /\ (n * i + j) \div n = i
<1>1. n * i + j \in Int /\ n * i >= 0
  BY SMT
<1>2. n * i + n <= n * n
  BY Grows
<1> DEFINE p == n * i
           s == n * n
<1>3. p >= 0 /\ p + n <= s /\ p \in Int /\ s \in Int
  BY <1>1, <1>2
<1>4. (p + j) % n = j /\ (p + j) \div n = i
  BY <1>1, DivisionUnique
<1> HIDE DEF p, s
<1>5. p + j \in 0 .. s - 1
  BY <1>3
<1> QED
  BY <1>4, <1>5 DEF p, s

\* Two digits and a carry of r each, seen in base n.
SumDigits(n, r, v, u, total, carry) ==
    \E h \in 0 .. r - 1, l \in 0 .. r - 1 :
       /\ total % (n * n) = n * h + l
       /\ r * v + u = (r * h + l) + (IF carry THEN r * r ELSE 0)

LEMMA DigitsOfSum ==
    ASSUME NEW n \in Nat \ {0}, NEW r \in 1 .. n,
           NEW v \in 0 .. 2 * r - 2, NEW u \in 0 .. 2 * r - 1,
           NEW af \in BOOLEAN, NEW cf \in BOOLEAN,
           NEW a \in Int, a = (n * v + u) % (n * n), cf <=> n * v + u >= n * n,
           r < n => (af <=> u >= n),
           NEW low, low <=> af \/ a % n >= r,
           NEW data, data = IF low THEN a + (n - r) ELSE a,
           NEW over, data \in 0 .. 2 * (n * n) - 1 => (over <=> data >= n * n),
           NEW carry, carry <=> \/ cf
                                \/ low /\ over
                                \/ data % (n * n) > r * n - 1,
           NEW total, total = IF carry THEN data + n * (n - r) ELSE data
    PROVE  SumDigits(n, r, v, u, total, carry)
<1> DEFINE b == n * n
           k == IF u >= r THEN 1 ELSE 0
           l == u - (IF u >= r THEN r ELSE 0)
           t == v + k
           h == t - (IF t >= r THEN r ELSE 0)
           c == IF cf THEN 1 ELSE 0
           x == n * v + u
<1>1. b \in Nat \ {0}
  BY SMT
<1>2. k \in {0, 1} /\ l \in 0 .. r - 1 /\ t \in 0 .. 2 * r - 1 /\ h \in 0 .. r - 1
  OBVIOUS
<1>3. n * v \in Int /\ x \in Int /\ n * v >= 0
  BY SMT
<1>4. n * t = n * v + n * k /\ n * k = (IF u >= r THEN n ELSE 0)
  BY SMT
<1>5. /\ t < n => n * t + n <= b
      /\ t >= n => n * t >= b
      /\ t < r => n * t + n <= n * r
      /\ t >= r => n * t >= n * r
      /\ n * t + n <= n * (2 * n)
      /\ n * (2 * n) = 2 * b
      /\ n * t >= 0 /\ n * t \in Int /\ n * r <= b /\ n * r \in Int /\ r * n = n * r
  <2>1. \A y \in Int : y > t => n * t + n <= n * y
    BY <1>2, Grows
  <2>2. \A y \in Int : y <= t => n * y <= n * t
    <3> SUFFICES ASSUME NEW y \in Int, y <= t PROVE n * y <= n * t
      OBVIOUS
    <3>1. CASE y = t
      BY <3>1, <1>2
    <3>2. CASE y < t
      <4>1. n * y + n <= n * t
        BY <1>2, <3>2, Grows
      <4>2. n * y \in Int /\ n * t \in Int
        BY <1>2, SMT
      <4> QED
        BY <4>1, <4>2
    <3> QED
      BY <3>1, <3>2, <1>2
  <2>3. n * r <= b
    <3>1. CASE r = n
      BY <3>1, <1>1
    <3>2. CASE r < n
      <4>1. n * r + n <= n * n
        BY <3>2, Grows
      <4>2. n * r \in Int /\ n * n \in Int
        BY SMT
      <4> QED
        BY <4>1, <4>2
    <3> QED
      BY <3>1, <3>2
  <2>4. n * t >= 0 /\ n * t \in Int /\ n * (2 * n) = 2 * b /\ n * r \in Int /\ r * n = n * r
    BY <1>2, SMT
  <2>5. 2 * n > t /\ 2 * n \in Int
    BY <1>2
  <2> HIDE DEF t, b
  <2>6. /\ n * t + n <= n * (2 * n)
        /\ (t < r => n * t + n <= n * r) /\ (t >= r => n * t >= n * r)
    BY <1>2, <2>1, <2>2, <2>5
  <2>7. (t < n => n * t + n <= b) /\ (t >= n => n * t >= b)
    BY <1>2, <2>1, <2>2 DEF b
  <2> QED
    BY <2>3, <2>4, <2>6, <2>7
<1> DEFINE nv == n * v
           nt == n * t
           nr == n * r
<1>6. /\ x = nv + u /\ nt = nv + (IF u >= r THEN n ELSE 0)
      /\ nv \in Int /\ nt \in Int /\ nr \in Int /\ nv >= 0 /\ nt >= 0
      /\ nr <= b /\ nt + n <= 2 * b /\ r * n = nr
      /\ t < n => nt + n <= b
      /\ t >= n => nt >= b
      /\ t < r => nt + n <= nr
      /\ t >= r => nt >= nr
  BY <1>3, <1>4, <1>5
<1>7. v >= n => nv >= b
  BY SMT
<1>8. n * (n - r) = b - nr
  BY SMT
<1>9. r * v + u = r * t + l
  <2>1. r * t = r * v + r * k /\ r * k = (IF u >= r THEN r ELSE 0) /\ r * v \in Int
    BY SMT
  <2> DEFINE p == r * v
             q == r * k
             s == r * t
  <2>2. s = p + q /\ q = (IF u >= r THEN r ELSE 0) /\ p \in Int
    BY <2>1
  <2> HIDE DEF p, q, s, k, t
  <2>3. p + u = s + l
    BY <2>2
  <2> QED
    BY <2>3 DEF p, s
<1>10. r * t + l = (r * h + l) + (IF t >= r THEN r * r ELSE 0)
  <2>1. r * h = r * t - (IF t >= r THEN r * r ELSE 0)
    BY <1>2, SMT
  <2>2. r * t \in Int /\ r * r \in Int
    BY <1>2, SMT
  <2> DEFINE p == r * h
             q == r * r
             s == r * t
  <2>3. p = s - (IF t >= r THEN q ELSE 0) /\ s \in Int /\ q \in Int
    BY <2>1, <2>2
  <2> HIDE DEF p, q, s, h, t
  <2>4. s + l = (p + l) + (IF t >= r THEN q ELSE 0)
    BY <1>2, <2>3
  <2> QED
    BY <2>4 DEF p, q, s
<1>11. n * h = nt - (IF t >= r THEN nr ELSE 0)
  BY <1>2, SMT
<1>12. h \in 0 .. n - 1 /\ l \in 0 .. n - 1
  BY <1>2
<1>13. n * h + l \in 0 .. b - 1
  BY <1>12, TwoDigits
<1> DEFINE nh == n * h
           m == nh + l
<1>14. /\ nh = nt - (IF t >= r THEN nr ELSE 0) /\ nh \in Int
       /\ m = nh + l /\ m \in 0 .. b - 1
  <2>1. nh \in Int
    BY <1>12, SMT
  <2> QED
    BY <1>11, <1>13, <2>1
<1>15. b \in Int /\ x \in Int /\ t \in Int /\ l \in Int
  BY <1>1, <1>2, <1>3
<1>16. x >= 0 /\ x < 2 * b => x % b = IF x >= b THEN x - b ELSE x
  <2> HIDE DEF x, b
  <2> QED
    BY <1>1, <1>15, ResidueNear
<1>17. a = x % b /\ (cf <=> x >= b)
  OBVIOUS
<1> DEFINE found == total % b = m /\ (carry <=> t >= r)
<1>18. ASSUME r = n PROVE found
  <2>1. nr = b
    BY <1>18
  <2>2. x = m + (IF t >= r THEN b ELSE 0)
    <3> HIDE DEF nv, nt, nr, x, b, t, h, l, m, nh
    <3>1. x + (IF u >= r THEN n - r ELSE 0) = nt + l
      BY <1>6, <1>15 DEF l
    <3>2. nt + l = m + (IF t >= r THEN nr ELSE 0)
      BY <1>6, <1>14, <1>15
    <3> QED
      BY <1>14, <1>15, <1>18, <2>1, <3>1, <3>2
  <2> HIDE DEF x, b, m, t, nr
  <2>3. a = m /\ (cf <=> t >= r)
    <3>1. CASE t >= r
      BY <1>1, <1>14, <1>15, <1>16, <1>17, <2>2, <3>1
    <3>2. CASE ~(t >= r)
      BY <1>1, <1>14, <1>15, <1>16, <1>17, <2>2, <3>2
    <3> QED
      BY <3>1, <3>2, Zenon
  <2>4. data = a /\ a % b = m
    BY <1>1, <1>14, <1>18, <2>3, SmallResidue
  <2>5. r * n = b
    BY <1>6, <2>1
  <2>6. carry <=> cf
    <3>1. ~over
      BY <1>14, <1>15, <2>3, <2>4 DEF b
    <3> QED
      BY <1>14, <1>15, <2>3, <2>4, <2>5, <3>1 DEF b
  <2>7. total = data
    <3>1. n * (n - r) = 0
      BY <1>18, SMT
    <3> QED
      BY <1>14, <2>3, <2>4, <3>1
  <2> QED
    BY <2>3, <2>4, <2>6, <2>7
<1>19. ASSUME r < n PROVE found
  <2> DEFINE e == IF u >= n THEN 1 ELSE 0
             w == u - (IF u >= n THEN n ELSE 0)
             y == v + e
             ny == n * y
             z == y - (IF cf THEN n ELSE 0)
  <2>1. e \in {0, 1} /\ w \in 0 .. n - 1 /\ y \in 0 .. 2 * n - 1 /\ y <= t
    BY <1>19
  <2>2. ny = nv + (IF u >= n THEN n ELSE 0)
    BY SMT
  <2>3. ny + n <= 2 * b /\ (y < n => ny + n <= b) /\ (y >= n => ny >= b) /\ ny >= 0
    <3>1. n * y + n <= n * (2 * n) /\ (y < n => n * y + n <= n * n)
      <4> HIDE DEF y
      <4>1. y \in Int /\ 2 * n \in Int /\ y < 2 * n
        BY <2>1
      <4> QED
        BY <4>1, Grows
    <3>2. (y >= n => n * y >= n * n) /\ n * y >= 0
      BY <2>1, SMT
    <3> QED
      BY <1>5, <3>1, <3>2
  <2>4. n * z = ny - (IF cf THEN b ELSE 0)
    BY <2>1, SMT
  <2> HIDE DEF x, b, nv, ny, t, e
  <2>5. x = ny + w /\ ny \in Int
    BY <1>6, <2>2
  <2>6. a = ny + w - (IF cf THEN b ELSE 0) /\ (cf <=> y >= n) /\ a \in 0 .. b - 1
    <3> HIDE DEF w, y
    <3>1. x >= 0 /\ x < 2 * b /\ (x >= b <=> y >= n)
      BY <1>15, <2>1, <2>3, <2>5
    <3>2. a = IF x >= b THEN x - b ELSE x
      BY <1>15, <1>16, <1>17, <3>1
    <3> QED
      BY <1>15, <1>17, <2>1, <2>5, <3>1, <3>2
  <2> DEFINE nz == n * z
  <2>7. nz = ny - (IF cf THEN b ELSE 0) /\ z \in Int
    BY <2>1, <2>4
  <2> HIDE DEF nz, w, y, z
  <2>8. a = nz + w
    BY <1>15, <2>1, <2>5, <2>6, <2>7
  <2>9. a % n = w
    BY <2>1, <2>7, <2>8, DivisionUnique DEF nz
  <2>10. low <=> u >= r
    BY <1>19, <2>9 DEF w
  <2> HIDE DEF nt, l
  <2>11. data = nt + l - (IF cf THEN b ELSE 0)
    <3>1. data = x - (IF cf THEN b ELSE 0) + (IF u >= r THEN n - r ELSE 0)
      BY <1>15, <2>1, <2>5, <2>6, <2>10
    <3>2. nt + l = x + (IF u >= r THEN n - r ELSE 0)
      BY <1>6, <1>15, <2>5 DEF l
    <3> HIDE DEF x
    <3> QED
      BY <1>6, <1>15, <3>1, <3>2
  <2>12. data \in Int /\ l \in 0 .. n - 1 /\ l \in 0 .. r - 1
    BY <1>2, <1>6, <1>15, <2>11 DEF l
  <2>13. carry <=> t >= r
    <3>1. CASE cf
      BY <1>15, <1>19, <2>1, <2>6, <3>1
    <3>2. CASE ~cf /\ t >= n
      <4>1. data >= b /\ data < 2 * b
        BY <1>6, <1>15, <2>11, <2>12, <3>2
      <4>2. u >= r
        BY <1>15, <2>1, <2>6, <3>2 DEF t, y
      <4> QED
        BY <1>15, <1>19, <2>10, <3>2, <4>1, <4>2 DEF b
    <3>3. CASE ~cf /\ t < n
      <4>1. data \in 0 .. b - 1 /\ data = nt + l
        BY <1>6, <1>15, <2>11, <2>12, <3>3
      <4>2. data % b = data
        BY <1>1, <4>1, SmallResidue
      <4>3. carry <=> data > r * n - 1
        <5>1. ~over
          BY <1>1, <4>1 DEF b
        <5> QED
          BY <1>1, <3>3, <4>1, <4>2, <5>1 DEF b
      <4>4. data > r * n - 1 <=> t >= r
        <5> HIDE DEF nr
        <5> QED
          BY <1>6, <1>15, <2>12, <4>1
      <4> QED
        BY <4>3, <4>4
    <3> QED
      BY <1>15, <3>1, <3>2, <3>3
  <2>14. total = m + b * ((IF t >= r THEN 1 ELSE 0) - (IF cf THEN 1 ELSE 0))
    <3> DEFINE j == (IF t >= r THEN 1 ELSE 0) - (IF cf THEN 1 ELSE 0)
    <3>1. b * j = (IF t >= r THEN b ELSE 0) - (IF cf THEN b ELSE 0)
      BY <1>15, SMT
    <3>2. total = data + (IF t >= r THEN b - nr ELSE 0)
      BY <1>8, <1>6, <1>15, <2>12, <2>13
    <3> HIDE DEF m, nh, nr, h
    <3>3. total = m + (IF t >= r THEN b ELSE 0) - (IF cf THEN b ELSE 0)
      BY <1>6, <1>14, <1>15, <2>11, <2>12, <3>2
    <3>4. total = m + ((IF t >= r THEN b ELSE 0) - (IF cf THEN b ELSE 0))
      BY <1>14, <1>15, <3>3
    <3> QED
      BY <3>1, <3>4
  <2>15. total % b = m
    <3> DEFINE j == (IF t >= r THEN 1 ELSE 0) - (IF cf THEN 1 ELSE 0)
    <3>1. j \in Int
      BY <1>15
    <3> HIDE DEF m, j
    <3>2. m \in Int /\ m % b = m
      BY <1>1, <1>14, SmallResidue
    <3>3. (m + b * j) % b = m % b
      BY <1>1, <3>1, <3>2, SameResidue, Zenon
    <3> QED
      BY <2>14, <3>2, <3>3, Zenon DEF j
  <2> QED
    BY <2>13, <2>15
<1>20. found
  <2>1. r = n \/ r < n
    OBVIOUS
  <2> HIDE DEF found
  <2> QED
    BY <1>18, <1>19, <2>1, Zenon
<1>21. r * v + u = (r * h + l) + (IF t >= r THEN r * r ELSE 0)
  BY <1>9, <1>10
<1> HIDE DEF h, l, t
<1>22. total % (n * n) = n * h + l /\ r * v + u = (r * h + l) + (IF carry THEN r * r ELSE 0)
  BY <1>20, <1>21
<1> QED
  BY <1>2, <1>22 DEF SumDigits

DifferenceDigits(n, r, v, u, total, carry) ==
    \E h \in 0 .. r - 1, l \in 0 .. r - 1 :
       /\ total % (n * n) = n * h + l
       /\ r * v + u = (r * h + l) - (IF carry THEN r * r ELSE 0)

LEMMA DigitsOfDifference ==
    ASSUME NEW n \in Nat \ {0}, NEW r \in 1 .. n,
           NEW v \in 1 - r .. r - 1, NEW u \in -r .. r - 1,
           NEW af \in BOOLEAN, NEW cf \in BOOLEAN,
           NEW a \in Int, a = (n * v + u) % (n * n), cf <=> n * v + u < 0,
           r < n => (af <=> u < 0),
           NEW low, low <=> af \/ a % n >= r,
           NEW data, data = IF low THEN a - (n - r) ELSE a,
           NEW over, data \in 0 .. 2 * (n * n) - 1 => (over <=> data >= n * n),
           NEW carry, carry <=> \/ cf
                                \/ low /\ over
                                \/ data % (n * n) > r * n - 1,
           NEW total, total = IF carry THEN data - n * (n - r) ELSE data
    PROVE  DifferenceDigits(n, r, v, u, total, carry)
<1> DEFINE b == n * n
           k == IF u < 0 THEN 1 ELSE 0
           t == v - k
           l == u + (IF u < 0 THEN r ELSE 0)
           w == u + (IF u < 0 THEN n ELSE 0)
           h == t + (IF t < 0 THEN r ELSE 0)
           g == t + (IF t < 0 THEN n ELSE 0)
           x == n * v + u
           nt == n * t
           ng == n * g
           nh == n * h
           nr == n * r
<1>1. b \in Nat \ {0}
  BY SMT
<1>2. /\ k \in {0, 1} /\ t \in -r .. r - 1 /\ h \in 0 .. r - 1 /\ l \in 0 .. r - 1
      /\ g \in 0 .. n - 1 /\ w \in 0 .. n - 1 /\ h \in 0 .. n - 1 /\ l \in 0 .. n - 1
  OBVIOUS
<1>3. x = nt + w /\ x \in Int /\ nt \in Int
  <2>1. nt = n * v - n * k /\ n * k = (IF u < 0 THEN n ELSE 0) /\ n * v \in Int
    BY <1>2, SMT
  <2> DEFINE nv == n * v
             nk == n * k
  <2>2. nt = nv - nk /\ nk = (IF u < 0 THEN n ELSE 0) /\ nv \in Int /\ x = nv + u
    BY <2>1
  <2> HIDE DEF nv, nk, nt, x
  <2> QED
    BY <2>2
<1>4. /\ ng = nt + (IF t < 0 THEN b ELSE 0) /\ nh = nt + (IF t < 0 THEN nr ELSE 0)
      /\ nr \in Int /\ r * n = nr
  BY <1>2, SMT
<1>5. ng + w \in 0 .. b - 1 /\ (ng + w) % n = w /\ ng + l \in 0 .. b - 1 /\ nh + l \in 0 .. b - 1
  BY <1>2, TwoDigits
<1>6. t \in Int /\ b \in Int /\ l \in Int /\ w \in Int /\ ng \in Int /\ nh \in Int
  BY <1>1, <1>2, <1>3, <1>4
<1>7. cf <=> t < 0
  <2>1. t < 0 => nt + n <= 0
    <3>1. t < 0 => n * t + n <= n * 0
      BY <1>6, Grows
    <3>2. n * 0 = 0
      OBVIOUS
    <3> QED
      BY <3>1, <3>2
  <2>2. t >= 0 => nt >= 0
    BY <1>2, SMT
  <2> HIDE DEF t, nt, w
  <2> QED
    BY <1>2, <1>3, <1>6, <2>1, <2>2
<1>8. a = ng + w
  <2>1. x = b * (IF t < 0 THEN -1 ELSE 0) + (ng + w)
    <3> HIDE DEF t, nt, w, b, ng, x
    <3> QED
      BY <1>3, <1>4, <1>6
  <2> DEFINE q == IF t < 0 THEN -1 ELSE 0
             y == ng + w
  <2>2. q \in Int /\ x = b * q + y /\ y \in 0 .. b - 1
    BY <1>5, <2>1
  <2> HIDE DEF b, x, q, y
  <2>3. x % b = y
    BY <1>1, <1>3, <2>2, DivisionUnique, Zenon
  <2> QED
    BY <2>3 DEF b, x, y
<1>9. data = ng + l
  <2>1. r < n => (low <=> u < 0)
    BY <1>5, <1>8
  <2> HIDE DEF ng
  <2> QED
    BY <1>6, <1>8, <2>1
<1>10. carry <=> t < 0
  <2>1. data % b = data /\ data \in 0 .. b - 1
    BY <1>1, <1>5, <1>9, SmallResidue
  <2>2. ~over
    BY <1>1, <2>1
  <2>3. t >= 0 => nt + n <= nr
    BY <1>2, <1>6, SMT
  <2>4. t >= 0 => ~(data > nr - 1)
    <3> HIDE DEF ng, nr, nt, t, l, b
    <3> QED
      BY <1>2, <1>3, <1>4, <1>6, <1>9, <2>3
  <2>5. carry <=> cf \/ data > nr - 1
    BY <1>4, <2>1, <2>2
  <2> HIDE DEF t
  <2> QED
    BY <1>6, <1>7, <2>4, <2>5
<1>11. total = nh + l
  <2>1. n * (n - r) = b - nr
    BY SMT
  <2> HIDE DEF nh, ng, nt, nr, b, t, l
  <2> QED
    BY <1>3, <1>4, <1>6, <1>9, <1>10, <2>1
<1>12. total % (n * n) = n * h + l
  <2>1. total % b = total
    BY <1>1, <1>5, <1>11, SmallResidue
  <2> QED
    BY <1>11, <2>1
<1>13. r * v + u = (r * h + l) - (IF t < 0 THEN r * r ELSE 0)
  <2>1. r * v = r * t + (IF u < 0 THEN r ELSE 0) /\ r * v \in Int
    BY <1>2, SMT
  <2>2. r * h = r * t + (IF t < 0 THEN r * r ELSE 0) /\ r * t \in Int /\ r * r \in Int
    BY <1>2, SMT
  <2> DEFINE rv == r * v
             rt == r * t
             rh == r * h
             rr == r * r
  <2>3. /\ rv = rt + (IF u < 0 THEN r ELSE 0) /\ rh = rt + (IF t < 0 THEN rr ELSE 0)
        /\ rv \in Int /\ rt \in Int /\ rr \in Int
    BY <2>1, <2>2
  <2> HIDE DEF rv, rt, rh, rr, t, h
  <2>4. rv + u = (rh + l) - (IF t < 0 THEN rr ELSE 0)
    BY <1>6, <2>3 DEF l
  <2> QED
    BY <2>4 DEF rv, rh, rr
<1> HIDE DEF h, l, t
<1>14. r * v + u = (r * h + l) - (IF carry THEN r * r ELSE 0)
  BY <1>10, <1>13
<1> QED
  BY <1>2, <1>12, <1>14 DEF DifferenceDigits

-----------------------------------------------------------------------------
(* What the adjustments make of AL, AF and CF.                              *)

\* An odd number among a sum and its two parts is the carry between them.
LEMMA Parity ==
    ASSUME NEW p \in Int, NEW q \in Int, NEW m \in Int, NEW e \in {0, 1},
           p = q + m + e \/ p = m - (q + e)
    PROVE  ((p % 2 = 1) # (q % 2 = 1)) # (m % 2 = 1) <=> e = 1
<1>1. \A y \in Int : y = 2 * (y \div 2) + (y % 2) /\ y \div 2 \in Int /\ y % 2 \in {0, 1}
  <2> SUFFICES ASSUME NEW y \in Int
               PROVE  y = 2 * (y \div 2) + (y % 2) /\ y \div 2 \in Int /\ y % 2 \in {0, 1}
    OBVIOUS
  <2>1. y = 2 * (y \div 2) + (y % 2) /\ y \div 2 \in Int /\ y % 2 \in 0 .. 2 - 1
    BY DivisionIs
  <2> QED
    BY <2>1
<1> DEFINE hp == p \div 2
           hq == q \div 2
           hm == m \div 2
           lp == p % 2
           lq == q % 2
           lm == m % 2
<1>2. /\ p = 2 * hp + lp /\ q = 2 * hq + lq /\ m = 2 * hm + lm
      /\ hp \in Int /\ hq \in Int /\ hm \in Int
      /\ lp \in {0, 1} /\ lq \in {0, 1} /\ lm \in {0, 1}
  BY <1>1
<1> HIDE DEF hp, hq, hm, lp, lq, lm
<1>3. e = 1 <=> lp + lq + lm \in {1, 3}
  BY <1>2
<1>4. ((lp = 1) # (lq = 1)) # (lm = 1) <=> lp + lq + lm \in {1, 3}
  BY <1>2
<1> QED
  BY <1>3, <1>4 DEF lp, lq, lm

\* AF after a sum or a difference is the carry out of the low nibbles.
LEMMA HalfCarryIs ==
    ASSUME NEW n \in Nat \ {0}, n = Nibble,
           NEW dh \in Int, NEW dl \in 0 .. n - 1, NEW th \in Int, NEW tl \in 0 .. n - 1
    PROVE  /\ HalfCarry((n * dh + dl) + (n * th + tl), n * th + tl, n * dh + dl) <=> dl + tl >= n
           /\ HalfCarry((n * dh + dl) - (n * th + tl), n * th + tl, n * dh + dl) <=> dl < tl
<1> DEFINE d == n * dh + dl
           t == n * th + tl
           e == IF dl + tl >= n THEN 1 ELSE 0
           f == IF dl < tl THEN 1 ELSE 0
           p == th + dh + e
           g == dh - (th + f)
<1>1. d \in Int /\ t \in Int /\ d \div n = dh /\ t \div n = th
  <2>1. n * dh \in Int /\ n * th \in Int
    BY SMT
  <2> QED
    BY <2>1, DivisionUnique
<1> DEFINE sum == d + t
           difference == d - t
           low == (dl + tl) - (IF dl + tl >= n THEN n ELSE 0)
           rest == (dl - tl) + (IF dl < tl THEN n ELSE 0)
<1>2. sum = n * p + low /\ p \in Int /\ low \in 0 .. n - 1
  BY SMT
<1>3. difference = n * g + rest /\ g \in Int /\ rest \in 0 .. n - 1
  BY SMT
<1>4. sum \in Int /\ difference \in Int /\ e \in {0, 1} /\ f \in {0, 1}
  BY <1>1
<1>5. (e = 1 <=> dl + tl >= n) /\ (f = 1 <=> dl < tl)
  OBVIOUS
<1> HIDE DEF d, t, sum, difference, low, rest, p, g, e, f
<1>6. sum \div n = p /\ difference \div n = g
  BY <1>2, <1>3, <1>4, DivisionUnique
<1> DEFINE ofSum == ((p % 2 = 1) # (th % 2 = 1)) # (dh % 2 = 1)
           ofDifference == ((g % 2 = 1) # (th % 2 = 1)) # (dh % 2 = 1)
<1>7. HalfCarry(sum, t, d) <=> ofSum
  BY <1>1, <1>6, Zenon DEF HalfCarry, Bit
<1>8. HalfCarry(difference, t, d) <=> ofDifference
  BY <1>1, <1>6, Zenon DEF HalfCarry, Bit
<1>9. ofSum <=> e = 1
  BY <1>2, <1>4, Parity DEF p
<1>10. ofDifference <=> f = 1
  BY <1>3, <1>4, Parity DEF g
<1> HIDE DEF ofSum, ofDifference
<1> QED
  BY <1>5, <1>7, <1>8, <1>9, <1>10, Zenon DEF d, t, sum, difference

\* What the adjustments make of AL, of AF and of CF.
LowDigit == flags.af \/ al % Nibble >= Radix
Corrected(down) ==
    IF LowDigit THEN (IF down THEN al - (Nibble - Radix) ELSE al + (Nibble - Radix)) ELSE al
CarryOut(down) ==
    \/ flags.cf
    \/ LowDigit /\ Bit(Corrected(down), ByteMod)
    \/ Corrected(down) % ByteMod > Radix * Nibble - 1
Adjusted(down) ==
    IF CarryOut(down)
      THEN IF down THEN Corrected(down) - Nibble * (Nibble - Radix)
           ELSE Corrected(down) + Nibble * (Nibble - Radix)
      ELSE Corrected(down)

LEMMA CorrectedIs ==
    ASSUME Machine, NEW down \in BOOLEAN
    PROVE  LET sign == IF down THEN -1 ELSE 1
               low  == flags.af \/ al % Nibble >= Radix
           IN  /\ (IF low THEN al + sign * (Nibble - Radix) ELSE al) = Corrected(down)
               /\ Corrected(down) \in Int
<1> DEFINE sign == IF down THEN -1 ELSE 1
           low  == flags.af \/ al % Nibble >= Radix
           g == Nibble - Radix
<1>1. al \in Int /\ g \in Int
  BY BytesOfAx
<1> HIDE DEF low, g
<1>2. sign * g = IF down THEN -g ELSE g
  BY <1>1
<1>3. al + sign * g = IF down THEN al - g ELSE al + g
  BY <1>1, <1>2
<1>4. (IF low THEN al + sign * g ELSE al) = (IF low THEN IF down THEN al - g ELSE al + g ELSE al)
  BY <1>3
<1>5. (IF low THEN IF down THEN al - g ELSE al + g ELSE al) \in Int
  BY <1>1
<1> QED
  BY <1>4, <1>5 DEF Corrected, LowDigit, low, g

LEMMA AdjustIs ==
    ASSUME Machine, NEW down \in BOOLEAN
    PROVE  LET r == Adjust(flags, down)
           IN  r.data = Wide(ah, Adjusted(down)) /\ r.flags.cf = CarryOut(down)
<1> DEFINE sign == IF down THEN -1 ELSE 1
           low == flags.af \/ al % Nibble >= Radix
           data == IF low THEN al + sign * (Nibble - Radix) ELSE al
           cf == \/ flags.cf
                 \/ low /\ Bit(data, ByteMod)
                 \/ data % ByteMod > Radix * Nibble - 1
           total == IF cf THEN data + sign * Nibble * (Nibble - Radix) ELSE data
           f == [flags EXCEPT !.af = low, !.cf = cf]
           r == Adjust(flags, down)
<1>1. r = [data |-> Wide(ah, total), flags |-> SetPZS(f, total % ByteMod, FALSE)]
  BY Zenon DEF Adjust, Result
<1>2. data = Corrected(down) /\ Corrected(down) \in Int
  BY CorrectedIs, Zenon
<1>3. low = LowDigit
  BY Zenon DEF LowDigit
<1> HIDE DEF data, low
<1>4. cf = CarryOut(down)
  BY <1>2, <1>3, Zenon DEF CarryOut
<1> HIDE DEF cf
<1>5. total = Adjusted(down)
  <2> DEFINE g == Nibble * (Nibble - Radix)
  <2>1. g \in Int /\ sign * Nibble * (Nibble - Radix) = (IF down THEN -g ELSE g)
    BY BytesOfAx, SMT
  <2> DEFINE y == sign * Nibble * (Nibble - Radix)
  <2> HIDE DEF y, g
  <2>2. y = (IF down THEN -g ELSE g) /\ g \in Int
    BY <2>1 DEF y
  <2>3. data + y = (IF down THEN data - g ELSE data + g)
    BY <1>2, <2>2
  <2>4. total = IF cf THEN data + y ELSE data
    BY DEF y
  <2> HIDE DEF total
  <2>5. Adjusted(down) = IF cf THEN IF down THEN data - g ELSE data + g ELSE data
    BY <1>2, <1>4, Zenon DEF Adjusted, g
  <2> QED
    BY <2>3, <2>4, <2>5
<1> HIDE DEF total
<1>6. f \in FlagSet /\ f.cf = cf
  <2>1. flags \in FlagSet
    BY DEF Machine
  <2>2. low \in BOOLEAN /\ cf \in BOOLEAN
    BY DEF low, cf
  <2> QED
    BY <2>1, <2>2 DEF FlagSet
<1> HIDE DEF f, r
<1>7. SetPZS(f, total % ByteMod, FALSE).cf = f.cf
  <2> DEFINE no == FALSE
  <2> HIDE DEF no
  <2>1. SetPZS(f, total % ByteMod, no).cf = f.cf
    BY <1>6, SetPZSIs
  <2> QED
    BY <2>1 DEF no
<1>8. r.data = Wide(ah, total) /\ r.flags = SetPZS(f, total % ByteMod, FALSE)
  BY <1>1
<1> QED
  BY <1>4, <1>5, <1>6, <1>7, <1>8, Zenon DEF r

LEMMA AsciiAdjustIs ==
    ASSUME Machine, NEW down \in BOOLEAN
    PROVE  AsciiAdjust(flags, down).data =
             Wide(IF LowDigit THEN (IF down THEN ah - 1 ELSE ah + 1) ELSE ah,
                  Corrected(down) % Nibble)
<1> DEFINE sign == IF down THEN -1 ELSE 1
           low == flags.af \/ al % Nibble >= Radix
           data == IF low THEN al + sign * (Nibble - Radix) ELSE al
<1>1. data = Corrected(down)
  BY CorrectedIs, Zenon
<1>2. low = LowDigit
  BY Zenon DEF LowDigit
<1>3. ah + sign = IF down THEN ah - 1 ELSE ah + 1
  BY BytesOfAx
<1>4. AsciiAdjust(flags, down).data = Wide(IF low THEN ah + sign ELSE ah, data % Nibble)
  BY DEF AsciiAdjust, Result
<1> QED
  BY <1>1, <1>2, <1>3, <1>4, Zenon

-----------------------------------------------------------------------------
(* Packed numbers.                                                          *)

\* Packed decimal digits, and the number they are.
DigitsIn(n) == n % Nibble < Radix /\ n \div Nibble < Radix
ValueOf(n)  == (n \div Nibble) * Radix + (n % Nibble)

LEMMA NibblesOfByte ==
    ASSUME NEW n \in 0 .. ByteMod - 1
    PROVE  /\ n \div Nibble \in 0 .. Nibble - 1 /\ n % Nibble \in 0 .. Nibble - 1
           /\ n = Nibble * (n \div Nibble) + (n % Nibble)
<1> DEFINE b == Nibble
           h == n \div b
           l == n % b
<1>1. b \in Nat \ {0} /\ ByteMod = b * b
  BY AluAssumption DEF ByteMod
<1>2. n = b * h + l /\ h \in Int /\ l \in 0 .. b - 1
  <2> HIDE DEF b
  <2>1. n \in Int /\ ByteMod \in Int
    BY Widths
  <2> QED
    BY <1>1, <2>1, DivisionIs
<1> HIDE DEF b, h, l
<1>3. n \in Int /\ n >= 0 /\ n < b * b
  BY <1>1
<1>4. h >= 0
  <2>1. h < 0 => b * h + b <= b * 0
    BY <1>1, <1>2, Grows
  <2>2. b * 0 = 0 /\ b * h \in Int
    BY <1>1, <1>2, SMT
  <2> QED
    BY <1>1, <1>2, <1>3, <2>1, <2>2
<1>5. h < b
  <2>1. h >= b => b * h >= b * b
    BY <1>1, <1>2, SMT
  <2>2. b * h \in Int /\ b * b \in Int
    BY <1>1, <1>2, SMT
  <2> QED
    BY <1>1, <1>2, <1>3, <2>1, <2>2
<1> QED
  BY <1>1, <1>2, <1>4, <1>5 DEF b, h, l

\* Two digits of that many values: the number and a carry out of it.
LEMMA Overflowing ==
    ASSUME NEW r \in Nat \ {0}, NEW h \in 0 .. r - 1, NEW l \in 0 .. r - 1, NEW carry \in BOOLEAN,
           NEW x \in Int, x = (r * h + l) + (IF carry THEN r * r ELSE 0)
    PROVE  x % (r * r) = r * h + l /\ carry = (x >= r * r)
<1> DEFINE y == r * h + l
           b == r * r
<1>1. y \in 0 .. b - 1 /\ b \in Nat \ {0}
  <2>1. b \in Nat \ {0}
    BY SMT
  <2> QED
    BY <2>1, TwoDigits
<1> HIDE DEF y, b
<1>2. x = y + (IF carry THEN b ELSE 0)
  BY DEF y, b
<1>3. 0 <= x /\ x < 2 * b
  BY <1>1, <1>2
<1>4. x % b = (IF x >= b THEN x - b ELSE x)
  BY <1>1, <1>3, ResidueNear
<1>5. carry <=> x >= b
  BY <1>1, <1>2
<1>6. x % b = y
  BY <1>1, <1>2, <1>4, <1>5
<1> QED
  BY <1>5, <1>6 DEF y, b

LEMMA Borrowing ==
    ASSUME NEW r \in Nat \ {0}, NEW h \in 0 .. r - 1, NEW l \in 0 .. r - 1, NEW carry \in BOOLEAN,
           NEW x \in Int, x = (r * h + l) - (IF carry THEN r * r ELSE 0)
    PROVE  x % (r * r) = r * h + l /\ carry = (x < 0)
<1> DEFINE y == r * h + l
           b == r * r
           q == IF carry THEN -1 ELSE 0
<1>1. y \in 0 .. b - 1 /\ b \in Nat \ {0}
  <2>1. b \in Nat \ {0}
    BY SMT
  <2> QED
    BY <2>1, TwoDigits
<1> HIDE DEF y, b
<1>2. x = y - (IF carry THEN b ELSE 0)
  BY DEF y, b
<1>3. x = b * q + y /\ q \in Int
  BY <1>1, <1>2
<1> HIDE DEF q
<1>4. x % b = y
  BY <1>1, <1>3, DivisionUnique
<1>5. carry <=> x < 0
  BY <1>1, <1>2
<1> QED
  BY <1>4, <1>5 DEF y, b

LEMMA PackedSum ==
    ASSUME Machine, NEW h \in 0 .. ByteMod - 1,
           NEW d \in 0 .. ByteMod - 1, NEW s \in 0 .. ByteMod - 1, NEW c \in {0, 1},
           DigitsIn(d), DigitsIn(s),
           ax = Wide(h, d + (s + c)), flags.cf = Bit(d + (s + c), ByteMod),
           flags.af = HalfCarry(d + (s + c), s + c, d)
    PROVE  LET x == Adjusted(FALSE) % ByteMod
               plus == ValueOf(d) + ValueOf(s) + c
           IN  /\ DigitsIn(x) /\ ValueOf(x) = plus % (Radix * Radix)
               /\ CarryOut(FALSE) = (plus >= Radix * Radix)
<1> DEFINE n == Nibble
           r == Radix
           b == ByteMod
           dh == d \div n
           dl == d % n
           sh == s \div n
           sl == s % n
           t == s + c
           tl == sl + c
           v == dh + sh
           u == dl + tl
           x == d + t
           af == flags.af
           cf == flags.cf
<1>1. n \in Nat \ {0} /\ r \in 1 .. n /\ b = n * n /\ b \in Nat \ {0}
  BY AluAssumption, Widths DEF ByteMod
<1>2. /\ dh \in 0 .. r - 1 /\ dl \in 0 .. r - 1 /\ sh \in 0 .. r - 1 /\ sl \in 0 .. r - 1
      /\ d = n * dh + dl /\ s = n * sh + sl
  <2>1. /\ dh \in 0 .. n - 1 /\ dl \in 0 .. n - 1 /\ d = n * dh + dl
        /\ sh \in 0 .. n - 1 /\ sl \in 0 .. n - 1 /\ s = n * sh + sl
    BY NibblesOfByte
  <2>2. dh < r /\ dl < r /\ sh < r /\ sl < r
    BY DEF DigitsIn
  <2> HIDE DEF n, r, dh, dl, sh, sl
  <2> QED
    BY <1>1, <2>1, <2>2
<1>3. ax = Wide(h, x) /\ flags.cf = Bit(x, b) /\ flags.af = HalfCarry(x, t, d)
  OBVIOUS
<1>4. cf \in BOOLEAN /\ af \in BOOLEAN
  BY DEF Machine, FlagSet
<1>5. d \in Int /\ t \in Int /\ x \in Int /\ 0 <= x /\ x < 2 * b
  <2>1. d \in 0 .. b - 1 /\ s \in 0 .. b - 1
    OBVIOUS
  <2> HIDE DEF b
  <2> QED
    BY <1>1, <2>1
<1>6. h \in Int
  BY <1>1
<1>7. al = x % b
  <2> HIDE DEF x
  <2> QED
    BY <1>3, <1>5, <1>6, Parts
<1>8. cf <=> x >= b
  <2> HIDE DEF x
  <2>1. Bit(x, b) <=> x < 0 \/ x >= b
    <3>1. -b <= x
      <4> HIDE DEF b
      <4> QED
        BY <1>1, <1>5
    <3> QED
      BY <1>5, <3>1, CarryIs
  <2> HIDE DEF b
  <2> QED
    BY <1>1, <1>3, <1>5, <2>1
<1>9. /\ t = n * sh + tl /\ x = n * v + u
      /\ v \in 0 .. 2 * r - 2 /\ u \in 0 .. 2 * r - 1 /\ tl \in 0 .. r
  <2> HIDE DEF n, r, b, dh, dl, sh, sl
  <2>1. n * v = n * dh + n * sh /\ n * dh \in Int /\ n * sh \in Int
    BY <1>1, <1>2, SMT
  <2> DEFINE p == n * dh
             q == n * sh
             nv == n * v
  <2>2. d = p + dl /\ s = q + sl /\ nv = p + q /\ p \in Int /\ q \in Int
    BY <1>2, <2>1
  <2> HIDE DEF p, q, nv
  <2>3. t = q + tl /\ x = nv + u
    BY <1>1, <1>2, <2>2
  <2>4. v \in 0 .. 2 * r - 2 /\ u \in 0 .. 2 * r - 1 /\ tl \in 0 .. r
    BY <1>1, <1>2
  <2> QED
    BY <2>3, <2>4 DEF q, nv
<1> HIDE DEF n, r, b, dh, dl, sh, sl, t, v, tl
<1>10. r < n => (af <=> u >= n)
  <2> SUFFICES ASSUME r < n PROVE af <=> u >= n
    OBVIOUS
  <2>1. dh \in Int /\ sh \in Int /\ dl \in 0 .. n - 1 /\ tl \in 0 .. n - 1 /\ n = Nibble
    BY <1>1, <1>2, <1>9 DEF n
  <2>2. HalfCarry((n * dh + dl) + (n * sh + tl), n * sh + tl, n * dh + dl) <=> dl + tl >= n
    BY <1>1, <2>1, HalfCarryIs
  <2>3. HalfCarry(x, t, d) <=> u >= n
    BY <1>2, <1>9, <2>2, Zenon DEF x, u
  <2> QED
    BY <1>3, <2>3, Zenon
<1> HIDE DEF u, x
<1> DEFINE low == LowDigit
           data == Corrected(FALSE)
           over == Bit(data, b)
           carry == CarryOut(FALSE)
           total == Adjusted(FALSE)
<1>11. low <=> af \/ al % n >= r
  BY DEF LowDigit, n, r
<1>12. data = IF low THEN al + (n - r) ELSE al
  BY DEF Corrected, n, r
<1>13. data \in 0 .. 2 * (n * n) - 1 => (over <=> data >= n * n)
  <2> SUFFICES ASSUME data \in 0 .. 2 * b - 1 PROVE over <=> data >= b
    BY <1>1
  <2> HIDE DEF data
  <2>1. data \in Int /\ -b <= data /\ data < 2 * b /\ ~(data < 0)
    BY <1>1
  <2>2. Bit(data, b) <=> data < 0 \/ data >= b
    BY <2>1, CarryIs DEF b
  <2> QED
    BY <2>1, <2>2
<1>14. carry <=> \/ cf
                 \/ low /\ over
                 \/ data % (n * n) > r * n - 1
  <2>1. carry <=> \/ cf
                  \/ low /\ over
                  \/ data % b > r * n - 1
    BY Zenon DEF CarryOut, n, r, b
  <2> QED
    BY <1>1, <2>1, Zenon
<1>15. total = IF carry THEN data + n * (n - r) ELSE data
  BY DEF Adjusted, n, r
<1> HIDE DEF low, data, over, carry, total, af, cf
<1>16. al \in Int /\ al = (n * v + u) % (n * n) /\ (cf <=> n * v + u >= n * n)
  BY <1>1, <1>7, <1>8, <1>9, BytesOfAx
<1>17. SumDigits(n, r, v, u, total, carry)
  <2>1. v \in 0 .. 2 * r - 2 /\ u \in 0 .. 2 * r - 1
    BY <1>9
  <2> QED
    BY <1>1, <1>4, <1>10, <1>11, <1>12, <1>13, <1>14, <1>15, <1>16, <2>1, DigitsOfSum, Zenon
<1>18. PICK i \in 0 .. r - 1, j \in 0 .. r - 1 :
          /\ total % b = n * i + j
          /\ r * v + u = (r * i + j) + (IF carry THEN r * r ELSE 0)
  BY <1>1, <1>17 DEF SumDigits
<1> DEFINE plus == ValueOf(d) + ValueOf(s) + c
           y == total % b
<1>19. plus = r * v + u /\ plus \in Int
  <2>1. ValueOf(d) = dh * r + dl /\ ValueOf(s) = sh * r + sl
    BY DEF ValueOf, dh, dl, sh, sl, n, r
  <2>2. r * v = dh * r + sh * r /\ dh * r \in Int /\ sh * r \in Int
    BY <1>1, <1>2, SMT DEF v
  <2> DEFINE p == dh * r
             q == sh * r
             rv == r * v
  <2>3. plus = (p + dl) + (q + sl) + c /\ rv = p + q /\ p \in Int /\ q \in Int
    BY <2>1, <2>2
  <2> HIDE DEF p, q, rv, plus
  <2>4. plus = rv + u /\ plus \in Int
    BY <1>1, <1>2, <2>3 DEF u, tl
  <2> QED
    BY <2>4 DEF rv
<1> HIDE DEF plus
<1>20. carry \in BOOLEAN
  BY DEF carry, CarryOut
<1>21. plus % (r * r) = r * i + j /\ carry = (plus >= r * r)
  BY <1>1, <1>18, <1>19, <1>20, Overflowing
<1>22. y % n = j /\ y \div n = i
  <2>1. i \in 0 .. n - 1 /\ j \in 0 .. n - 1
    BY <1>1
  <2>2. (n * i + j) % n = j /\ (n * i + j) \div n = i
    BY <1>1, <2>1, TwoDigits
  <2> QED
    BY <1>18, <2>2, Zenon
<1> HIDE DEF y
<1>23. DigitsIn(y) /\ ValueOf(y) = plus % (r * r)
  <2>1. i < r /\ j < r /\ i * r = r * i
    BY <1>1
  <2>2. DigitsIn(y) /\ ValueOf(y) = i * r + j
    BY <1>22, <2>1 DEF DigitsIn, ValueOf, n, r
  <2> QED
    BY <1>21, <2>1, <2>2
<1> QED
  BY <1>21, <1>23 DEF y, plus, total, carry, r, b

LEMMA PackedDifference ==
    ASSUME Machine, NEW h \in 0 .. ByteMod - 1,
           NEW d \in 0 .. ByteMod - 1, NEW s \in 0 .. ByteMod - 1, NEW c \in {0, 1},
           DigitsIn(d), DigitsIn(s),
           ax = Wide(h, d - (s + c)), flags.cf = Bit(d - (s + c), ByteMod),
           flags.af = HalfCarry(d - (s + c), s + c, d)
    PROVE  LET x == Adjusted(TRUE) % ByteMod
               minus == ValueOf(d) - ValueOf(s) - c
           IN  /\ DigitsIn(x) /\ ValueOf(x) = minus % (Radix * Radix)
               /\ CarryOut(TRUE) = (minus < 0)
<1> DEFINE n == Nibble
           r == Radix
           b == ByteMod
           dh == d \div n
           dl == d % n
           sh == s \div n
           sl == s % n
           t == s + c
           tl == sl + c
           v == dh - sh
           u == dl - tl
           x == d - t
           af == flags.af
           cf == flags.cf
<1>1. n \in Nat \ {0} /\ r \in 1 .. n /\ b = n * n /\ b \in Nat \ {0}
  BY AluAssumption, Widths DEF ByteMod
<1>2. /\ dh \in 0 .. r - 1 /\ dl \in 0 .. r - 1 /\ sh \in 0 .. r - 1 /\ sl \in 0 .. r - 1
      /\ d = n * dh + dl /\ s = n * sh + sl
  <2>1. /\ dh \in 0 .. n - 1 /\ dl \in 0 .. n - 1 /\ d = n * dh + dl
        /\ sh \in 0 .. n - 1 /\ sl \in 0 .. n - 1 /\ s = n * sh + sl
    BY NibblesOfByte
  <2>2. dh < r /\ dl < r /\ sh < r /\ sl < r
    BY DEF DigitsIn
  <2> HIDE DEF n, r, dh, dl, sh, sl
  <2> QED
    BY <1>1, <2>1, <2>2
<1>3. ax = Wide(h, x) /\ flags.cf = Bit(x, b) /\ flags.af = HalfCarry(x, t, d)
  OBVIOUS
<1>4. cf \in BOOLEAN /\ af \in BOOLEAN
  BY DEF Machine, FlagSet
<1>5. d \in Int /\ t \in Int /\ x \in Int /\ -b <= x /\ x < b
  <2>1. d \in 0 .. b - 1 /\ s \in 0 .. b - 1
    OBVIOUS
  <2> HIDE DEF b
  <2> QED
    BY <1>1, <2>1
<1>6. h \in Int
  BY <1>1
<1>7. al = x % b
  <2> HIDE DEF x
  <2> QED
    BY <1>3, <1>5, <1>6, Parts
<1>8. cf <=> x < 0
  <2> HIDE DEF x
  <2>1. Bit(x, b) <=> x < 0 \/ x >= b
    <3>1. x < 2 * b
      <4> HIDE DEF b
      <4> QED
        BY <1>1, <1>5
    <3> QED
      BY <1>5, <3>1, CarryIs
  <2> HIDE DEF b
  <2> QED
    BY <1>1, <1>3, <1>5, <2>1
<1>9. /\ t = n * sh + tl /\ x = n * v + u
      /\ v \in 1 - r .. r - 1 /\ u \in -r .. r - 1 /\ tl \in 0 .. r
  <2> HIDE DEF n, r, b, dh, dl, sh, sl
  <2>1. n * v = n * dh - n * sh /\ n * dh \in Int /\ n * sh \in Int
    BY <1>1, <1>2, SMT
  <2> DEFINE p == n * dh
             q == n * sh
             nv == n * v
  <2>2. d = p + dl /\ s = q + sl /\ nv = p - q /\ p \in Int /\ q \in Int
    BY <1>2, <2>1
  <2> HIDE DEF p, q, nv
  <2>3. t = q + tl /\ x = nv + u
    BY <1>1, <1>2, <2>2
  <2>4. v \in 1 - r .. r - 1 /\ u \in -r .. r - 1 /\ tl \in 0 .. r
    BY <1>1, <1>2
  <2> QED
    BY <2>3, <2>4 DEF q, nv
<1>10. u < 0 <=> dl < tl
  <2> HIDE DEF n, r, b, dh, dl, tl
  <2> QED
    BY <1>1, <1>2, <1>9
<1> HIDE DEF n, r, b, dh, dl, sh, sl, t, v, tl
<1>11. r < n => (af <=> u < 0)
  <2> SUFFICES ASSUME r < n PROVE af <=> u < 0
    OBVIOUS
  <2>1. dh \in Int /\ sh \in Int /\ dl \in 0 .. n - 1 /\ tl \in 0 .. n - 1 /\ n = Nibble
    BY <1>1, <1>2, <1>9 DEF n
  <2>2. HalfCarry((n * dh + dl) - (n * sh + tl), n * sh + tl, n * dh + dl) <=> dl < tl
    BY <1>1, <2>1, HalfCarryIs
  <2>3. HalfCarry(x, t, d) <=> dl < tl
    BY <1>2, <1>9, <2>2, Zenon DEF x
  <2> QED
    BY <1>3, <1>10, <2>3, Zenon
<1> HIDE DEF u, x
<1> DEFINE yes == TRUE
<1>12. yes
  OBVIOUS
<1> HIDE DEF yes
<1> DEFINE low == LowDigit
           data == Corrected(yes)
           over == Bit(data, b)
           carry == CarryOut(yes)
           total == Adjusted(yes)
<1>13. low <=> af \/ al % n >= r
  BY DEF LowDigit, n, r
<1>14. data = IF low THEN al - (n - r) ELSE al
  BY <1>12 DEF Corrected, n, r
<1>15. data \in 0 .. 2 * (n * n) - 1 => (over <=> data >= n * n)
  <2> SUFFICES ASSUME data \in 0 .. 2 * b - 1 PROVE over <=> data >= b
    BY <1>1
  <2> HIDE DEF data
  <2>1. data \in Int /\ -b <= data /\ data < 2 * b /\ ~(data < 0)
    BY <1>1
  <2>2. Bit(data, b) <=> data < 0 \/ data >= b
    BY <2>1, CarryIs DEF b
  <2> QED
    BY <2>1, <2>2
<1>16. carry <=> \/ cf
                 \/ low /\ over
                 \/ data % (n * n) > r * n - 1
  <2>1. carry <=> \/ cf
                  \/ low /\ over
                  \/ data % b > r * n - 1
    BY Zenon DEF CarryOut, n, r, b
  <2> QED
    BY <1>1, <2>1, Zenon
<1>17. total = IF carry THEN data - n * (n - r) ELSE data
  BY <1>12 DEF Adjusted, n, r
<1>18. carry \in BOOLEAN
  BY DEF carry, CarryOut
<1> HIDE DEF low, data, over, carry, total, af, cf
<1>19. al \in Int /\ al = (n * v + u) % (n * n) /\ (cf <=> n * v + u < 0)
  BY <1>1, <1>7, <1>8, <1>9, BytesOfAx
<1>20. DifferenceDigits(n, r, v, u, total, carry)
  <2>1. v \in 1 - r .. r - 1 /\ u \in -r .. r - 1
    BY <1>9
  <2> QED
    BY <1>1, <1>4, <1>11, <1>13, <1>14, <1>15, <1>16, <1>17, <1>19, <2>1,
       DigitsOfDifference, Zenon
<1>21. PICK i \in 0 .. r - 1, j \in 0 .. r - 1 :
          /\ total % b = n * i + j
          /\ r * v + u = (r * i + j) - (IF carry THEN r * r ELSE 0)
  BY <1>1, <1>20 DEF DifferenceDigits
<1> DEFINE minus == ValueOf(d) - ValueOf(s) - c
           y == total % b
<1>22. minus = r * v + u /\ minus \in Int
  <2>1. ValueOf(d) = dh * r + dl /\ ValueOf(s) = sh * r + sl
    BY DEF ValueOf, dh, dl, sh, sl, n, r
  <2>2. r * v = dh * r - sh * r /\ dh * r \in Int /\ sh * r \in Int
    BY <1>1, <1>2, SMT DEF v
  <2> DEFINE p == dh * r
             q == sh * r
             rv == r * v
  <2>3. minus = (p + dl) - (q + sl) - c /\ rv = p - q /\ p \in Int /\ q \in Int
    BY <2>1, <2>2
  <2> HIDE DEF p, q, rv, minus
  <2>4. minus = rv + u /\ minus \in Int
    BY <1>1, <1>2, <2>3 DEF u, tl
  <2> QED
    BY <2>4 DEF rv
<1> HIDE DEF minus
<1>23. minus % (r * r) = r * i + j /\ carry = (minus < 0)
  BY <1>1, <1>18, <1>21, <1>22, Borrowing
<1>24. y % n = j /\ y \div n = i
  <2>1. i \in 0 .. n - 1 /\ j \in 0 .. n - 1
    BY <1>1
  <2>2. (n * i + j) % n = j /\ (n * i + j) \div n = i
    BY <1>1, <2>1, TwoDigits
  <2> QED
    BY <1>21, <2>2, Zenon
<1> HIDE DEF y
<1>25. DigitsIn(y) /\ ValueOf(y) = minus % (r * r)
  <2>1. i < r /\ j < r /\ i * r = r * i
    BY <1>1
  <2>2. DigitsIn(y) /\ ValueOf(y) = i * r + j
    BY <1>24, <2>1 DEF DigitsIn, ValueOf, n, r
  <2> QED
    BY <1>23, <2>1, <2>2
<1> QED
  BY <1>23, <1>25, Zenon DEF y, minus, total, carry, r, b, yes

-----------------------------------------------------------------------------
(* Unpacked digits.                                                         *)

\* A byte pair made of any numbers, taken apart.
LEMMA HalvesOfWide ==
    ASSUME NEW h \in Int, NEW l \in Int
    PROVE  /\ Wide(h, l) % ByteMod = l % ByteMod /\ Wide(h, l) \div ByteMod = h % ByteMod
           /\ l \in 0 .. ByteMod - 1 => l % ByteMod = l
           /\ h \in 0 .. ByteMod - 1 => h % ByteMod = h
<1>1. ByteMod \in Nat \ {0}
  BY Widths
<1> QED
  BY <1>1, WideIs, SmallResidue

\* A number at most one turn away.
LEMMA TurnIs ==
    ASSUME NEW w \in Nat, w # 0, NEW x \in Int, -w <= x, x < 2 * w
    PROVE  /\ x % w = (IF x < 0 THEN x + w ELSE IF x >= w THEN x - w ELSE x)
           /\ x \div w = (IF x < 0 THEN -1 ELSE IF x >= w THEN 1 ELSE 0)
<1> DEFINE q == IF x < 0 THEN -1 ELSE IF x >= w THEN 1 ELSE 0
           y == IF x < 0 THEN x + w ELSE IF x >= w THEN x - w ELSE x
<1>1. w \in Nat \ {0} /\ q \in Int /\ y \in 0 .. w - 1 /\ x = w * q + y
  OBVIOUS
<1> HIDE DEF q, y
<1>2. x \div w = q /\ x % w = y
  BY <1>1, DivisionUnique
<1> QED
  BY <1>2 DEF q, y

\* AF after a sum or a difference of digits.
LEMMA DigitCarry ==
    ASSUME NEW d \in 0 .. Nibble - 1, NEW s \in 0 .. Nibble - 1
    PROVE  /\ HalfCarry(d + s, s, d) <=> d + s >= Nibble
           /\ HalfCarry(d - s, s, d) <=> d < s
<1> DEFINE n == Nibble
           z == 0
<1>1. n \in Nat \ {0} /\ z \in Int /\ n = Nibble
  BY AluAssumption
<1>2. d \in 0 .. n - 1 /\ s \in 0 .. n - 1
  OBVIOUS
<1>3. n * z + d = d /\ n * z + s = s
  BY <1>1
<1> HIDE DEF n, z
<1>4. /\ HalfCarry((n * z + d) + (n * z + s), n * z + s, n * z + d) <=> d + s >= n
      /\ HalfCarry((n * z + d) - (n * z + s), n * z + s, n * z + d) <=> d < s
  BY <1>1, <1>2, HalfCarryIs, Zenon
<1>5. /\ HalfCarry(d + s, s, d) <=> d + s >= n
      /\ HalfCarry(d - s, s, d) <=> d < s
  BY <1>3, <1>4, Zenon
<1> QED
  BY <1>5 DEF n

\* AAA after ADD.
LEMMA UnpackedSum ==
    ASSUME Machine, NEW h \in 0 .. ByteMod - 1,
           NEW d \in 0 .. Radix - 1, NEW s \in 0 .. Radix - 1,
           ax = Wide(h, d + s), flags.af = HalfCarry(d + s, s, d)
    PROVE  LET y == Wide(IF LowDigit THEN ah + 1 ELSE ah, Corrected(FALSE) % Nibble)
           IN  /\ y % ByteMod = (d + s) % Radix
               /\ y \div ByteMod = (h + ((d + s) \div Radix)) % ByteMod
<1> DEFINE n == Nibble
           r == Radix
           b == ByteMod
           x == d + s
           low == LowDigit
           data == Corrected(FALSE)
<1>1. n \in Nat \ {0, 1} /\ r \in 1 .. n /\ b = n * n /\ b \in Nat \ {0} /\ b >= 2 * n
  <2>1. n \in Nat \ {0, 1} /\ r \in 1 .. n /\ b = n * n /\ b \in Nat \ {0}
    BY AluAssumption, Widths DEF ByteMod
  <2>2. n * n >= 2 * n
    BY <2>1, SMT
  <2> QED
    BY <2>1, <2>2
<1>2. d \in 0 .. r - 1 /\ s \in 0 .. r - 1 /\ h \in 0 .. b - 1
  OBVIOUS
<1> HIDE DEF n, r, b
<1>3. x \in 0 .. 2 * r - 2 /\ x \in 0 .. b - 1 /\ x \in Int /\ h \in Int
  BY <1>1, <1>2
<1>4. al = x /\ ah = h
  <2> HIDE DEF x
  <2>1. al = x % b /\ ah = h % b
    BY <1>3, Parts DEF b, x
  <2> QED
    BY <1>1, <1>2, <1>3, <2>1, SmallResidue
<1>5. flags.af <=> x >= n
  <2>1. d \in 0 .. n - 1 /\ s \in 0 .. n - 1
    BY <1>1, <1>2
  <2>2. HalfCarry(d + s, s, d) <=> d + s >= n
    BY <2>1, DigitCarry DEF n
  <2>3. flags.af = HalfCarry(d + s, s, d)
    OBVIOUS
  <2> QED
    BY <2>2, <2>3, Zenon DEF x
<1>6. x % n = IF x >= n THEN x - n ELSE x
  <2> HIDE DEF x
  <2>1. n \in Nat /\ n # 0 /\ -n <= x /\ x < 2 * n /\ ~(x < 0)
    BY <1>1, <1>3
  <2> QED
    BY <1>3, <2>1, TurnIs
<1>7. x % r = (IF x >= r THEN x - r ELSE x) /\ x \div r = (IF x >= r THEN 1 ELSE 0)
  <2> HIDE DEF x
  <2>1. r \in Nat /\ r # 0 /\ -r <= x /\ x < 2 * r /\ ~(x < 0)
    BY <1>1, <1>3
  <2> QED
    BY <1>3, <2>1, TurnIs
<1>8. low <=> x >= r
  <2>1. low <=> flags.af \/ al % n >= r
    BY DEF LowDigit, n, r
  <2> HIDE DEF x
  <2> QED
    BY <1>1, <1>3, <1>4, <1>5, <1>6, <2>1
<1>9. data = IF low THEN x + (n - r) ELSE x
  BY <1>4 DEF Corrected, n, r
<1>10. data % n = x % r
  <2> HIDE DEF x, data, low
  <2>1. n \in Nat /\ n # 0 /\ -n <= data /\ data < 2 * n /\ ~(data < 0) /\ data \in Int
    BY <1>1, <1>3, <1>8, <1>9
  <2>2. data % n = IF data >= n THEN data - n ELSE data
    BY <2>1, TurnIs
  <2> QED
    BY <1>1, <1>3, <1>7, <1>8, <1>9, <2>2
<1>11. x % r \in 0 .. b - 1
  <2> HIDE DEF x
  <2> QED
    BY <1>1, <1>3, <1>7
<1> DEFINE high == IF low THEN ah + 1 ELSE ah
           y == Wide(high, data % n)
<1>12. high = h + (x \div r) /\ high \in Int
  <2> HIDE DEF x, low
  <2> QED
    BY <1>3, <1>4, <1>7, <1>8
<1> HIDE DEF high, low, data, x
<1>13. y % b = x % r /\ y \div b = high % b
  BY <1>1, <1>10, <1>11, <1>12, HalvesOfWide DEF b
<1> QED
  BY <1>12, <1>13, Zenon DEF y, high, low, data, x, b, r, n

\* AAS after SUB.
LEMMA UnpackedDifference ==
    ASSUME Machine, NEW h \in 0 .. ByteMod - 1,
           NEW d \in 0 .. Radix - 1, NEW s \in 0 .. Radix - 1,
           ax = Wide(h, d - s), flags.af = HalfCarry(d - s, s, d)
    PROVE  LET y == Wide(IF LowDigit THEN ah - 1 ELSE ah, Corrected(TRUE) % Nibble)
           IN  /\ y % ByteMod = (d - s) % Radix
               /\ y \div ByteMod = (h + ((d - s) \div Radix)) % ByteMod
<1> DEFINE n == Nibble
           r == Radix
           b == ByteMod
           x == d - s
           low == LowDigit
           data == Corrected(TRUE)
           nn == n * (n - 1)
<1>1. /\ n \in Nat \ {0, 1} /\ r \in 1 .. n /\ b = n * n /\ b \in Nat \ {0} /\ b >= 2 * n
      /\ nn = b - n
  <2>1. n \in Nat \ {0, 1} /\ r \in 1 .. n /\ b = n * n /\ b \in Nat \ {0}
    BY AluAssumption, Widths DEF ByteMod
  <2>2. n * n >= 2 * n /\ n * (n - 1) = n * n - n
    BY <2>1, SMT
  <2> QED
    BY <2>1, <2>2
<1>2. d \in 0 .. r - 1 /\ s \in 0 .. r - 1 /\ h \in 0 .. b - 1
  OBVIOUS
<1> HIDE DEF n, r, b
<1>3. x \in -r .. r - 1 /\ x \in Int /\ h \in Int
  BY <1>1, <1>2
<1>4. al = (IF x < 0 THEN b + x ELSE x) /\ ah = h
  <2> HIDE DEF x
  <2>1. al = x % b /\ ah = h % b
    BY <1>3, Parts DEF b, x
  <2>2. h % b = h
    BY <1>1, <1>2, SmallResidue
  <2>3. b \in Nat /\ b # 0 /\ -b <= x /\ x < 2 * b /\ ~(x >= b)
    BY <1>1, <1>3
  <2>4. x % b = (IF x < 0 THEN x + b ELSE x)
    BY <1>3, <2>3, TurnIs
  <2> QED
    BY <1>1, <1>3, <2>1, <2>2, <2>4
<1>5. flags.af <=> x < 0
  <2>1. d \in 0 .. n - 1 /\ s \in 0 .. n - 1
    BY <1>1, <1>2
  <2>2. HalfCarry(d - s, s, d) <=> d < s
    BY <2>1, DigitCarry DEF n
  <2>3. flags.af = HalfCarry(d - s, s, d)
    OBVIOUS
  <2>4. x < 0 <=> d < s
    BY <1>1, <1>2
  <2> QED
    BY <2>2, <2>3, <2>4, Zenon
<1>6. x >= 0 => al % n = x
  <2> HIDE DEF x
  <2> QED
    BY <1>1, <1>3, <1>4, SmallResidue
<1>7. x % r = (IF x < 0 THEN x + r ELSE x) /\ x \div r = (IF x < 0 THEN -1 ELSE 0)
  <2> HIDE DEF x
  <2>1. r \in Nat /\ r # 0 /\ -r <= x /\ x < 2 * r /\ ~(x >= r)
    BY <1>1, <1>3
  <2> QED
    BY <1>3, <2>1, TurnIs
<1>8. low <=> x < 0
  <2>1. low <=> flags.af \/ al % n >= r
    BY DEF LowDigit, n, r
  <2> HIDE DEF x, low
  <2> QED
    BY <1>1, <1>3, <1>5, <1>6, <2>1
<1>9. data = IF low THEN al - (n - r) ELSE al
  BY DEF Corrected, n, r
<1>10. data % n = x % r
  <2> HIDE DEF x, data, low, nn
  <2>1. CASE x < 0
    <3>1. data = nn + (x + r) /\ x + r \in 0 .. n - 1 /\ data \in Int /\ n - 1 \in Int
      BY <1>1, <1>3, <1>4, <1>8, <1>9, <2>1
    <3>2. data = n * (n - 1) + (x + r)
      BY <3>1 DEF nn
    <3> DEFINE q == n - 1
               y == x + r
    <3>3. data % n = y
      <4>1. data = n * q + y /\ q \in Int /\ y \in 0 .. n - 1 /\ data \in Int /\ n \in Nat \ {0}
        BY <1>1, <3>1, <3>2
      <4> HIDE DEF q, y
      <4> QED
        BY <4>1, DivisionUnique
    <3> QED
      BY <1>7, <2>1, <3>3
  <2>2. CASE x >= 0
    <3>1. data = x /\ x \in 0 .. n - 1 /\ ~(x < 0)
      BY <1>1, <1>3, <1>4, <1>8, <1>9, <2>2
    <3> QED
      BY <1>1, <1>7, <3>1, SmallResidue
  <2> QED
    BY <1>3, <2>1, <2>2
<1>11. x % r \in 0 .. b - 1
  <2> HIDE DEF x
  <2> QED
    BY <1>1, <1>3, <1>7
<1> DEFINE high == IF low THEN ah - 1 ELSE ah
           y == Wide(high, data % n)
<1>12. high = h + (x \div r) /\ high \in Int
  <2> HIDE DEF x, low
  <2> QED
    BY <1>3, <1>4, <1>7, <1>8
<1> HIDE DEF high, low, data, x
<1>13. y % b = x % r /\ y \div b = high % b
  BY <1>1, <1>10, <1>11, <1>12, HalvesOfWide DEF b
<1> QED
  BY <1>12, <1>13, Zenon DEF y, high, low, data, x, b, r, n

-----------------------------------------------------------------------------
(* Programs that add, subtract, multiply and divide by digits.              *)

\* What the first instruction of a decimal program leaves.
DigitsAdded(t) ==
    LET h == High(start.ax)
        l == Low(start.ax)
    IN  /\ ax = Wide(h, l + t) /\ flags.cf = Bit(l + t, ByteMod)
        /\ flags.af = HalfCarry(l + t, t, l)
DigitsSubtracted(t) ==
    LET h == High(start.ax)
        l == Low(start.ax)
    IN  /\ ax = Wide(h, l - t) /\ flags.cf = Bit(l - t, ByteMod)
        /\ flags.af = HalfCarry(l - t, t, l)

FirstDecimal ==
    /\ Ran(<<"add">>, <<"al">>) => DigitsAdded(Src(1))
    /\ Ran(<<"sub">>, <<"al">>) => DigitsSubtracted(Src(1))
    /\ Ran(<<"adc">>, <<"al">>) => DigitsAdded(Src(1) + CarryIn)
    /\ Ran(<<"sbb">>, <<"al">>) => DigitsSubtracted(Src(1) + CarryIn)
    /\ Ran(<<"aad">>, <<"al">>) => ax = Wide(0, Low(start.ax) + High(start.ax) * Src(1))

LEMMA AluOnAl ==
    ASSUME Begun, Machine, [Next]_vars, ~Stays, code[pc + 1].reg = "al"
    PROVE  LET c == code[pc + 1]
               s == c.src
               t == s + Carry(flags)
               Sum(x) == /\ ax' = Wide(ah, al + x) /\ flags'.cf = Bit(al + x, ByteMod)
                         /\ flags'.af = HalfCarry(al + x, x, al)
               Difference(x) ==
                         /\ ax' = Wide(ah, al - x) /\ flags'.cf = Bit(al - x, ByteMod)
                         /\ flags'.af = HalfCarry(al - x, x, al)
           IN  /\ (c.op = "add" => Sum(s)) /\ (c.op = "adc" => Sum(t))
               /\ (c.op = "sub" => Difference(s)) /\ (c.op = "sbb" => Difference(t))
<1> DEFINE c == code[pc + 1]
           s == c.src
           t == s + Carry(flags)
           no == FALSE
<1>1. Moves /\ Inst = c
  BY StepIs DEF Inst
<1>2. c.reg = "al" /\ WordSize = no /\ Get("al") = al /\ Mod(no) = ByteMod
  BY <1>1 DEF WordSize, WordRegs, Get, Register, al, Mod
<1>3. flags \in FlagSet
  BY DEF Machine
<1> HIDE DEF no
<1>4. \A x : /\ Add(flags, al, x, no).data = al + x
             /\ Add(flags, al, x, no).flags.cf = Bit(al + x, ByteMod)
             /\ Add(flags, al, x, no).flags.af = HalfCarry(al + x, x, al)
             /\ Sub(flags, al, x, no).data = al - x
             /\ Sub(flags, al, x, no).flags.cf = Bit(al - x, ByteMod)
             /\ Sub(flags, al, x, no).flags.af = HalfCarry(al - x, x, al)
  BY <1>2, <1>3, SumIs, DifferenceIs
<1>5. \A r : SetReg(r) => ax' = Wide(ah, r.data) /\ flags' = r.flags
  BY <1>1, <1>2 DEF SetReg, Leaves
<1>6. ASSUME c.op \in {"add", "adc", "sub", "sbb"}
      PROVE  SetReg(ALUOperation(c.op, flags, al, s, no))
  <2>1. c.op \in AluOps /\ c.op # "cmp"
    BY <1>6 DEF AluOps
  <2>2. AluStep
    BY <2>1, StepIs
  <2> QED
    BY <1>1, <1>2, <2>1, <2>2, Zenon DEF AluStep
<1>7. /\ ALUOperation("add", flags, al, s, no) = Add(flags, al, s, no)
      /\ ALUOperation("adc", flags, al, s, no) = Add(flags, al, t, no)
      /\ ALUOperation("sub", flags, al, s, no) = Sub(flags, al, s, no)
      /\ ALUOperation("sbb", flags, al, s, no) = Sub(flags, al, t, no)
  BY DEF ALUOperation
<1> HIDE DEF c, s, t
<1>8. \A x : SetReg(Add(flags, al, x, no)) =>
               /\ ax' = Wide(ah, al + x) /\ flags'.cf = Bit(al + x, ByteMod)
               /\ flags'.af = HalfCarry(al + x, x, al)
  BY <1>4, <1>5, Zenon
<1>9. \A x : SetReg(Sub(flags, al, x, no)) =>
               /\ ax' = Wide(ah, al - x) /\ flags'.cf = Bit(al - x, ByteMod)
               /\ flags'.af = HalfCarry(al - x, x, al)
  BY <1>4, <1>5, Zenon
<1>10. /\ c.op = "add" => SetReg(Add(flags, al, s, no))
       /\ c.op = "adc" => SetReg(Add(flags, al, t, no))
       /\ c.op = "sub" => SetReg(Sub(flags, al, s, no))
       /\ c.op = "sbb" => SetReg(Sub(flags, al, t, no))
  BY <1>6, <1>7
<1> QED
  BY <1>8, <1>9, <1>10, Zenon DEF c, s, t

LEMMA FirstDecimalStep == Begun /\ Machine /\ FirstDecimal /\ [Next]_vars => FirstDecimal'
<1> SUFFICES ASSUME Begun, Machine, FirstDecimal, [Next]_vars PROVE FirstDecimal'
  OBVIOUS
<1>1. CASE Stays
  BY <1>1 DEF Stays, FirstDecimal, Ran, Src, CarryIn, DigitsAdded, DigitsSubtracted
<1>2. CASE ~Stays
  <2> DEFINE h == High(start.ax)
             l == Low(start.ax)
             c == code[pc + 1]
             s == Src(1)
             Sum(x) == /\ ax' = Wide(h, l + x) /\ flags'.cf = Bit(l + x, ByteMod)
                       /\ flags'.af = HalfCarry(l + x, x, l)
             Difference(x) ==
                       /\ ax' = Wide(h, l - x) /\ flags'.cf = Bit(l - x, ByteMod)
                       /\ flags'.af = HalfCarry(l - x, x, l)
  <2>1. start' = start /\ code' = code
    BY <1>2, StepIs DEF Moves
  <2>2. pc = 0 => al = l /\ ah = h /\ c.src = s /\ flags.cf = start.cf /\ c = code[1]
    BY DEF Begun, FirstFlags, al, ah, Low, High, Src
  <2>3. ASSUME NEW op, Ran(<<op>>, <<"al">>)'
        PROVE  pc = 0 /\ c.op = op /\ c.reg = "al"
    BY <1>2, <2>3, RanStep
  <2>4. ASSUME pc = 0, c.reg = "al"
        PROVE  /\ c.op = "add" => Sum(s)
               /\ c.op = "sub" => Difference(s)
               /\ c.op = "adc" => Sum(s + Carry(flags))
               /\ c.op = "sbb" => Difference(s + Carry(flags))
    BY <1>2, <2>2, <2>4, AluOnAl
  <2>5. pc = 0 /\ c.op \in {"adc", "sbb"} => Carry(flags) = CarryIn
    BY <2>2 DEF Carry, CarryIn
  <2>6. CarryIn' = CarryIn /\ Src(1)' = s
    BY <2>1 DEF CarryIn, Src
  <2>7. Ran(<<"aad">>, <<"al">>)' => ax' = Wide(0, l + h * s)
    <3> SUFFICES ASSUME Ran(<<"aad">>, <<"al">>)' PROVE ax' = Wide(0, l + h * s)
      OBVIOUS
    <3>1. pc = 0 /\ c.op = "aad" /\ Inst = c
      BY <2>3 DEF Inst
    <3>2. Aad
      BY <1>2, <3>1, StepIs
    <3> QED
      BY <2>2, <3>1, <3>2 DEF Aad, Leaves
  <2> HIDE DEF c, s
  <2>8. /\ Ran(<<"add">>, <<"al">>)' => Sum(s)
        /\ Ran(<<"sub">>, <<"al">>)' => Difference(s)
        /\ Ran(<<"adc">>, <<"al">>)' => Sum(s + CarryIn)
        /\ Ran(<<"sbb">>, <<"al">>)' => Difference(s + CarryIn)
    <3> HIDE DEF Sum, Difference
    <3> QED
      BY <2>3, <2>4, <2>5
  <2> QED
    BY <2>1, <2>6, <2>7, <2>8 DEF FirstDecimal, DigitsAdded, DigitsSubtracted
<1> QED
  BY <1>1, <1>2

LEMMA FirstDecimalInvariance == Spec => []FirstDecimal
<1>1. Init => FirstDecimal
  BY DEF Init, FirstDecimal, Ran
<1> QED
  BY <1>1, FirstDecimalStep, BegunInvariance, MachineInvariance, PTL DEF Spec

\* An adjustment that a program makes.
LEMMA Adjusting ==
    ASSUME Begun, Machine, [Next]_vars, ~Stays
    PROVE  LET op == code[pc + 1].op
           IN  /\ op = "daa" => ax' = Wide(ah, Adjusted(FALSE)) /\ flags'.cf = CarryOut(FALSE)
               /\ op = "das" => ax' = Wide(ah, Adjusted(TRUE)) /\ flags'.cf = CarryOut(TRUE)
               /\ op = "aaa" => ax' = Wide(IF LowDigit THEN ah + 1 ELSE ah, Corrected(FALSE) % Nibble)
               /\ op = "aas" => ax' = Wide(IF LowDigit THEN ah - 1 ELSE ah, Corrected(TRUE) % Nibble)
<1> DEFINE op == code[pc + 1].op
           down == op \in {"das", "aas"}
           e == Adjust(flags, down)
           f == AsciiAdjust(flags, down)
<1>1. Inst.op = op
  BY DEF Inst
<1>2. op \in {"daa", "das", "aaa", "aas"} => DecimalStep
  BY StepIs
<1>3. op \in {"daa", "das"} => ax' = e.data /\ flags' = e.flags
  BY <1>1, <1>2 DEF DecimalStep, Leaves
<1>4. op \in {"aaa", "aas"} => ax' = f.data
  BY <1>1, <1>2 DEF DecimalStep, Leaves
<1>5. /\ e.data = Wide(ah, Adjusted(down)) /\ e.flags.cf = CarryOut(down)
      /\ f.data = Wide(IF LowDigit THEN (IF down THEN ah - 1 ELSE ah + 1) ELSE ah,
                       Corrected(down) % Nibble)
  <2>1. down \in BOOLEAN
    OBVIOUS
  <2> HIDE DEF down
  <2> QED
    BY <2>1, AdjustIs, AsciiAdjustIs
<1> HIDE DEF e, f
<1>6. CASE op = "daa"
  <2>1. down = FALSE
    BY <1>6
  <2> HIDE DEF down
  <2>2. ax' = Wide(ah, Adjusted(FALSE)) /\ flags'.cf = CarryOut(FALSE)
    BY <1>3, <1>5, <1>6, <2>1
  <2> QED
    BY <1>6, <2>2
<1>7. CASE op = "das"
  <2>1. down = TRUE
    BY <1>7
  <2> HIDE DEF down
  <2>2. ax' = Wide(ah, Adjusted(TRUE)) /\ flags'.cf = CarryOut(TRUE)
    BY <1>3, <1>5, <1>7, <2>1
  <2> QED
    BY <1>7, <2>2
<1>8. CASE op = "aaa"
  <2>1. down = FALSE
    BY <1>8
  <2> HIDE DEF down
  <2>2. ax' = Wide(IF LowDigit THEN ah + 1 ELSE ah, Corrected(FALSE) % Nibble)
    BY <1>4, <1>5, <1>8, <2>1
  <2> QED
    BY <1>8, <2>2
<1>9. CASE op = "aas"
  <2>1. down = TRUE
    BY <1>9
  <2> HIDE DEF down
  <2>2. ax' = Wide(IF LowDigit THEN ah - 1 ELSE ah, Corrected(TRUE) % Nibble)
    BY <1>4, <1>5, <1>9, <2>1
  <2> QED
    BY <1>9, <2>2
<1> QED
  BY <1>6, <1>7, <1>8, <1>9

\* The operands of a decimal program.
LEMMA Operands ==
    ASSUME Begun, pc > 0, code[1].reg = "al"
    PROVE  LET b == ByteMod
           IN  /\ Low(start.ax) \in 0 .. b - 1 /\ High(start.ax) \in 0 .. b - 1
               /\ Src(1) \in 0 .. b - 1 /\ CarryIn \in {0, 1}
               /\ 1 \in 1 .. Len(code)
<1>1. 1 \in 1 .. Len(code)
  BY CodeType DEF Begun
<1>2. Src(1) \in 0 .. ByteMod - 1
  BY <1>1, SrcIs DEF Src
<1>3. Low(start.ax) \in 0 .. ByteMod - 1 /\ High(start.ax) \in 0 .. ByteMod - 1
  BY StartBytes
<1>4. CarryIn \in {0, 1}
  BY DEF CarryIn
<1> QED
  BY <1>1, <1>2, <1>3, <1>4

\* DAA and DAS.
LEMMA PackedStep ==
    ASSUME Begun, Machine, FirstDecimal, [Next]_vars, ~Stays,
           DigitsIn(Low(start.ax)), DigitsIn(Src(1))
    PROVE  LET d == ValueOf(Low(start.ax))
               s == ValueOf(Src(1))
               hundred == Radix * Radix
           IN
           /\ Ran(<<"add", "daa">>, <<"al", "al">>)' \/ Ran(<<"adc", "daa">>, <<"al", "al">>)' =>
                /\ DigitsIn(al') /\ ValueOf(al') = (d + s + CarryIn) % hundred
                /\ flags'.cf = (d + s + CarryIn >= hundred)
           /\ Ran(<<"sub", "das">>, <<"al", "al">>)' \/ Ran(<<"sbb", "das">>, <<"al", "al">>)' =>
                /\ DigitsIn(al') /\ ValueOf(al') = (d - s - CarryIn) % hundred
                /\ flags'.cf = (d - s - CarryIn < 0)
<1> DEFINE h == High(start.ax)
           l == Low(start.ax)
           s == Src(1)
           c == CarryIn
           op == code[pc + 1].op
           AlIs(a) == al' = a % ByteMod
<1>1. ASSUME NEW x, NEW y, NEW z \in {"daa", "das", "aaa", "aas"}, Ran(<<x, z>>, <<"al", "al">>)'
      PROVE  /\ Ran(<<x>>, <<"al">>) /\ op = z /\ pc > 0 /\ code[1].op = x /\ code[1].reg = "al"
  BY <1>1, RanStep DEF Ran
<1>2. ah \in Int
  BY BytesOfAx
<1>3. \A down \in BOOLEAN : Adjusted(down) \in Int
  <2> SUFFICES ASSUME NEW down \in BOOLEAN PROVE Adjusted(down) \in Int
    OBVIOUS
  <2>1. Corrected(down) \in Int
    BY CorrectedIs
  <2>2. Nibble * (Nibble - Radix) \in Int
    BY BytesOfAx, SMT
  <2> QED
    BY <2>1, <2>2 DEF Adjusted
<1>4. /\ ax' = Wide(ah, Adjusted(FALSE)) => AlIs(Adjusted(FALSE))
      /\ ax' = Wide(ah, Adjusted(TRUE)) => AlIs(Adjusted(TRUE))
  <2>1. Adjusted(FALSE) \in Int /\ Adjusted(TRUE) \in Int
    BY <1>3
  <2>2. \A x \in Int : ax' = Wide(ah, x) => AlIs(x)
    BY <1>2, WideIs DEF al
  <2> QED
    BY <2>1, <2>2, Zenon
<1>5. ASSUME NEW op1 \in {"add", "adc"}, Ran(<<op1, "daa">>, <<"al", "al">>)'
      PROVE  LET n == ValueOf(l) + ValueOf(s) + c
             IN  /\ DigitsIn(al') /\ ValueOf(al') = n % (Radix * Radix)
                 /\ flags'.cf = (n >= Radix * Radix)
  <2>1. Ran(<<op1>>, <<"al">>) /\ op = "daa" /\ pc > 0 /\ code[1].op = op1 /\ code[1].reg = "al"
    BY <1>1, <1>5
  <2>2. /\ l \in 0 .. ByteMod - 1 /\ h \in 0 .. ByteMod - 1 /\ s \in 0 .. ByteMod - 1
        /\ c \in {0, 1}
    BY <2>1, Operands
  <2>3. DigitsAdded(s + c)
    <3>1. CASE op1 = "add"
      <4>1. c = 0
        BY <2>1, <3>1 DEF CarryIn
      <4>2. s + c = s
        BY <2>2, <4>1
      <4> HIDE DEF s, c
      <4> QED
        BY <2>1, <3>1, <4>2 DEF FirstDecimal, s
    <3>2. CASE op1 = "adc"
      BY <2>1, <3>2 DEF FirstDecimal
    <3> QED
      BY <3>1, <3>2
  <2>4. /\ ax = Wide(h, l + (s + c)) /\ flags.cf = Bit(l + (s + c), ByteMod)
        /\ flags.af = HalfCarry(l + (s + c), s + c, l)
    BY <2>3, Zenon DEF DigitsAdded
  <2>5. AlIs(Adjusted(FALSE)) /\ flags'.cf = CarryOut(FALSE)
    BY <1>4, <2>1, Adjusting
  <2> DEFINE x == Adjusted(FALSE) % ByteMod
             n == ValueOf(l) + ValueOf(s) + c
  <2> HIDE DEF h, l, s, c
  <2>6. DigitsIn(l) /\ DigitsIn(s)
    BY DEF l, s
  <2>7. /\ DigitsIn(x) /\ ValueOf(x) = n % (Radix * Radix)
        /\ CarryOut(FALSE) = (n >= Radix * Radix)
    BY <2>2, <2>4, <2>6, PackedSum, Zenon
  <2> QED
    BY <2>5, <2>7, Zenon
<1>6. ASSUME NEW op1 \in {"sub", "sbb"}, Ran(<<op1, "das">>, <<"al", "al">>)'
      PROVE  LET n == ValueOf(l) - ValueOf(s) - c
             IN  /\ DigitsIn(al') /\ ValueOf(al') = n % (Radix * Radix)
                 /\ flags'.cf = (n < 0)
  <2>1. Ran(<<op1>>, <<"al">>) /\ op = "das" /\ pc > 0 /\ code[1].op = op1 /\ code[1].reg = "al"
    BY <1>1, <1>6
  <2>2. /\ l \in 0 .. ByteMod - 1 /\ h \in 0 .. ByteMod - 1 /\ s \in 0 .. ByteMod - 1
        /\ c \in {0, 1}
    BY <2>1, Operands
  <2>3. DigitsSubtracted(s + c)
    <3>1. CASE op1 = "sub"
      <4>1. c = 0
        BY <2>1, <3>1 DEF CarryIn
      <4>2. s + c = s
        BY <2>2, <4>1
      <4> HIDE DEF s, c
      <4> QED
        BY <2>1, <3>1, <4>2 DEF FirstDecimal, s
    <3>2. CASE op1 = "sbb"
      BY <2>1, <3>2 DEF FirstDecimal
    <3> QED
      BY <3>1, <3>2
  <2>4. /\ ax = Wide(h, l - (s + c)) /\ flags.cf = Bit(l - (s + c), ByteMod)
        /\ flags.af = HalfCarry(l - (s + c), s + c, l)
    BY <2>3, Zenon DEF DigitsSubtracted
  <2>5. AlIs(Adjusted(TRUE)) /\ flags'.cf = CarryOut(TRUE)
    BY <1>4, <2>1, Adjusting
  <2> DEFINE x == Adjusted(TRUE) % ByteMod
             n == ValueOf(l) - ValueOf(s) - c
  <2> HIDE DEF h, l, s, c
  <2>6. DigitsIn(l) /\ DigitsIn(s)
    BY DEF l, s
  <2>7. /\ DigitsIn(x) /\ ValueOf(x) = n % (Radix * Radix)
        /\ CarryOut(TRUE) = (n < 0)
    BY <2>2, <2>4, <2>6, PackedDifference, Zenon
  <2> QED
    BY <2>5, <2>7, Zenon
<1> QED
  BY <1>5, <1>6

\* AAA and AAS.
LEMMA UnpackedStep ==
    ASSUME Begun, Machine, FirstDecimal, [Next]_vars, ~Stays,
           Low(start.ax) < Radix, Src(1) < Radix
    PROVE  LET d == Low(start.ax)
               h == High(start.ax)
               s == Src(1)
           IN
           /\ Ran(<<"add", "aaa">>, <<"al", "al">>)' =>
                al' = (d + s) % Radix /\ ah' = (h + ((d + s) \div Radix)) % ByteMod
           /\ Ran(<<"sub", "aas">>, <<"al", "al">>)' =>
                al' = (d - s) % Radix /\ ah' = (h + ((d - s) \div Radix)) % ByteMod
<1> DEFINE d == Low(start.ax)
           h == High(start.ax)
           s == Src(1)
           op == code[pc + 1].op
<1>1. ASSUME NEW x, NEW z \in {"aaa", "aas"}, Ran(<<x, z>>, <<"al", "al">>)'
      PROVE  /\ Ran(<<x>>, <<"al">>) /\ op = z
             /\ d \in 0 .. Radix - 1 /\ h \in 0 .. ByteMod - 1 /\ s \in 0 .. Radix - 1
  <2>1. Ran(<<x>>, <<"al">>) /\ op = z /\ pc > 0 /\ code[1].reg = "al"
    BY <1>1, RanStep DEF Ran
  <2>2. d \in 0 .. ByteMod - 1 /\ h \in 0 .. ByteMod - 1 /\ s \in 0 .. ByteMod - 1
    BY <2>1, Operands
  <2>3. d < Radix /\ s < Radix /\ ByteMod \in Nat /\ Radix \in Nat
    BY BytesOfAx
  <2> HIDE DEF d, h, s
  <2> QED
    BY <2>1, <2>2, <2>3
<1>2. ASSUME Ran(<<"add", "aaa">>, <<"al", "al">>)'
      PROVE  al' = (d + s) % Radix /\ ah' = (h + ((d + s) \div Radix)) % ByteMod
  <2> DEFINE y == Wide(IF LowDigit THEN ah + 1 ELSE ah, Corrected(FALSE) % Nibble)
  <2>1. /\ Ran(<<"add">>, <<"al">>) /\ op = "aaa"
        /\ d \in 0 .. Radix - 1 /\ h \in 0 .. ByteMod - 1 /\ s \in 0 .. Radix - 1
    BY <1>1, <1>2
  <2>2. ax = Wide(h, d + s) /\ flags.af = HalfCarry(d + s, s, d)
    BY <2>1 DEF FirstDecimal, DigitsAdded
  <2>3. ax' = y
    BY <2>1, Adjusting
  <2> HIDE DEF d, s, h
  <2>4. y % ByteMod = (d + s) % Radix /\ y \div ByteMod = (h + ((d + s) \div Radix)) % ByteMod
    BY <2>1, <2>2, UnpackedSum, Zenon
  <2> QED
    BY <2>3, <2>4, Zenon DEF al, ah
<1>3. ASSUME Ran(<<"sub", "aas">>, <<"al", "al">>)'
      PROVE  al' = (d - s) % Radix /\ ah' = (h + ((d - s) \div Radix)) % ByteMod
  <2> DEFINE y == Wide(IF LowDigit THEN ah - 1 ELSE ah, Corrected(TRUE) % Nibble)
  <2>1. /\ Ran(<<"sub">>, <<"al">>) /\ op = "aas"
        /\ d \in 0 .. Radix - 1 /\ h \in 0 .. ByteMod - 1 /\ s \in 0 .. Radix - 1
    BY <1>1, <1>3
  <2>2. ax = Wide(h, d - s) /\ flags.af = HalfCarry(d - s, s, d)
    BY <2>1 DEF FirstDecimal, DigitsSubtracted
  <2>3. ax' = y
    BY <2>1, Adjusting
  <2> HIDE DEF d, s, h
  <2>4. y % ByteMod = (d - s) % Radix /\ y \div ByteMod = (h + ((d - s) \div Radix)) % ByteMod
    BY <2>1, <2>2, UnpackedDifference, Zenon
  <2> QED
    BY <2>3, <2>4, Zenon DEF al, ah
<1> QED
  BY <1>2, <1>3

\* A byte has room for two digits.
LEMMA Hundred ==
    ASSUME NEW h \in 0 .. Radix - 1, NEW l \in 0 .. Radix - 1
    PROVE  /\ l + h * Radix \in 0 .. ByteMod - 1
           /\ h * l \in 0 .. ByteMod - 1 /\ h * l <= Radix * (Radix - 1)
           /\ h \in 0 .. ByteMod - 1 /\ l \in 0 .. ByteMod - 1
<1> DEFINE r == Radix
           n == Nibble
<1>1. r \in Nat \ {0} /\ n \in Nat \ {0} /\ r <= n /\ ByteMod = n * n
  BY AluAssumption DEF ByteMod
<1>2. h \in 0 .. r - 1 /\ l \in 0 .. r - 1
  OBVIOUS
<1> HIDE DEF r, n
<1>3. r * r <= n * n /\ r <= r * r
  BY <1>1, SMT
<1>4. r * h + l \in 0 .. r * r - 1 /\ r * h = h * r
  BY <1>1, <1>2, TwoDigits, SMT
<1>5. h * l <= r * (r - 1) /\ h * l >= 0 /\ r * (r - 1) <= r * r - 1
  <2>1. h * l <= h * (r - 1) /\ h * l >= 0
    BY <1>1, <1>2, SMT
  <2>2. h * (r - 1) <= r * (r - 1)
    BY <1>1, <1>2, SMT
  <2>3. r * (r - 1) = r * r - r
    BY <1>1, SMT
  <2> DEFINE p == h * l
             q == h * (r - 1)
             s == r * (r - 1)
             w == r * r
  <2>4. p <= q /\ p >= 0 /\ q <= s /\ s = w - r /\ p \in Int /\ q \in Int /\ s \in Int /\ w \in Int
    BY <1>1, <1>2, <2>1, <2>2, <2>3
  <2> HIDE DEF p, q, s, w
  <2>5. p <= s /\ p >= 0 /\ s <= w - 1
    BY <1>1, <2>4
  <2> QED
    BY <2>5 DEF p, s, w
<1> DEFINE p == h * l
           q == r * (r - 1)
           w == r * r
           b == n * n
           x == l + h * r
<1>6. /\ w <= b /\ r <= w /\ p <= q /\ p >= 0 /\ q <= w - 1
      /\ x \in 0 .. w - 1
      /\ p \in Int /\ q \in Int /\ w \in Int /\ b \in Int
  <2>1. w \in Int /\ b \in Int /\ p \in Int /\ q \in Int
    BY <1>1, <1>2
  <2>2. x = r * h + l
    <3> DEFINE y == r * h
    <3>1. y \in Int /\ x = l + y
      BY <1>1, <1>2, <1>4
    <3> HIDE DEF y, x
    <3>2. x = y + l
      BY <1>2, <3>1
    <3> QED
      BY <3>2 DEF y
  <2> QED
    BY <1>3, <1>4, <1>5, <2>1, <2>2
<1> HIDE DEF p, q, w, b, x
<1>7. x \in 0 .. b - 1 /\ p \in 0 .. b - 1 /\ p <= q /\ h \in 0 .. b - 1 /\ l \in 0 .. b - 1
  BY <1>1, <1>2, <1>6
<1> QED
  BY <1>1, <1>7 DEF p, q, b, x, r

\* A product below Radix turns has a quotient that is a digit.
LEMMA DigitsOfProduct ==
    ASSUME NEW p \in 0 .. Radix * (Radix - 1)
    PROVE  /\ p \div Radix \in 0 .. ByteMod - 1 /\ p % Radix \in 0 .. ByteMod - 1
           /\ p % Radix < Radix /\ (p \div Radix) * Radix + (p % Radix) = p
<1> DEFINE r == Radix
           q == p \div r
           t == p % r
<1>1. r \in Nat \ {0} /\ p \in Int /\ p >= 0 /\ p <= r * (r - 1)
  BY AluAssumption
<1>2. p = r * q + t /\ q \in Int /\ t \in 0 .. r - 1
  BY <1>1, DivisionIs
<1>3. r <= ByteMod /\ ByteMod \in Nat
  <2>1. ByteMod = Nibble * Nibble /\ Nibble \in Nat \ {0} /\ r <= Nibble
    BY AluAssumption DEF ByteMod
  <2>2. Nibble * Nibble >= Nibble /\ Nibble * Nibble \in Nat
    BY <2>1, SMT
  <2> QED
    BY <1>1, <2>1, <2>2
<1> HIDE DEF r, q, t
<1>4. q >= 0
  <2>1. q < 0 => r * q + r <= r * 0
    BY <1>1, <1>2, Grows
  <2>2. r * 0 = 0 /\ r * q \in Int
    BY <1>1, <1>2, SMT
  <2> QED
    BY <1>1, <1>2, <2>1, <2>2
<1>5. q < r
  <2>1. r - 1 < q => r * (r - 1) + r <= r * q
    BY <1>1, <1>2, Grows
  <2>2. r * (r - 1) \in Int /\ r * q \in Int
    BY <1>1, <1>2, SMT
  <2>3. ~(r - 1 < q)
    BY <1>1, <1>2, <2>1, <2>2
  <2> QED
    BY <1>1, <1>2, <2>3
<1>6. q * r = r * q
  BY <1>1, <1>2, SMT
<1> QED
  BY <1>1, <1>2, <1>3, <1>4, <1>5, <1>6 DEF r, q, t

\* AAM after MUL.
LEMMA ProductDigits ==
    ASSUME Begun, Machine, ProductOf("al"), [Next]_vars, ~Stays,
           Ran(<<"mul", "aam">>, <<"al", "al">>)', Src(2) = Radix,
           Low(start.ax) < Radix, Src(1) < Radix
    PROVE  al' < Radix /\ ah' * Radix + al' = Low(start.ax) * Src(1)
<1> DEFINE d == Low(start.ax)
           s == Src(1)
           r == Radix
           b == ByteMod
           p == d * s
<1>1. /\ Ran(<<"mul">>, <<"al">>) /\ pc = 1 /\ code[2].op = "aam" /\ code[2].reg = "al"
      /\ code[1].reg = "al"
  BY RanStep DEF Ran
<1>2. d \in 0 .. b - 1 /\ s \in 0 .. b - 1 /\ b \in Nat \ {0} /\ r \in Nat \ {0}
  BY <1>1, Operands, BytesOfAx
<1>3. d \in 0 .. r - 1 /\ s \in 0 .. r - 1
  <2>1. d < r /\ s < r
    OBVIOUS
  <2> HIDE DEF d, s, r, b
  <2> QED
    BY <1>2, <2>1
<1>4. p \in 0 .. b - 1 /\ p \in 0 .. r * (r - 1)
  <2> HIDE DEF d, s
  <2>1. p \in 0 .. b - 1 /\ p <= r * (r - 1)
    BY <1>3, Hundred
  <2>2. r * (r - 1) \in Int
    BY <1>2, SMT
  <2> HIDE DEF r, b, p
  <2> QED
    BY <1>2, <2>1, <2>2
<1>5. ah * b + al = p
  <2>1. IsWide("al") = FALSE /\ Mod(FALSE) = b /\ Register("al", start.ax, start.dx) = d
    BY DEF IsWide, WordRegs, Mod, Register, Low
  <2>2. LowHalf(FALSE) = al /\ HighHalf(FALSE) = ah
    BY DEF LowHalf, HighHalf
  <2> QED
    BY <1>1, <2>1, <2>2, Zenon DEF ProductOf
<1>6. al = p
  <2>1. al \in 0 .. b - 1 /\ ah \in Nat /\ ah * b = b * ah
    BY BytesOfAx, SMT
  <2> HIDE DEF b, p
  <2>2. p = b * ah + al
    BY <1>5, <2>1
  <2>3. p \in Int /\ ah \in Int
    BY <1>2, <1>4, <2>1
  <2>4. p % b = al
    BY <1>2, <2>1, <2>2, <2>3, DivisionUnique
  <2>5. p % b = p
    BY <1>2, <1>4, SmallResidue
  <2> QED
    BY <2>4, <2>5
<1>7. ax' = Wide(al \div r, al % r)
  <2>1. Aam /\ Inst = code[2]
    BY <1>1, StepIs DEF Inst
  <2>2. Inst.src = r /\ r # 0
    BY <1>2, <2>1 DEF Src
  <2> QED
    BY <2>1, <2>2 DEF Aam, Leaves
<1> DEFINE q == p \div r
           t == p % r
<1>8. q \in 0 .. b - 1 /\ t \in 0 .. b - 1 /\ t < r /\ q * r + t = p
  <2> HIDE DEF p
  <2> QED
    BY <1>4, DigitsOfProduct
<1>9. ax' = Wide(q, t)
  BY <1>6, <1>7
<1> HIDE DEF q, t, p
<1>10. q \in Int /\ t \in Int
  BY <1>2, <1>8
<1>11. Wide(q, t) % b = t /\ Wide(q, t) \div b = q
  BY <1>8, <1>10, HalvesOfWide
<1>12. al' = t /\ ah' = q
  BY <1>9, <1>11, Zenon DEF al, ah
<1> QED
  BY <1>8, <1>12 DEF p

\* DIV after AAD.
LEMMA QuotientOfDigits ==
    ASSUME Begun, Machine, FirstDecimal, [Next]_vars, ~Stays,
           Ran(<<"aad", "div">>, <<"al", "al">>)', Src(1) = Radix,
           Low(start.ax) < Radix, High(start.ax) < Radix
    PROVE  /\ al' * Src(2) + ah' = High(start.ax) * Radix + Low(start.ax)
           /\ ah' < Src(2)
<1> DEFINE d == Low(start.ax)
           h == High(start.ax)
           s == Src(2)
           b == ByteMod
           x == d + h * Radix
           no == FALSE
           e == DivideWide(s, no, no)
<1>1. /\ Ran(<<"aad">>, <<"al">>) /\ pc = 1 /\ code[2].op = "div" /\ code[2].reg = "al"
      /\ code[1].reg = "al"
  BY RanStep DEF Ran
<1>2. d \in 0 .. Radix - 1 /\ h \in 0 .. Radix - 1 /\ b \in Nat \ {0}
  <2>1. d \in 0 .. b - 1 /\ h \in 0 .. b - 1 /\ Radix \in Nat /\ b \in Nat \ {0}
    BY <1>1, Operands, BytesOfAx
  <2>2. d < Radix /\ h < Radix
    OBVIOUS
  <2> HIDE DEF d, h, b
  <2> QED
    BY <2>1, <2>2
<1>3. x \in 0 .. b - 1
  <2> HIDE DEF d, h
  <2> QED
    BY <1>2, Hundred
<1>4. ax = x
  <2>1. ax = Wide(0, x)
    BY <1>1 DEF FirstDecimal
  <2> HIDE DEF x
  <2>2. 0 \in 0 .. b - 1
    BY <1>2
  <2>3. Wide(0, x) = b * 0 + x
    BY <1>3, <2>2, WideOfBytes
  <2>4. b * 0 = 0 /\ x \in Int
    BY <1>2, <1>3
  <2> QED
    BY <2>1, <2>3, <2>4
<1>5. Inst = code[2] /\ Moves /\ DivideStep
  BY <1>1, StepIs DEF Inst
<1>6. /\ WordSize = no /\ (Inst.op = "idiv") = no /\ Inst.src = s /\ no \in BOOLEAN
      /\ Mod(no) = b /\ s \in 0 .. b - 1
  <2>1. WordSize = no /\ (Inst.op = "idiv") = no /\ Inst.src = s /\ Mod(no) = b
    BY <1>1, <1>5 DEF WordSize, WordRegs, Src, Mod
  <2>2. Inst.src \in 0 .. Mod(WordSize) - 1
    BY <1>5, InstIs
  <2> QED
    BY <2>1, <2>2
<1>7. ~no
  OBVIOUS
<1> HIDE DEF no, s
<1>8. ~e.overflow /\ Leaves(e.ax, e.dx, flags)
  <2>1. ~DivideOverflow
    BY DEF DivideOverflow, Stays
  <2> QED
    BY <1>5, <1>6, <2>1, Zenon DEF DivideStep
<1>9. s \in 1 .. Mod(no) - 1
  <2>1. s # 0
    <3> SUFFICES ASSUME s = 0 PROVE FALSE
      OBVIOUS
    <3>1. e = [ax |-> ax, dx |-> dx, overflow |-> TRUE]
      BY Zenon DEF DivideWide
    <3>2. e.overflow
      BY <3>1
    <3> QED
      BY <1>8, <3>2
  <2> HIDE DEF b
  <2> QED
    BY <1>2, <1>6, <2>1
<1>10. PICK q \in Int, t \in Int :
          /\ Rounds(x, s, q, t)
          /\ e.overflow <=> q \notin 0 .. b - 1
          /\ e.ax = Wide(t, q)
  <2>1. Divided(s, no, no)
    BY <1>6, <1>9, DivideWideIs
  <2> DEFINE m == Mod(no)
             dividend == IF no THEN dx * WordMod + ax ELSE ax
             n == Meant(dividend, no, m * m)
             v == Meant(s, no, m)
  <2>2. n = x /\ v = s
    BY <1>4, <1>7 DEF Meant
  <2>3. \E q \in Int, t \in Int :
          /\ Rounds(n, v, q, t)
          /\ e.overflow <=> q \notin (IF no THEN -(m \div 2) .. m \div 2 - 1 ELSE 0 .. m - 1)
          /\ e.ax = IF no THEN q % m ELSE Wide(t, q)
    BY <2>1, Zenon DEF Divided
  <2> HIDE DEF n, v, x, e
  <2> QED
    BY <1>6, <1>7, <2>2, <2>3
<1> HIDE DEF x, e
<1>11. q \in 0 .. b - 1
  BY <1>8, <1>10
<1>12. s \in Int /\ s > 0 /\ s < b /\ x \in Int /\ x >= 0
  <2> HIDE DEF b
  <2> QED
    BY <1>2, <1>3, <1>6, <1>9
<1>13. t < s /\ t >= 0 /\ q * s + t = x
  <2>1. /\ t < (IF s < 0 THEN -s ELSE s) /\ -t < (IF s < 0 THEN -s ELSE s)
        /\ t # 0 => (t < 0 <=> x < 0)
        /\ q * s + t = x
    BY <1>10, <1>12, ResidueIs
  <2> HIDE DEF b
  <2> QED
    BY <1>10, <1>12, <2>1
<1>14. t \in 0 .. b - 1
  <2> HIDE DEF b
  <2> QED
    BY <1>2, <1>10, <1>12, <1>13
<1>15. ax' = Wide(t, q)
  BY <1>8, <1>10 DEF Leaves
<1>16. Wide(t, q) % b = q /\ Wide(t, q) \div b = t
  BY <1>10, <1>11, <1>14, HalvesOfWide
<1>17. al' = q /\ ah' = t
  BY <1>15, <1>16, Zenon DEF al, ah
<1>18. x = h * Radix + d
  <2>1. h * Radix \in Int /\ d \in Int
    BY <1>2, BytesOfAx, SMT
  <2> DEFINE p == h * Radix
  <2> HIDE DEF p, d
  <2>2. x = d + p
    BY DEF x, p
  <2>3. x = p + d
    BY <2>1, <2>2 DEF p
  <2> QED
    BY <2>3 DEF p
<1> QED
  BY <1>13, <1>17, <1>18 DEF s, d, h

LEMMA DecimalArithmeticStep ==
    Begun /\ Machine /\ FirstDecimal /\ ProductsAndQuotients /\ DecimalArithmetic /\ [Next]_vars
      => DecimalArithmetic'
<1> SUFFICES ASSUME Begun, Machine, FirstDecimal, ProductsAndQuotients, DecimalArithmetic,
                    [Next]_vars
             PROVE  DecimalArithmetic'
  OBVIOUS
<1>1. CASE Stays
  BY <1>1 DEF Stays, DecimalArithmetic, Ran, Src, CarryIn, al, ah
<1>2. CASE ~Stays
  <2>1. start' = start /\ code' = code
    BY <1>2, StepIs DEF Moves
  <2>2. CarryIn' = CarryIn /\ Src(1)' = Src(1) /\ Src(2)' = Src(2)
    BY <2>1 DEF CarryIn, Src
  <2>3. ProductOf("al")
    BY DEF ProductsAndQuotients
  <2> DEFINE d == Low(start.ax)
             h == High(start.ax)
             s == Src(1)
             hundred == Radix * Radix
             plus == ValueOf(d) + ValueOf(s) + CarryIn
             minus == ValueOf(d) - ValueOf(s) - CarryIn
             Does(ops) == Ran(ops, <<"al", "al">>)'
             digits == d < Radix /\ s < Radix
  <2>4. /\ (Does(<<"add", "daa">>) \/ Does(<<"adc", "daa">>)) /\ DigitsIn(d) /\ DigitsIn(s) =>
             DigitsIn(al') /\ ValueOf(al') = plus % hundred /\ flags'.cf = (plus >= hundred)
        /\ (Does(<<"sub", "das">>) \/ Does(<<"sbb", "das">>)) /\ DigitsIn(d) /\ DigitsIn(s) =>
             DigitsIn(al') /\ ValueOf(al') = minus % hundred /\ flags'.cf = (minus < 0)
    BY <1>2, PackedStep, Zenon
  <2>5. /\ Does(<<"add", "aaa">>) /\ digits =>
             al' = (d + s) % Radix /\ ah' = (h + ((d + s) \div Radix)) % ByteMod
        /\ Does(<<"sub", "aas">>) /\ digits =>
             al' = (d - s) % Radix /\ ah' = (h + ((d - s) \div Radix)) % ByteMod
    BY <1>2, UnpackedStep, Zenon
  <2>6. Does(<<"mul", "aam">>) /\ Src(2) = Radix /\ digits =>
          al' < Radix /\ ah' * Radix + al' = d * s
    BY <1>2, <2>3, ProductDigits, Zenon
  <2>7. Does(<<"aad", "div">>) /\ Src(1) = Radix /\ d < Radix /\ h < Radix =>
          al' * Src(2) + ah' = h * Radix + d /\ ah' < Src(2)
    BY <1>2, QuotientOfDigits, Zenon
  <2> QED
    BY <2>1, <2>2, <2>4, <2>5, <2>6, <2>7, Zenon DEF DecimalArithmetic, DigitsIn, ValueOf
<1> QED
  BY <1>1, <1>2

\* Decimal numbers are added, subtracted, multiplied and divided by their digits.
THEOREM DigitsAdjust == Spec => []DecimalArithmetic
<1>1. Init => DecimalArithmetic
  BY DEF Init, DecimalArithmetic, Ran
<1> QED
  BY <1>1, DecimalArithmeticStep, BegunInvariance, MachineInvariance, FirstDecimalInvariance,
     ProductsAndQuotientsAre, PTL DEF Spec
=============================================================================
