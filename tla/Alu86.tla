-------------------------------- MODULE Alu86 --------------------------------
(***************************************************************************)
(* The arithmetic of executeInstruction() (8086.c): addition and           *)
(* subtraction with and without carry, INC, DEC, NEG, the logical          *)
(* operations, shifts and rotations, multiplication, division, the         *)
(* decimal adjustments, and the conditions that jumps take from the flags. *)
(* A program is a short sequence of such instructions; what matters is     *)
(* what the sequence computes, not what one flag is set to.                *)
(*                                                                         *)
(* Numbers scale: a byte is two nibbles of Nibble values each, a word two  *)
(* bytes, and a decimal digit has Radix values.  The code has Nibble = 16  *)
(* and Radix = 10, so 6 is Nibble - Radix, 0x60 is Nibble times that, and  *)
(* 0x9f is Radix * Nibble - 1.  PF, which only JP and JNP read, is left    *)
(* out.                                                                    *)
(***************************************************************************)
EXTENDS Sequences, Bits86

CONSTANTS
    Nibble, Radix,
    Codes,      \* the programs: sequences of [op, reg, src]
    Starts      \* [ax, dx, cf] when a program starts

ByteMod  == Nibble * Nibble
WordMod  == ByteMod * ByteMod
DWordMod == WordMod * WordMod

\* The instructions.  Of the registers, DX stands for every word that is not AX.
AluOps    == {"add", "or", "adc", "sbb", "and", "sub", "xor", "cmp"}
RotateOps == {"rol", "ror", "rcl", "rcr", "shl", "shr", "sar"}
AsciiOps  == {"daa", "das", "aaa", "aas", "aam", "aad"}
Ops == AluOps \cup RotateOps \cup AsciiOps
         \cup {"inc", "dec", "neg", "not", "cbw", "cwd", "mul", "imul", "div", "idiv"}
Regs     == {"al", "ah", "ax", "dx"}
WordRegs == {"ax", "dx"}

ASSUME AluAssumption ==
    /\ Nibble \in Nat \ {0} /\ Nibble % 2 = 0 /\ Radix \in 2 .. Nibble
    /\ Starts \subseteq [ax : 0 .. WordMod - 1, dx : 0 .. WordMod - 1, cf : BOOLEAN]
    /\ Codes \subseteq Seq([op : Ops, reg : Regs, src : 0 .. WordMod - 1])

\* An operand is as wide as the register; adjustments are of AL, by a byte.
ASSUME CodesAssumption ==
    \A c \in Codes : \A i \in 1 .. Len(c) :
      /\ c[i].reg \notin WordRegs => c[i].src < ByteMod
      /\ c[i].op \in AsciiOps => c[i].reg = "al"

VARIABLES
    ax, dx,     \* registers AX, of which AL and AH are the bytes, and DX
    flags,      \* the flags, without PF
    trapped,    \* divideOverflow() has ended the emulator
    code,       \* the program that runs
    pc,         \* how many of its instructions have been executed
    start       \* observer: the registers and the carry it began with

vars == <<ax, dx, flags, trapped, code, pc, start>>

-----------------------------------------------------------------------------
(* Bytes, words and their bits.                                              *)

\* Values of an operand: wordSize says which.
Mod(wordSize) == IF wordSize THEN WordMod ELSE ByteMod

\* Is the bit of that weight set?  Negative numbers are in two's complement.
Bit(n, weight) == (n \div weight) % 2 = 1
Top(n, wordSize) == Bit(n, Mod(wordSize) \div 2)

al == ax % ByteMod
ah == ax \div ByteMod
Wide(high, low) == (high % ByteMod) * ByteMod + (low % ByteMod)

\* A register of a machine with these in AX and DX.
Register(reg, a, d) ==
    CASE reg = "al" -> a % ByteMod [] reg = "ah" -> a \div ByteMod
      [] reg = "ax" -> a [] reg = "dx" -> d
Get(reg) == Register(reg, ax, dx)

\* Mutant: the upper byte stays zero.
SignExtend_Zero(n) == n

SignExtend(n) == IF n < ByteMod \div 2 THEN n ELSE n + WordMod - ByteMod
Negate(n, mod) == (mod - n) % mod

-----------------------------------------------------------------------------
(* The flags.                                                                *)

\* Mutant: only the byte is looked at.
SetPZS_Byte(f, data, wordSize) ==
    [f EXCEPT !.zf = data % ByteMod = 0, !.sf = Top(data, wordSize)]

SetPZS(f, data, wordSize) ==
    [f EXCEPT !.zf = data % Mod(wordSize) = 0, !.sf = Top(data, wordSize)]

\* Mutant: AF is never set.
HalfCarry_Never(data, s, d) == FALSE

\* doAF(): the carry out of the low nibble.
HalfCarry(data, s, d) == (Bit(data, Nibble) # Bit(s, Nibble)) # Bit(d, Nibble)

\* setCAPZS().
SetCAPZS(f, data, d, s, wordSize) ==
    [SetPZS(f, data, wordSize) EXCEPT !.af = HalfCarry(data, s, d),
                                      !.cf = Bit(data, Mod(wordSize))]

OFAdd(data, d, s, wordSize) ==
    Top(data, wordSize) # Top(s, wordSize) /\ Top(data, wordSize) # Top(d, wordSize)

\* Mutant: the signs of an addition.
OFSub_LikeAdd(data, d, s, wordSize) == OFAdd(data, d, s, wordSize)

\* Mutant: overflow is read off the source and the result.
OFSub_Source(data, d, s, wordSize) ==
    Top(d, wordSize) # Top(s, wordSize) /\ Top(data, wordSize) # Top(s, wordSize)

OFSub(data, d, s, wordSize) ==
    Top(d, wordSize) # Top(s, wordSize) /\ Top(data, wordSize) # Top(d, wordSize)

-----------------------------------------------------------------------------
(* doALUOperation() and its relatives.  Each returns the data and the flags. *)

Result(data, f) == [data |-> data, flags |-> f]

Add(f, d, s, wordSize) ==
    Result(d + s, [SetCAPZS(f, d + s, d, s, wordSize)
                     EXCEPT !.of = OFAdd(d + s, d, s, wordSize)])
Sub(f, d, s, wordSize) ==
    Result(d - s, [SetCAPZS(f, d - s, d, s, wordSize)
                     EXCEPT !.of = OFSub(d - s, d, s, wordSize)])
BitwiseOp(f, data, wordSize) ==
    Result(data, [SetPZS(f, data, wordSize) EXCEPT !.cf = FALSE, !.af = FALSE, !.of = FALSE])

\* The operands bit by bit.
Bits(n) == {i \in 0 .. 15 : Bit(n, 2 ^ i)}
And(d, s) == Number(Bits(d) \cap Bits(s))
Or(d, s)  == Number(Bits(d) \cup Bits(s))
Xor(d, s) == Number((Bits(d) \cup Bits(s)) \ (Bits(d) \cap Bits(s)))

\* What ADC and SBB add to the source first.
Carry(f) == IF f.cf THEN 1 ELSE 0

ALUOperation(op, f, d, s, wordSize) ==
    CASE op = "add" -> Add(f, d, s, wordSize)
      [] op = "adc" -> Add(f, d, s + Carry(f), wordSize)
      [] op = "sbb" -> Sub(f, d, s + Carry(f), wordSize)
      [] op \in {"sub", "cmp"} -> Sub(f, d, s, wordSize)
      [] op = "and" -> BitwiseOp(f, And(d, s), wordSize)
      [] op = "or"  -> BitwiseOp(f, Or(d, s), wordSize)
      [] op = "xor" -> BitwiseOp(f, Xor(d, s), wordSize)

\* Mutant: INC and DEC are additions and subtractions.
IncDec_LikeAdd(f, d, decrement, wordSize) ==
    IF decrement THEN Sub(f, d, 1, wordSize) ELSE Add(f, d, 1, wordSize)

\* INC and DEC leave the carry alone.
IncDec(f, d, decrement, wordSize) ==
    LET data == IF decrement THEN d - 1 ELSE d + 1
        of   == IF decrement THEN OFSub(data, d, 1, wordSize) ELSE OFAdd(data, d, 1, wordSize)
    IN  Result(data, [SetPZS(f, data, wordSize)
                        EXCEPT !.of = of, !.af = HalfCarry(data, 1, d)])

-----------------------------------------------------------------------------
(* Shifts and rotations: one step each, repeated.                            *)

RotateStep(op, r, wordSize) ==
    LET d == r.data
        f == r.flags
        top == Mod(wordSize) \div 2
        left == (2 * d) % DWordMod
        \* doCF() of what was shifted left, and the bit shifted out to the right.
        out == IF op \in {"rol", "rcl", "shl"} THEN Bit(left, Mod(wordSize)) ELSE d % 2 = 1
        \* What is shifted in.
        in == CASE op \in {"rol", "ror"} -> out
                [] op \in {"rcl", "rcr"} -> f.cf
                [] op \in {"shl", "shr"} -> FALSE
                [] op = "sar" -> Top(d, wordSize)
        data == IF op \in {"rol", "rcl", "shl"}
                  THEN left + (IF in THEN 1 ELSE 0)
                  ELSE d \div 2 + (IF in THEN top ELSE 0)
        g == [f EXCEPT !.cf = out, !.of = Top(data, wordSize) # Top(d, wordSize),
                       !.af = IF op \in {"shr", "sar"} THEN TRUE ELSE f.af]
    IN  Result(data, IF op \in {"shl", "shr", "sar"} THEN SetPZS(g, data, wordSize) ELSE g)

\* Mutant: RCL and RCR rotate the operand without the carry.
Rotate_NoCarry(op, d, count, f, wordSize) ==
    LET plain == CASE op = "rcl" -> "rol" [] op = "rcr" -> "ror" [] OTHER -> op
        step[n \in 0 .. count] ==
            IF n = 0 THEN Result(d, f) ELSE RotateStep(plain, step[n - 1], wordSize)
    IN  step[count]

Rotate(op, d, count, f, wordSize) ==
    LET step[n \in 0 .. count] ==
            IF n = 0 THEN Result(d, f) ELSE RotateStep(op, step[n - 1], wordSize)
    IN  step[count]

-----------------------------------------------------------------------------
(* Decimal adjustments.  The result is AX.                                   *)

\* DAA and DAS; a carry out of the first correction is kept in CF.
Adjust(f, decrement) ==
    LET sign  == IF decrement THEN -1 ELSE 1
        low   == f.af \/ al % Nibble >= Radix
        data  == IF low THEN al + sign * (Nibble - Radix) ELSE al
        cf    == \/ f.cf
                 \/ low /\ Bit(data, ByteMod)
                 \/ data % ByteMod > Radix * Nibble - 1
        total == IF cf THEN data + sign * Nibble * (Nibble - Radix) ELSE data
    IN  Result(Wide(ah, total), SetPZS([f EXCEPT !.af = low, !.cf = cf],
                                       total % ByteMod, FALSE))

\* AAA and AAS.
AsciiAdjust(f, decrement) ==
    LET sign == IF decrement THEN -1 ELSE 1
        low  == f.af \/ al % Nibble >= Radix
        data == IF low THEN al + sign * (Nibble - Radix) ELSE al
    IN  Result(Wide(IF low THEN ah + sign ELSE ah, data % Nibble),
               [f EXCEPT !.cf = low, !.af = low])

-----------------------------------------------------------------------------
(* Multiplication and division.  The result is DX and AX.                    *)

\* What MUL and IMUL do to the flags: CF and OF alike.
ProductFlags(f, d, zero, cf, wordSize) ==
    [f EXCEPT !.sf = Top(d, wordSize), !.zf = zero, !.cf = cf, !.of = cf]

\* Mutant: only one of the two signs is corrected for.
Upper_OneSign(d, s, signed, wordSize) ==
    (((d * s) \div Mod(wordSize))
        - (IF signed /\ Top(s, wordSize) THEN d ELSE 0)) % Mod(wordSize)

\* The upper half of a product of unsigned numbers, corrected for signed ones.
Upper(d, s, signed, wordSize) ==
    (((d * s) \div Mod(wordSize))
        - (IF signed /\ Top(s, wordSize) THEN d ELSE 0)
        - (IF signed /\ Top(d, wordSize) THEN s ELSE 0)) % Mod(wordSize)

Multiply(f, s, signed, wordSize) ==
    LET d == IF wordSize THEN ax ELSE al
        low   == (d * s) % Mod(wordSize)
        high  == Upper(d, s, signed, wordSize)
        cf    == IF signed
                   THEN high = (IF Top(low, wordSize) THEN Mod(wordSize) - 1 ELSE 0)
                   ELSE high # 0
        \* setZF() looks at the low byte, or at the low word with DX merged in.
        zero  == IF wordSize THEN low = 0 /\ high = 0 ELSE low = 0
    IN  [ax |-> IF wordSize THEN low ELSE Wide(high, low),
         dx |-> IF wordSize THEN high ELSE dx,
         flags |-> ProductFlags(f, d, zero, cf, wordSize)]

\* divide(): magnitudes are divided, then the signs are put back.
Divide(d, s, signed) ==
    LET dneg == signed /\ d >= DWordMod \div 2
        sneg == signed /\ s >= WordMod \div 2
        dividend == IF dneg THEN Negate(d, DWordMod) ELSE d
        divisor  == IF sneg THEN Negate(s, WordMod) ELSE s
        q == dividend \div divisor
        r == dividend % divisor
    IN  [data    |-> IF dneg # sneg THEN Negate(q, DWordMod) ELSE q,
         residue |-> IF dneg THEN Negate(r, DWordMod) ELSE r]

\* The operands of DIV and IDIV, and the quotients they refuse.
DivideWide(s, signed, wordSize) ==
    LET d == IF wordSize THEN dx * WordMod + ax
             ELSE IF signed /\ ax >= WordMod \div 2 THEN ax + DWordMod - WordMod ELSE ax
        divisor == IF ~wordSize /\ signed THEN SignExtend(s) ELSE s
        half == Mod(wordSize) \div 2
        r == Divide(d, divisor, signed)
        tooLarge == IF signed THEN r.data >= half /\ r.data < DWordMod - half
                    ELSE r.data >= Mod(wordSize)
    IN  IF s = 0 THEN [ax |-> ax, dx |-> dx, overflow |-> TRUE]
        ELSE [ax |-> IF wordSize THEN r.data % WordMod ELSE Wide(r.residue, r.data),
              dx |-> IF wordSize THEN r.residue % WordMod ELSE dx,
              overflow |-> tooLarge]

-----------------------------------------------------------------------------
(* Conditional jumps: opcodes 0x70 to 0x7f by name.                          *)

Condition(name, f) ==
    CASE name = "o"  -> f.of         [] name = "no"  -> ~f.of
      [] name = "b"  -> f.cf         [] name = "ae"  -> ~f.cf
      [] name = "e"  -> f.zf         [] name = "ne"  -> ~f.zf
      [] name = "be" -> f.cf \/ f.zf [] name = "a"   -> ~(f.cf \/ f.zf)
      [] name = "s"  -> f.sf         [] name = "ns"  -> ~f.sf
      [] name = "l"  -> f.sf # f.of  [] name = "ge"  -> f.sf = f.of
      [] name = "le" -> f.sf # f.of \/ f.zf
      [] name = "g"  -> ~(f.sf # f.of \/ f.zf)

-----------------------------------------------------------------------------
(* A program.                                                                *)

Init ==
    /\ code \in Codes /\ start \in Starts /\ pc = 0
    /\ ax = start.ax /\ dx = start.dx /\ trapped = FALSE
    /\ flags = [cf |-> start.cf, af |-> FALSE, zf |-> FALSE, sf |-> FALSE, of |-> FALSE]

Running == pc < Len(code) /\ ~trapped

\* The next instruction, and its operand size.
Inst == code[pc + 1]
WordSize == Inst.reg \in WordRegs

\* What an instruction leaves in AX, DX and the flags.
Leaves(newax, newdx, newflags) ==
    /\ ax' = newax /\ dx' = newdx /\ flags' = newflags
    /\ pc' = pc + 1
    /\ UNCHANGED <<trapped, code, start>>

\* setReg(), finishWriteEA().
SetReg(r) ==
    Leaves(CASE Inst.reg = "al" -> Wide(ah, r.data)
             [] Inst.reg = "ah" -> Wide(r.data, al)
             [] Inst.reg = "ax" -> r.data % WordMod
             [] Inst.reg = "dx" -> ax,
           IF Inst.reg = "dx" THEN r.data % WordMod ELSE dx,
           r.flags)

\* divideOverflow() ends the emulator.
DivideOverflow ==
    /\ trapped' = TRUE
    /\ UNCHANGED <<ax, dx, flags, code, pc, start>>

\* CMP keeps the flags only.
AluStep ==
    /\ Running /\ Inst.op \in AluOps
    /\ LET r == ALUOperation(Inst.op, flags, Get(Inst.reg), Inst.src, WordSize)
       IN  IF Inst.op = "cmp" THEN Leaves(ax, dx, r.flags) ELSE SetReg(r)

IncDecStep ==
    /\ Running /\ Inst.op \in {"inc", "dec"}
    /\ SetReg(IncDec(flags, Get(Inst.reg), Inst.op = "dec", WordSize))

NegStep ==
    /\ Running /\ Inst.op = "neg"
    /\ SetReg(Sub(flags, 0, Get(Inst.reg), WordSize))

NotStep ==
    /\ Running /\ Inst.op = "not"
    /\ SetReg(Result(Mod(WordSize) - 1 - Get(Inst.reg), flags))

RotateBy ==
    /\ Running /\ Inst.op \in RotateOps
    /\ SetReg(Rotate(Inst.op, Get(Inst.reg), Inst.src, flags, WordSize))

DecimalStep ==
    /\ Running /\ Inst.op \in {"daa", "das", "aaa", "aas"}
    /\ LET decrement == Inst.op \in {"das", "aas"}
           r == IF Inst.op \in {"daa", "das"} THEN Adjust(flags, decrement)
                ELSE AsciiAdjust(flags, decrement)
       IN  Leaves(r.data, dx, r.flags)

Aam ==
    /\ Running /\ Inst.op = "aam"
    /\ IF Inst.src = 0 THEN DivideOverflow
       ELSE Leaves(Wide(al \div Inst.src, al % Inst.src), dx, SetPZS(flags, Inst.src, TRUE))

Aad ==
    /\ Running /\ Inst.op = "aad"
    /\ Leaves(Wide(0, al + ah * Inst.src), dx, SetPZS(flags, Inst.src, TRUE))

\* CBW and CWD.
Extend ==
    /\ Running /\ Inst.op \in {"cbw", "cwd"}
    /\ IF Inst.op = "cbw" THEN Leaves(SignExtend(al), dx, flags)
       ELSE Leaves(ax, IF Top(ax, TRUE) THEN WordMod - 1 ELSE 0, flags)

MultiplyStep ==
    /\ Running /\ Inst.op \in {"mul", "imul"}
    /\ LET r == Multiply(flags, Inst.src, Inst.op = "imul", WordSize)
       IN  Leaves(r.ax, r.dx, r.flags)

DivideStep ==
    /\ Running /\ Inst.op \in {"div", "idiv"}
    /\ LET r == DivideWide(Inst.src, Inst.op = "idiv", WordSize)
       IN  IF r.overflow THEN DivideOverflow ELSE Leaves(r.ax, r.dx, flags)

Done == ~Running /\ UNCHANGED vars

Next ==
    \/ AluStep \/ IncDecStep \/ NegStep \/ NotStep \/ RotateBy
    \/ DecimalStep \/ Aam \/ Aad
    \/ Extend \/ MultiplyStep \/ DivideStep
    \/ Done

Spec == Init /\ [][Next]_vars

-----------------------------------------------------------------------------
(* Properties.  Each says what programs of some shape compute.               *)

\* The program has begun with these instructions, and has executed them.
Ran(ops, regs) ==
    /\ pc = Len(ops) /\ pc <= Len(code)
    /\ \A i \in 1 .. Len(ops) : code[i].op = ops[i] /\ code[i].reg = regs[i]

Src(i)  == code[i].src
IsWide(reg) == reg \in WordRegs
Low(n)  == n % ByteMod
High(n) == n \div ByteMod
Signed(n, mod) == IF n >= mod \div 2 THEN n - mod ELSE n
CarryIn == IF code[1].op \in {"adc", "sbb"} /\ start.cf THEN 1 ELSE 0

\* Do the conditions compare the operands, of that many values, as they are named?
Decides(f, d, s, mod) ==
    LET ds == Signed(d, mod)
        ss == Signed(s, mod)
        True(name) == Condition(name, f)
    IN  /\ True("e") = (d = s)   /\ True("ne") = (d # s)
        /\ True("b") = (d < s)   /\ True("ae") = (d >= s)
        /\ True("be") = (d <= s) /\ True("a") = (d > s)
        /\ True("l") = (ds < ss) /\ True("ge") = (ds >= ss)
        /\ True("le") = (ds <= ss) /\ True("g") = (ds > ss)

\* After a comparison every conditional jump decides the relation it is named for,
\* of signed and of unsigned numbers, in bytes and in words.
ConditionsCompare ==
    \A reg \in Regs : Ran(<<"cmp">>, <<reg>>) =>
        Decides(flags, Register(reg, start.ax, start.dx), Src(1), Mod(IsWide(reg)))

\* Additions and subtractions by bytes make those of words, the carry going from
\* one to the next past an INC or DEC; NEG, ADC and NEG negate a word.
WideArithmetic ==
    LET s == Wide(Src(3), Src(1))
        bytes == <<"al", "dx", "ah">>
    IN
    /\ Ran(<<"add", "dec", "adc">>, bytes) =>
         /\ ax = (start.ax + s) % WordMod
         /\ flags.cf = (start.ax + s >= WordMod)
    /\ Ran(<<"sub", "inc", "sbb">>, bytes) =>
         /\ ax = (start.ax - s) % WordMod
         /\ flags.cf = (start.ax < s)
    /\ Ran(<<"neg", "adc", "neg">>, <<"al", "ah", "ah">>) /\ Src(2) = 0 =>
         ax = (-start.ax) % WordMod

\* Shifts by bytes make those of words, and rotations undo each other, the carry
\* taking part in RCL and RCR, for every count.
WideShifts ==
    LET once == Src(1) = 1 /\ Src(2) = 1
        down == <<"ah", "al">>
        odd  == start.ax % 2 = 1
    IN
    /\ Ran(<<"shl", "rcl">>, <<"al", "ah">>) /\ once => ax = (2 * start.ax) % WordMod
    /\ Ran(<<"shr", "rcr">>, down) /\ once => ax = start.ax \div 2 /\ flags.cf = odd
    /\ Ran(<<"sar", "rcr">>, down) /\ once =>
         ax = (Signed(start.ax, WordMod) \div 2) % WordMod /\ flags.cf = odd
    /\ \A reg \in Regs :
         /\ Ran(<<"rol", "ror">>, <<reg, reg>>) /\ Src(1) = Src(2) =>
              ax = start.ax /\ dx = start.dx
         /\ Ran(<<"rcl", "rcr">>, <<reg, reg>>) /\ Src(1) = Src(2) /\ Src(1) > 0 =>
              ax = start.ax /\ dx = start.dx /\ flags.cf = start.cf

\* DAA and DAS turn sums and differences of packed decimal numbers into packed
\* decimal numbers; AAA, AAS, AAM and AAD do so for unpacked digits.
DecimalArithmetic ==
    LET Digits(n) == n % Nibble < Radix /\ n \div Nibble < Radix
        Value(n)  == (n \div Nibble) * Radix + (n % Nibble)
        Does(ops) == Ran(ops, <<"al", "al">>)
        hundred == Radix * Radix
        d == Low(start.ax)
        h == High(start.ax)
        s == Src(1)
        plus  == Value(d) + Value(s) + CarryIn
        minus == Value(d) - Value(s) - CarryIn
        digits == d < Radix /\ s < Radix
    IN
    /\ (Does(<<"add", "daa">>) \/ Does(<<"adc", "daa">>)) /\ Digits(d) /\ Digits(s) =>
         Digits(al) /\ Value(al) = plus % hundred /\ flags.cf = (plus >= hundred)
    /\ (Does(<<"sub", "das">>) \/ Does(<<"sbb", "das">>)) /\ Digits(d) /\ Digits(s) =>
         Digits(al) /\ Value(al) = minus % hundred /\ flags.cf = (minus < 0)
    /\ Does(<<"add", "aaa">>) /\ digits =>
         al = (d + s) % Radix /\ ah = (h + (d + s) \div Radix) % ByteMod
    /\ Does(<<"sub", "aas">>) /\ digits =>
         al = (d - s) % Radix /\ ah = (h + (d - s) \div Radix) % ByteMod
    /\ Does(<<"mul", "aam">>) /\ Src(2) = Radix /\ digits => al < Radix /\ ah * Radix + al = d * s
    /\ Does(<<"aad", "div">>) /\ Src(1) = Radix /\ d < Radix /\ h < Radix =>
         al * Src(2) + ah = h * Radix + d /\ ah < Src(2)

\* Is r the residue of a division of n by d that rounds towards zero?
Residue(r, n, d) ==
    /\ (IF r < 0 THEN -r ELSE r) < (IF d < 0 THEN -d ELSE d)
    /\ r # 0 => (r < 0) = (n < 0)

\* What a program starts with, and ends with, in AX and DX, or in AL and AH.
Dividend(wide) == IF wide THEN start.dx * WordMod + start.ax ELSE start.ax
LowHalf(wide)  == IF wide THEN ax ELSE al
HighHalf(wide) == IF wide THEN dx ELSE ah

ProductOf(reg) ==
    LET wide == IsWide(reg)
        mod  == Mod(wide)
        d == Register(reg, start.ax, start.dx)
        product == HighHalf(wide) * mod + LowHalf(wide)
    IN  /\ Ran(<<"mul">>, <<reg>>) => product = d * Src(1)
        /\ Ran(<<"imul">>, <<reg>>) =>
             Signed(product, mod * mod) = Signed(d, mod) * Signed(Src(1), mod)

QuotientOf(reg) ==
    LET wide == IsWide(reg)
        mod  == Mod(wide)
        s == Src(1)
        q == LowHalf(wide)
        r == HighHalf(wide)
        Sg(n) == Signed(n, mod)
        sdividend == Signed(Dividend(wide), mod * mod)
    IN  /\ Ran(<<"div">>, <<reg>>) => q * s + r = Dividend(wide) /\ r < s
        /\ Ran(<<"idiv">>, <<reg>>) =>
             Sg(q) * Sg(s) + Sg(r) = sdividend /\ Residue(Sg(r), sdividend, Sg(s))

RefusalOf(reg) ==
    LET wide == IsWide(reg)
        mod  == Mod(wide)
        s == Src(1)
        d == Register(reg, start.ax, start.dx)
        Sg(n) == Signed(n, mod)
        sdividend == Signed(Dividend(wide), mod * mod)
        Refused(i, op) == /\ trapped /\ pc = i - 1
                          /\ code[i].op = op /\ code[i].reg = reg
    IN  /\ Refused(1, "div") => s = 0 \/ Dividend(wide) \div s >= mod
        /\ Refused(1, "idiv") =>
             s = 0 \/ \A q \in -(mod \div 2) .. mod \div 2 - 1 :
                        ~Residue(sdividend - q * Sg(s), sdividend, Sg(s))
        /\ Refused(2, "idiv") /\ code[1].op = (IF wide THEN "cwd" ELSE "cbw") =>
             Src(2) = 0 \/ (Sg(d) = -(mod \div 2) /\ Sg(Src(2)) = -1)

\* MUL and IMUL give the whole product; DIV and IDIV give the quotient rounded towards
\* zero and its residue, and end in a divide error if and only if the quotient does not
\* fit, which after CBW and CWD is that of the most negative number by -1 alone.
ProductsAndQuotients ==
    \A reg \in {"al", "ax"} : ProductOf(reg) /\ QuotientOf(reg) /\ RefusalOf(reg)

\* MUL sets CF and OF exactly when the product needs its upper half, as an 8086
\* does; IMUL exactly when it does not (8086.c:996).
CarryOfProducts ==
    \A reg \in {"al", "ax"} :
      LET mod  == Mod(IsWide(reg))
          half == mod \div 2
          s == Src(1)
          d == Register(reg, start.ax, start.dx)
          fits == Signed(d, mod) * Signed(s, mod) \in -half .. half - 1
      IN
      /\ Ran(<<"mul">>, <<reg>>) => flags.cf = (d * s >= mod) /\ flags.of = flags.cf
      /\ Ran(<<"imul">>, <<reg>>) => flags.cf = fits /\ flags.of = flags.cf

\* CMP of the low bytes, SBB of the high ones and JL decide the order of two words,
\* except for exactly the wrong answer where a borrow meets the largest positive high
\* byte: SBB adds it to the source before setOFSub() looks at the sign (8086.c:347).
WideComparison ==
    Ran(<<"cmp", "sbb">>, <<"al", "ah">>) =>
        LET less == Signed(start.ax, WordMod) < Signed(Wide(Src(2), Src(1)), WordMod)
            borrow == Low(start.ax) < Src(1)
        IN  Condition("l", flags) =
                (less # (borrow /\ Src(2) = ByteMod \div 2 - 1))

\* ZF and SF describe what the last instruction left, in the size of its operand;
\* after AAM and AAD they describe a word made of their operand instead, which is never
\* negative (8086.c:894-909).
ResultFlags ==
    LET last == code[pc]
        left == Get(last.reg)
        digits == last.op \in {"aam", "aad"}
        describes == \/ last.op \in (AluOps \ {"cmp"}) \cup {"inc", "dec", "neg", "daa", "das"}
                     \/ last.op \in {"shl", "shr", "sar"} /\ last.src > 0
    IN
    pc > 0 =>
        /\ describes => /\ flags.zf = (left = 0)
                        /\ flags.sf = (Signed(left, Mod(IsWide(last.reg))) < 0)
        /\ digits => flags.zf = (last.src = 0) /\ ~flags.sf
=============================================================================
