------------------------------- MODULE Stack86 -------------------------------
(***************************************************************************)
(* Everything that goes through push() and pop() of 8086.c: PUSH and POP,  *)
(* calls and returns, near and far, IRET, the flags as PUSHF, POPF, LAHF   *)
(* and SAHF pass them on, and the interrupts, which do not go through the  *)
(* stack at all: handleInterrupt() of sim86.c serves system calls in the   *)
(* emulator and ends it on everything else.                                *)
(*                                                                         *)
(* A program is the set of instructions it is made of; which of them comes *)
(* next is left open, so that recursive and mismatched calls are covered   *)
(* too.  The flags are the set of the numbers of the bits that are one.    *)
(***************************************************************************)
EXTENDS Memory86, Bits86

CONSTANTS
    Kept,       \* the bits PUSHF takes from the flags, 0x0fd7
    Forced,     \* those it sets, 0xf000
    Programs,   \* [ops, regs]: the instructions, and the registers pushed and popped
    Loaded,     \* what the loaders leave: [kind, sp, stackLow, readable]
    Segments,   \* segments of far calls, and what MOV loads into SS
    Targets,    \* offsets of jumps and calls
    Answers,    \* what system calls return
    Drops,      \* operands of RET and RETF
    MaxIP,      \* bound: the code ends there
    Stacks      \* bound: offsets of the stack pointer

VARIABLES
    ip, ax, sp,     \* registers; the segment registers are in sreg
    flags,
    kind,           \* which loader ran, and with it checkStack and handleSyscall
    stackLow,       \* e->t_stackLow
    uses,           \* the program
    status

stackVars == <<ip, ax, sp, flags, kind, stackLow, uses, status, memoryVars>>

\* Bit 1 of the flags is one on an 8086.
AlwaysOne == 1
FlagBits == {b \in 0 .. 15 : 2 ^ b < WordMod}
LowBits  == {b \in 0 .. 15 : 2 ^ b < ByteMod}

ASSUME StackAssumption ==
    /\ (\E width \in 2 .. 8 : ByteMod = 2 ^ width) /\ WordMod = ByteMod * ByteMod
    /\ Loaded \subseteq [kind : {"elks", "dos", "bin"}, sp : Word, stackLow : Nat,
                         readable : BOOLEAN]
    /\ AlwaysOne \in Kept /\ Kept \cup Forced \subseteq FlagBits
    /\ Forced \cap (LowBits \cup Kept) = {}
    /\ Segments \cup Targets \cup Answers \cup Drops \cup Stacks \subseteq Word

Bits(n)   == {b \in FlagBits : (n \div 2 ^ b) % 2 = 1}

Low(w)  == w % ByteMod
High(w) == w \div ByteMod

TypeOK ==
    /\ MemoryTypeOK
    /\ ip \in Word /\ ax \in Word /\ sp \in Word
    /\ flags \subseteq FlagBits
    /\ kind \in {"elks", "dos", "bin"}
    /\ stackLow \in Nat
    /\ uses \in Programs
    /\ status \in {"running", "runtimeError"}

-----------------------------------------------------------------------------
(* push() and pop().                                                         *)

\* checkStackElks(), checkStackDOS() and checkStackBinary(), for a new SP.
StackOverflow(newsp) ==
    LET address == sreg["SS"] * Para + newsp
    IN  /\ kind # "bin" /\ stackLow # 0
        /\ address < stackLow \/ (kind = "dos" /\ address = stackLow)

\* SP after n pushes, and whether one of them ends in runtimeError().
Pushed(n) == ToWord(sp - 2 * n)
PushRefused(n) ==
    \E i \in 1 .. n : StackOverflow(Pushed(i)) \/ ~CanWrite("SS", Pushed(i), 2)

\* Mutant: the low byte is not cut to a byte.
With_Uncut(m, seg, off, w) ==
    [m EXCEPT ![Address(seg, off)] = w, ![Address(seg, off + 1)] = High(w)]

\* Memory with a word stored in a segment.
With(m, seg, off, w) ==
    [m EXCEPT ![Address(seg, off)] = Low(w), ![Address(seg, off + 1)] = High(w)]
Readable(m, seg, off) ==
    [a \in Ram |-> IF a \in Span(seg, off, 2) THEN m[a] \cup {"fRead"} ELSE m[a]]

Push(w) ==
    /\ ~PushRefused(1)
    /\ sp' = Pushed(1)
    /\ ram' = With(ram, "SS", Pushed(1), w)
    /\ shadowRam' = Readable(shadowRam, "SS", Pushed(1))

\* Two calls of push().
PushBoth(w, v) ==
    /\ ~PushRefused(2)
    /\ sp' = Pushed(2)
    /\ ram' = With(With(ram, "SS", Pushed(1), w), "SS", Pushed(2), v)
    /\ shadowRam' = Readable(Readable(shadowRam, "SS", Pushed(1)), "SS", Pushed(2))

\* The word the i-th call of pop() returns, and SP after n of them.
PopRefused(n) == \E i \in 1 .. n : ~CanRead("SS", sp + 2 * (i - 1), 2)
Popped(i) ==
    LET off == sp + 2 * (i - 1)
    IN  ram[Address("SS", off)] + ByteMod * ram[Address("SS", off + 1)]
AfterPops(n) == ToWord(sp + 2 * n)

\* pop() writes nothing.
Pops(n) ==
    /\ ~PopRefused(n)
    /\ UNCHANGED <<ram, shadowRam>>

-----------------------------------------------------------------------------
(* The cases of executeInstruction().                                        *)

\* An instruction of length bytes is executed.
Executes(name, length) ==
    /\ status = "running"
    /\ name \in uses.ops
    /\ ip + length <= MaxIP
    /\ UNCHANGED <<kind, stackLow, uses, status>>

\* The offset of the next instruction.
After(length) == ToWord(ip + length)

\* PUSH rw, PUSH segreg: push()'s argument is evaluated before it moves SP.
Register(r) ==
    CASE r = "AX" -> ax [] r = "SP" -> sp [] OTHER -> sreg[r]
PushReg(r) ==
    /\ Executes("PUSH", 1) /\ r \in uses.regs
    /\ Push(Register(r))
    /\ ip' = After(1)
    /\ UNCHANGED <<ax, flags, sreg>>

\* POP rw: SP moves before the register is set, also when it is SP.
PopReg(r) ==
    /\ Executes("POP", 1) /\ r \in uses.regs
    /\ Pops(1)
    /\ ax' = IF r = "AX" THEN Popped(1) ELSE ax
    /\ sp' = IF r = "SP" THEN Popped(1) ELSE AfterPops(1)
    /\ ip' = After(1)
    /\ UNCHANGED <<flags, sreg>>

\* POP segreg; there is no POP CS.
PopSeg(r) ==
    /\ Executes("POP", 1) /\ r \in uses.regs
    /\ Pops(1)
    /\ sp' = AfterPops(1)
    /\ sreg' = [sreg EXCEPT ![r] = Popped(1)]
    /\ ip' = After(1)
    /\ UNCHANGED <<ax, flags>>

\* MOV [xv],AX in the stack segment, and MOV SP,iv and MOV SS,rmw.
StoreWord(off) ==
    /\ Executes("MOV", 3)
    /\ CanWrite("SS", off, 2)
    /\ ram' = With(ram, "SS", off, ax)
    /\ shadowRam' = Readable(shadowRam, "SS", off)
    /\ ip' = After(3)
    /\ UNCHANGED <<ax, sp, flags, sreg>>

SetStack(newss, newsp) ==
    /\ Executes("MOV", 2)
    /\ sreg' = [sreg EXCEPT !["SS"] = newss]
    /\ sp' = newsp
    /\ ip' = After(2)
    /\ UNCHANGED <<ax, flags, ram, shadowRam>>

\* CALL cw and CALL rmw.
CallNear(target) ==
    /\ Executes("CALL", 3)
    /\ Push(After(3))
    /\ ip' = target
    /\ UNCHANGED <<ax, flags, sreg>>

\* Mutant: the offset is pushed before the segment.
CallFar_Swapped(seg, target) ==
    /\ Executes("CALLF", 5)
    /\ PushBoth(After(5), sreg["CS"])
    /\ ip' = target
    /\ sreg' = [sreg EXCEPT !["CS"] = seg]
    /\ UNCHANGED <<ax, flags>>

\* CALL cp and CALL mp.
CallFar(seg, target) ==
    /\ Executes("CALLF", 5)
    /\ PushBoth(sreg["CS"], After(5))
    /\ ip' = target
    /\ sreg' = [sreg EXCEPT !["CS"] = seg]
    /\ UNCHANGED <<ax, flags>>

\* RET and RETF, and with an operand: it is fetched and added to SP after the pops.
Ret(drop) ==
    /\ Executes("RET", IF drop = 0 THEN 1 ELSE 3)
    /\ Pops(1)
    /\ ip' = Popped(1)
    /\ sp' = ToWord(AfterPops(1) + drop)
    /\ UNCHANGED <<ax, flags, sreg>>

RetFar(drop) ==
    /\ Executes("RETF", IF drop = 0 THEN 1 ELSE 3)
    /\ Pops(2)
    /\ ip' = Popped(1)
    /\ sreg' = [sreg EXCEPT !["CS"] = Popped(2)]
    /\ sp' = ToWord(AfterPops(2) + drop)
    /\ UNCHANGED <<ax, flags>>

Iret ==
    /\ Executes("IRET", 1)
    /\ Pops(3)
    /\ ip' = Popped(1)
    /\ sreg' = [sreg EXCEPT !["CS"] = Popped(2)]
    /\ flags' = Bits(Popped(3)) \cup {AlwaysOne}
    /\ sp' = AfterPops(3)
    /\ UNCHANGED ax

Pushf ==
    /\ Executes("PUSHF", 1)
    /\ Push(Number((flags \cap Kept) \cup Forced))
    /\ ip' = After(1)
    /\ UNCHANGED <<ax, flags, sreg>>

\* Mutant: a program can clear bit 1.
Popf_AsPopped ==
    /\ Executes("POPF", 1)
    /\ Pops(1)
    /\ flags' = Bits(Popped(1))
    /\ sp' = AfterPops(1)
    /\ ip' = After(1)
    /\ UNCHANGED <<ax, sreg>>

Popf ==
    /\ Executes("POPF", 1)
    /\ Pops(1)
    /\ flags' = Bits(Popped(1)) \cup {AlwaysOne}
    /\ sp' = AfterPops(1)
    /\ ip' = After(1)
    /\ UNCHANGED <<ax, sreg>>

\* All the bits of AH go into the flags, those that PUSHF and LAHF hide included.
Sahf ==
    /\ Executes("SAHF", 1)
    /\ flags' = (flags \ (LowBits \ {AlwaysOne})) \cup Bits(High(ax))
    /\ ip' = After(1)
    /\ UNCHANGED <<ax, sp, memoryVars>>

Lahf ==
    /\ Executes("LAHF", 1)
    /\ ax' = Low(ax) + ByteMod * Number(flags \cap LowBits \cap Kept)
    /\ ip' = After(1)
    /\ UNCHANGED <<sp, flags, memoryVars>>

\* CMC, STD, CLI and whatever else changes one of the flags of an 8086.
SetFlag(b) ==
    /\ Executes("CMC", 1)
    /\ flags' = (flags \cup {b}) \ (flags \cap {b})
    /\ ip' = After(1)
    /\ UNCHANGED <<ax, sp, memoryVars>>

Jump(target) ==
    /\ Executes("JMP", 2)
    /\ ip' = target
    /\ UNCHANGED <<ax, sp, flags, memoryVars>>

-----------------------------------------------------------------------------
(* Interrupts.                                                               *)

\* handleInterrupt() passes INT 0x80 and INT 0x21 to handleSyscall: that of ELKS
\* does not look at the number, that of DOS has none for 0x80, that of a binary has
\* none at all.
Served(intno) ==
    \/ kind = "elks" /\ intno \in {"0x80", "0x21"}
    \/ kind = "dos" /\ intno = "0x21"

\* DOS reports failure in CF.
Syscall(intno, answer) ==
    /\ Executes("INT", 2)
    /\ Served(intno)
    /\ ax' = answer
    /\ flags' \in IF kind = "dos" THEN {flags \cup {0}, flags \ {0}} ELSE {flags}
    /\ ip' = After(2)
    /\ UNCHANGED <<sp, memoryVars>>

RuntimeError ==
    /\ status = "running"
    /\ status' = "runtimeError"
    /\ UNCHANGED <<ip, ax, sp, flags, kind, stackLow, uses, memoryVars>>

\* INT 3, INTO whatever OF is, a divide error, a number that nobody serves: these any
\* program may have.
Trap(intno) == ~Served(intno) /\ RuntimeError

\* A push, a pop or a store that is refused.
AccessRefused ==
    /\ LET Uses(names) == uses.ops \cap names # {}
       IN  \/ Uses({"PUSH", "CALL", "PUSHF"}) /\ PushRefused(1)
           \/ Uses({"CALLF"}) /\ PushRefused(2)
           \/ Uses({"POP", "RET", "POPF"}) /\ PopRefused(1)
           \/ Uses({"RETF"}) /\ PopRefused(2)
           \/ Uses({"IRET"}) /\ PopRefused(3)
           \/ Uses({"MOV"}) /\ \E off \in Stacks : ~CanWrite("SS", off, 2)
    /\ RuntimeError

Exited == status = "runtimeError" /\ UNCHANGED stackVars

\* What the loaders leave.  All of the RAM here can be written, as the segment of a
\* stack can; loader-bin.c permits 0 to 0x1FFFF and 0xB0000 to 0xCFFFF and puts SP
\* at 0.  An access refused elsewhere ends the run, as one outside RAM does.
Init ==
    /\ ip = 0 /\ ax = 0
    /\ flags = Forced \cup {AlwaysOne}
    /\ \E l \in Loaded :
         /\ kind = l.kind /\ sp = l.sp /\ stackLow = l.stackLow
         /\ shadowRam = [a \in Ram |-> IF l.readable THEN {"fRead", "fWrite"} ELSE {"fWrite"}]
    /\ ram = [a \in Ram |-> 0]
    /\ sreg = [r \in Segs |-> 0]
    /\ uses \in Programs
    /\ status = "running"

\* What pushes, what takes words off the stack, what leaves for another stack, and
\* what does none of these.
Pushes ==
    \/ \E r \in Segs \cup {"AX", "SP"} : PushReg(r)
    \/ \E target \in Targets : CallNear(target)
    \/ \E seg \in Segments, target \in Targets : CallFar(seg, target)
    \/ Pushf
Takes ==
    \/ PopReg("AX")
    \/ \E r \in {"DS", "ES"} : PopSeg(r)
    \/ \E drop \in Drops \cup {0} : Ret(drop) \/ RetFar(drop)
    \/ Iret \/ Popf
Switches ==
    \/ PopReg("SP") \/ PopSeg("SS")
    \/ \E newss \in Segments, newsp \in Stacks : SetStack(newss, newsp)
Others ==
    \/ \E off \in Stacks : StoreWord(off)
    \/ \E target \in Targets : Jump(target)
    \/ Sahf \/ Lahf
    \/ \E b \in Kept \ {AlwaysOne} : SetFlag(b)
    \/ \E intno \in {"0x21", "0x80"}, answer \in Answers : Syscall(intno, answer)

Ends ==
    \/ \E intno \in {"0", "3", "4", "0x21", "0x80", "other"} : Trap(intno)
    \/ AccessRefused

Next ==
    \/ (Pushes \/ Takes \/ Switches \/ Others) /\ sp' \in Stacks
    \/ Ends \/ Exited

Spec == Init /\ [][Next]_stackVars
=============================================================================
