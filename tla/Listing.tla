------------------------------- MODULE Listing -------------------------------
(***************************************************************************)
(* Tracing a program: with -a, main() of sim86.c disassembles the          *)
(* instruction at CS:IP, looks the address it names up in the symbol table *)
(* and then executes it, again and again.  The disassembler reads the      *)
(* program's own memory through readByte() and works out the length, the   *)
(* next address and the target of a jump on its own; the emulator does the *)
(* same once more.  This module runs the two, and the symbol search, on the*)
(* same bytes.                                                             *)
(*                                                                         *)
(* What instructions do to registers and memory is left out, and so is an  *)
(* end of the program for other reasons than its code: a jump that depends *)
(* on a flag or on CX may go either way, and one through a register, the   *)
(* stack or memory goes to any of Entries.  Repetitions are in Cpu86.      *)
(***************************************************************************)
EXTENDS Decode86, Symbols

CONSTANTS
    Entries,    \* where jumps through registers, stack or memory lead
    TextSeg,    \* e.textseg, the only segment with code
    DataSeg     \* e.dataseg and DS

ASSUME ListingAssumption ==
    /\ \A a, b \in Byte : a + 256 * b < WordMod     \* a Word has two bytes
    /\ Entries \subseteq 0 .. WordMod - 1
    /\ TextSeg \in 1 .. WordMod - 1 /\ DataSeg \in 1 .. WordMod - 1 /\ TextSeg # DataSeg

VARIABLES
    text,       \* the readable bytes of the code segment, by offset
    cs, ip,
    phase,      \* which part of main()'s loop comes next
    line,       \* what disasm() has reported of the instruction being executed
    after,      \* where the emulator found its last instruction to end
    status

runVars == <<text, cs, ip, phase, line, after, status>>
vars == <<runVars, symbolsVars>>

Word == 0 .. WordMod - 1
ToWord(n) == n % WordMod
None == [seg |-> 0, at |-> -1]      \* no target

\* A text segment.
Code == \A o \in DOMAIN text : o \in Word /\ text[o] \in Byte

TypeOK ==
    /\ SymbolsTypeOK
    /\ Code
    /\ cs \in Word /\ ip \in Word /\ after \in -1 .. WordMod - 1
    /\ phase \in {"show", "execute"}
    /\ line.op \in Byte /\ line.m \in Byte
    /\ status \in {"running", "runtimeError"}

\* readByte() of a byte of code, and whether it returns.
Readable(n, off) == cs = TextSeg /\ \A i \in 0 .. n - 1 : ToWord(off + i) \in DOMAIN text
At(off) == IF Readable(1, off) THEN text[ToWord(off)] ELSE 0
WordAt(off) == At(off) + 256 * At(off + 1)
Signed(b) == IF b < 128 THEN b ELSE b - 256

Op == At(ip)
M  == At(ip + 1)

-----------------------------------------------------------------------------
(* disasm() with nextbyte_mem().  d->ip counts on past 0xffff.               *)

\* Mutant: a short jump is shown relative to its own start.
ShownTarget_FromStart(op, next) ==
    CASE op \in ShortJumps -> [seg |-> cs, at |-> ip + Signed(At(ip + 1))]
      [] op \in NearJumps  -> [seg |-> cs, at |-> ToWord(next + WordAt(ip + 1))]
      [] op \in FarJumps   -> [seg |-> WordAt(ip + 3), at |-> WordAt(ip + 1)]
      [] OTHER -> None

\* The address a jump is shown with; for a short jump it is not reduced to a Word.
ShownTarget(op, next) ==
    CASE op \in ShortJumps -> [seg |-> cs, at |-> next + Signed(At(ip + 1))]
      [] op \in NearJumps  -> [seg |-> cs, at |-> ToWord(next + WordAt(ip + 1))]
      [] op \in FarJumps   -> [seg |-> WordAt(ip + 3), at |-> WordAt(ip + 1)]
      [] OTHER -> None

\* The address getsymbol() is asked for: that of a jump other than a short one, or
\* of an operand that the instruction names directly.
Named(op, m, next) ==
    LET operand == Flags(op, m) \cap {"OPS2", "RM"} # {} /\ op \notin \hec .. \hef
        near == op \in NearJumps \/ op \in FarJumps
    IN  CASE near -> ShownTarget(op, next)
          [] FarIndirect(op, m) -> [seg |-> cs, at |-> WordAt(ip + 2)]
          [] operand /\ Mod(m) = 0 /\ RM(m) = 6 ->
               [seg |-> DataSeg, at |-> WordAt(ip + 2)]
          [] "MEMWORD" \in Flags(op, m) -> [seg |-> DataSeg, at |-> WordAt(ip + 1)]
          [] OTHER -> None

\* The section getsymbol() looks in; the loaders leave ftextseg zero.
SectionOf(seg) == IF seg = DataSeg THEN "data" ELSE "text"

Show ==
    /\ status = "running" /\ phase = "show"
    /\ LET next == ip + ShownLength(Op, M)
           named == Named(Op, M, next)
       IN  /\ Readable(next - ip, ip)
           /\ line' = [op |-> Op, m |-> M, next |-> next, target |-> ShownTarget(Op, next)]
           /\ IF named = None
                THEN /\ search' = "none"
                     /\ UNCHANGED <<syms, addr, section, lastp, p>>
                ELSE Lookup(named.at, SectionOf(named.seg))
    /\ phase' = "execute"
    /\ UNCHANGED <<text, cs, ip, after, status>>

ShowFails ==
    /\ status = "running" /\ phase = "show"
    /\ ~Readable(ShownLength(Op, M), ip)
    /\ status' = "runtimeError"
    /\ UNCHANGED <<text, cs, ip, phase, line, after, symbolsVars>>

SearchName ==
    /\ SearchStep
    /\ UNCHANGED runVars

-----------------------------------------------------------------------------
(* executeInstruction().                                                     *)

\* Mutant: the offset runs past the end of the segment, as d->ip does.
NextIP_RunsPast == ip + Length(Op, M)

NextIP == ToWord(ip + Length(Op, M))
Completes == Readable(Length(Op, M), ip) /\ ~Invalid(Op, M) /\ ~Trap(Op)

\* The executed instruction ends at NextIP, and the loop goes on.
Executed ==
    /\ status = "running" /\ phase = "execute" /\ ~Searching
    /\ Completes
    /\ after' = NextIP
    /\ phase' = "show"
    /\ UNCHANGED <<text, line, status, symbolsVars>>

FallThrough ==
    /\ MayFallThrough(Op, M)
    /\ Executed
    /\ ip' = NextIP
    /\ UNCHANGED cs

Jump ==
    /\ Executed
    /\ \/ /\ Op \in ShortJumps
          /\ ip' = ToWord(NextIP + Signed(At(ip + 1)))
          /\ UNCHANGED cs
       \/ /\ Op \in NearJumps
          /\ ip' = ToWord(NextIP + WordAt(ip + 1))
          /\ UNCHANGED cs
       \/ /\ Op \in FarJumps
          /\ ip' = WordAt(ip + 1) /\ cs' = WordAt(ip + 3)
       \/ /\ Indirect(Op, M)
          /\ ip' \in Entries
          /\ UNCHANGED cs

ExecuteFails ==
    /\ status = "running" /\ phase = "execute" /\ ~Searching
    /\ ~Completes
    /\ status' = "runtimeError"
    /\ UNCHANGED <<text, cs, ip, phase, line, after, symbolsVars>>

\* The process has exited.
Exited == status = "runtimeError" /\ UNCHANGED vars

Init ==
    /\ SymbolsInit
    /\ Code
    /\ cs = TextSeg /\ ip \in Word
    /\ phase = "show" /\ status = "running"
    /\ line = [op |-> 0, m |-> 0, next |-> 0, target |-> None]
    /\ after = -1

Next == Show \/ ShowFails \/ SearchName \/ FallThrough \/ Jump \/ ExecuteFails \/ Exited

\* main() loops for ever, and sym_string() until it has an answer.
Spec == Init /\ [][Next]_vars /\ WF_vars(Next)

-----------------------------------------------------------------------------
\* A line of the trace ends where the emulator ends the instruction, exactly but for
\* those that the disassembler is known to list short or long (disasm.c:532-536 and
\* its far jumps through memory): a jump that is not taken, a return address and the
\* next line are all at the place shown.
LengthsAgree ==
    phase = "show" /\ after # -1 =>
        (after = ToWord(line.next) <=> ~Mislisted(line.op, line.m))

\* A jump with an address in the code goes where the line says, exactly unless it is a
\* short one that leaves the segment at one end and enters it at the other.
TargetsAgree ==
    [][Jump /\ line.target # None =>
         (line.target = [seg |-> cs', at |-> ip'] <=>
            line.target.at \in Word)]_vars

\* Tracing ends no program: where the disassembler cannot read what it needs, the
\* instruction could not have been executed either, except for the far jumps through
\* memory, of which it reads two bytes that need not be there.
TraceHarmless ==
    [][ShowFails => ~Completes \/ FarIndirect(Op, M)]_vars

\* Six bytes have room in the column in which a line shows them (disasm.c:199,
\* discolor.c:97).
FitsColumn == phase = "execute" => line.next - ip \in 1 .. 6
=============================================================================
