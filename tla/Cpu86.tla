-------------------------------- MODULE Cpu86 --------------------------------
(***************************************************************************)
(* The instruction loop: main() of sim86.c calls executeInstruction() of   *)
(* 8086.c for ever.  One call executes one prefix byte, one instruction,   *)
(* or one repetition of a string instruction; what a prefix or a           *)
(* repetition leaves for the next call lives in the globals prefix, rep,   *)
(* segmentOverride, segment, repeating and opcode.  This module models     *)
(* that protocol for every instruction that takes part in it: segment      *)
(* overrides, REP prefixes, the string instructions, the direction flag,   *)
(* the other users of the default segment (MOV accumulator and XLATB) and  *)
(* the jumps, over memory that instructions may modify.                    *)
(*                                                                         *)
(* An opcode byte means what Decode says; the jump table of the switch is  *)
(* the constant.  Arithmetic flags other than ZF and DF, which no          *)
(* instruction of the module reads, are left out.                          *)
(***************************************************************************)
EXTENDS Memory86

CONSTANT Decode     \* [Byte -> Instructions], the cases of the switch

VARIABLES
    ip, ac, bx, cx, si, di,     \* registers; ac is <<AL, AH>>
    zf, df,                     \* flags
    opcode,                     \* byte being executed, kept while repeating
    prefix,                     \* the last call executed a prefix
    rep,                        \* REP prefix in force: 0, 1 (F2) or 2 (F3)
    repeating,                  \* the next call repeats opcode
    segmentOverride,            \* "none" is the code's -1
    segment,                    \* default segment of the last address formed
    lastIP,                     \* main()'s: where the disassembler looks
    status                      \* runtimeError() ends the process

regs    == <<ip, ac, bx, cx, si, di>>
flags   == <<zf, df>>
control == <<opcode, prefix, rep, repeating, segmentOverride, segment>>
vars    == <<regs, flags, control, lastIP, status, memoryVars>>

StringOps   == {"movs", "cmps", "stos", "lods", "scas"}
ComparesOps == {"cmps", "scas"}
JumpOps     == {"jmp", "jz", "jnz", "loop", "loopz", "loopnz", "jcxz"}
Instructions ==
    [op : {"es", "cs", "ss", "ds", "repnz", "repz", "cld", "std", "xlat", "invalid"}
            \cup JumpOps, width : {1}]
        \cup [op : StringOps \cup {"load", "store"}, width : {1, 2}]

ASSUME CpuAssumption == Decode \in [Byte -> Instructions]

SegmentPrefix == [es |-> "ES", cs |-> "CS", ss |-> "SS", ds |-> "DS"]
RepPrefix     == [repnz |-> 1, repz |-> 2]

TypeOK ==
    /\ MemoryTypeOK
    /\ ip \in Word /\ lastIP \in Word
    /\ ac \in Byte \X Byte
    /\ bx \in Word /\ cx \in Word /\ si \in Word /\ di \in Word
    /\ zf \in BOOLEAN /\ df \in BOOLEAN
    /\ opcode \in Byte
    /\ prefix \in BOOLEAN /\ repeating \in BOOLEAN
    /\ rep \in 0 .. 2
    /\ segmentOverride \in Segs \cup {"none"}
    /\ segment \in Segs
    /\ status \in {"running", "runtimeError"}

-----------------------------------------------------------------------------
(* What initMachine(), the loader and initExecute() leave to the loop: the   *)
(* globals are fixed, the registers and the memory are the loader's.         *)
Init ==
    /\ MemoryTypeOK
    /\ ip \in Word /\ lastIP = ip
    /\ ac \in Byte \X Byte
    /\ bx \in Word /\ cx \in Word /\ si \in Word /\ di \in Word
    /\ zf \in BOOLEAN /\ df \in BOOLEAN
    /\ opcode = 0
    /\ prefix = FALSE /\ repeating = FALSE
    /\ rep = 0
    /\ segmentOverride = "none"
    /\ segment = "ES"
    /\ status = "running"

-----------------------------------------------------------------------------
(* The head of executeInstruction(): a repetition goes on with the cached    *)
(* opcode; otherwise the effect of older prefixes ends unless the last call  *)
(* was a prefix, and the opcode byte is fetched.                             *)
Continues  == repeating \/ prefix

\* Mutant: the override of an earlier instruction is not cleared.
Override_Sticky == segmentOverride

Override   == IF Continues THEN segmentOverride ELSE "none"
Rep        == IF Continues THEN rep ELSE 0
Fetchable  == repeating \/ CanRead("CS", ip, 1)
Opcode     == IF repeating THEN opcode ELSE ram[Address("CS", ip)]
NextIP     == IF repeating THEN ip ELSE ToWord(ip + 1)
Op         == Decode[Opcode].op
Width      == Decode[Opcode].width

\* A REP prefix is in force and the opcode is not a string instruction.
RepRefused == Rep # 0 /\ Op \notin StringOps

\* The head succeeds and the switch comes to one of these cases.
Fetched(ops) ==
    /\ status = "running"
    /\ Fetchable
    /\ ~RepRefused
    /\ Op \in ops
    /\ opcode' = Opcode
    /\ UNCHANGED status

\* What is left in the globals after a case that does not touch them.
Done ==
    /\ prefix' = FALSE
    /\ rep' = Rep
    /\ segmentOverride' = Override
    /\ UNCHANGED repeating

\* Mutant: show an instruction from its first prefix byte on.
NoteIP_FirstByte == lastIP' = IF repeating' \/ prefix' THEN lastIP ELSE ip'

\* The end of main()'s loop body, with the ip and repeating of the step.
NoteIP == lastIP' = IF repeating' THEN lastIP ELSE ip'

SegmentOverride ==
    /\ Fetched({"es", "cs", "ss", "ds"})
    /\ segmentOverride' = SegmentPrefix[Op]
    /\ prefix' = TRUE
    /\ rep' = Rep
    /\ ip' = NextIP
    /\ UNCHANGED <<repeating, segment, ac, bx, cx, si, di, flags, memoryVars>>
    /\ NoteIP

Repeat ==
    /\ Fetched({"repnz", "repz"})
    /\ rep' = RepPrefix[Op]
    /\ prefix' = TRUE
    /\ segmentOverride' = Override
    /\ ip' = NextIP
    /\ UNCHANGED <<repeating, segment, ac, bx, cx, si, di, flags, memoryVars>>
    /\ NoteIP

-----------------------------------------------------------------------------
(* String instructions.                                                      *)
StringIncrement == IF df THEN -Width ELSE Width

\* The segment an access with seg = -1 uses, for a default segment.
Effective(default) == IF Override = "none" THEN default ELSE Override

\* getAccum() and setAccum(): AL, or AX when the instruction is wide.
Accum == IF Width = 1 THEN <<ac[1]>> ELSE ac
SetAccum(cells) == ac' = IF Width = 1 THEN <<cells[1], ac[2]>> ELSE cells

\* The body of a string instruction is skipped when REP finds CX zero.
Skips == Rep # 0 /\ cx = 0

AdvanceSI == si' = ToWord(si + StringIncrement)
AdvanceDI == di' = ToWord(di + StringIncrement)

\* Mutants: CX is decremented without a test for zero; it is tested before it is
\* decremented only; it is not decremented.
DoRep_Unguarded(compares) ==
    /\ compares \/ Rep # 1
    /\ prefix' = FALSE
    /\ rep' = Rep
    /\ segmentOverride' = Override
    /\ IF Rep = 0
         THEN UNCHANGED <<cx, repeating>>
         ELSE /\ cx' = cx - 1
              /\ repeating' = (cx' # 0 /\ (~compares \/ zf' # (Rep = 1)))

DoRep_TestsFirst(compares) ==
    /\ compares \/ Rep # 1
    /\ prefix' = FALSE
    /\ rep' = Rep
    /\ segmentOverride' = Override
    /\ IF Rep = 0 \/ cx = 0
         THEN UNCHANGED <<cx, repeating>>
         ELSE /\ cx' = cx - 1
              /\ repeating' = (~compares \/ zf' # (Rep = 1))

DoRep_KeepsCX(compares) ==
    /\ compares \/ Rep # 1
    /\ prefix' = FALSE
    /\ rep' = Rep
    /\ segmentOverride' = Override
    /\ IF Rep = 0 \/ cx = 0
         THEN UNCHANGED <<cx, repeating>>
         ELSE /\ cx' = cx
              /\ repeating' = (cx' # 0 /\ (~compares \/ zf' # (Rep = 1)))

\* doRep(), after the body has set zf'.
DoRep(compares) ==
    /\ compares \/ Rep # 1
    /\ prefix' = FALSE
    /\ rep' = Rep
    /\ segmentOverride' = Override
    /\ IF Rep = 0 \/ cx = 0
         THEN UNCHANGED <<cx, repeating>>
         ELSE /\ cx' = cx - 1
              /\ repeating' = (cx' # 0 /\ (~compares \/ zf' # (Rep = 1)))

\* What every string instruction ends with, after its body.
EndString(compares) ==
    /\ ip' = NextIP
    /\ DoRep(compares)
    /\ NoteIP
    /\ UNCHANGED <<bx, df>>

\* A string instruction under REP with CX zero: nothing happens.
StringSkip ==
    /\ Fetched(StringOps)
    /\ Skips
    /\ UNCHANGED <<ac, si, di, zf, segment, memoryVars>>
    /\ EndString(Op \in ComparesOps)

Movs ==
    /\ Fetched({"movs"})
    /\ ~Skips
    /\ CanRead(Effective("DS"), si, Width)
    /\ CanWrite("ES", di, Width)
    /\ Store("ES", di, Contents(Effective("DS"), si, Width))
    /\ segment' = "DS"
    /\ AdvanceSI /\ AdvanceDI
    /\ UNCHANGED <<ac, zf>>
    /\ EndString(FALSE)

Cmps ==
    /\ Fetched({"cmps"})
    /\ ~Skips
    /\ CanRead(Effective("DS"), si, Width)
    /\ CanRead("ES", di, Width)
    /\ zf' = (Contents(Effective("DS"), si, Width) = Contents("ES", di, Width))
    /\ segment' = "DS"
    /\ AdvanceSI /\ AdvanceDI
    /\ UNCHANGED <<ac, memoryVars>>
    /\ EndString(TRUE)

Stos ==
    /\ Fetched({"stos"})
    /\ ~Skips
    /\ CanWrite("ES", di, Width)
    /\ Store("ES", di, Accum)
    /\ AdvanceDI
    /\ UNCHANGED <<ac, si, zf, segment>>
    /\ EndString(FALSE)

Lods ==
    /\ Fetched({"lods"})
    /\ ~Skips
    /\ CanRead(Effective("DS"), si, Width)
    /\ SetAccum(Contents(Effective("DS"), si, Width))
    /\ segment' = "DS"
    /\ AdvanceSI
    /\ UNCHANGED <<di, zf, memoryVars>>
    /\ EndString(FALSE)

Scas ==
    /\ Fetched({"scas"})
    /\ ~Skips
    /\ CanRead("ES", di, Width)
    /\ zf' = (Accum = Contents("ES", di, Width))
    /\ AdvanceDI
    /\ UNCHANGED <<ac, si, segment, memoryVars>>
    /\ EndString(TRUE)

-----------------------------------------------------------------------------
(* The other users of the default segment.                                   *)

\* fetchWord(): the direct address after the opcode.
Direct ==
    ToWord(ram[Address("CS", NextIP)] + ByteMod * ram[Address("CS", NextIP + 1)])

\* MOV accum,xv
Load ==
    /\ Fetched({"load"})
    /\ CanRead("CS", NextIP, 2)
    /\ CanRead(Effective("DS"), Direct, Width)
    /\ SetAccum(Contents(Effective("DS"), Direct, Width))
    /\ segment' = "DS"
    /\ ip' = ToWord(NextIP + 2)
    /\ Done /\ NoteIP
    /\ UNCHANGED <<bx, cx, si, di, flags, memoryVars>>

\* MOV xv,accum
StoreAccum ==
    /\ Fetched({"store"})
    /\ CanRead("CS", NextIP, 2)
    /\ CanWrite(Effective("DS"), Direct, Width)
    /\ Store(Effective("DS"), Direct, Accum)
    /\ segment' = "DS"
    /\ ip' = ToWord(NextIP + 2)
    /\ Done /\ NoteIP
    /\ UNCHANGED <<ac, bx, cx, si, di, flags>>

\* XLATB reads with seg = -1 and sets no default segment.
Xlat ==
    /\ Fetched({"xlat"})
    /\ CanRead(Effective(segment), bx + ac[1], 1)
    /\ ac' = <<ram[Address(Effective(segment), bx + ac[1])], ac[2]>>
    /\ ip' = NextIP
    /\ Done /\ NoteIP
    /\ UNCHANGED <<segment, bx, cx, si, di, flags, memoryVars>>

\* CLD and STD
SetDirection ==
    /\ Fetched({"cld", "std"})
    /\ df' = (Op = "std")
    /\ ip' = NextIP
    /\ Done /\ NoteIP
    /\ UNCHANGED <<segment, ac, bx, cx, si, di, zf, memoryVars>>

\* Short jumps: LOOPcc counts CX down first and leaves the flags alone.
SignExtend(b) == IF b < ByteMod \div 2 THEN b ELSE b - ByteMod
CountedCX == IF Op \in {"loop", "loopz", "loopnz"} THEN ToWord(cx - 1) ELSE cx
Taken ==
    CASE Op = "jmp"    -> TRUE
      [] Op = "jz"     -> zf
      [] Op = "jnz"    -> ~zf
      [] Op = "jcxz"   -> cx = 0
      [] Op = "loop"   -> CountedCX # 0
      [] Op = "loopz"  -> CountedCX # 0 /\ zf
      [] Op = "loopnz" -> CountedCX # 0 /\ ~zf

JumpShort ==
    /\ Fetched(JumpOps)
    /\ CanRead("CS", NextIP, 1)
    /\ cx' = CountedCX
    /\ ip' = ToWord(NextIP + 1
                      + (IF Taken THEN SignExtend(ram[Address("CS", NextIP)]) ELSE 0))
    /\ Done /\ NoteIP
    /\ UNCHANGED <<segment, ac, bx, si, di, flags, memoryVars>>

-----------------------------------------------------------------------------
(* runtimeError(): the process exits, so nothing else can be seen to change. *)
AccessRefused ==
    \/ Op \in {"movs", "cmps", "lods"} /\ ~Skips
         /\ ~CanRead(Effective("DS"), si, Width)
    \/ Op \in {"cmps", "scas"} /\ ~Skips /\ ~CanRead("ES", di, Width)
    \/ Op \in {"movs", "stos"} /\ ~Skips /\ ~CanWrite("ES", di, Width)
    \/ Op \in {"load", "store"} /\ ~CanRead("CS", NextIP, 2)
    \/ Op = "load" /\ CanRead("CS", NextIP, 2)
         /\ ~CanRead(Effective("DS"), Direct, Width)
    \/ Op = "store" /\ CanRead("CS", NextIP, 2)
         /\ ~CanWrite(Effective("DS"), Direct, Width)
    \/ Op = "xlat" /\ ~CanRead(Effective(segment), bx + ac[1], 1)
    \/ Op \in JumpOps /\ ~CanRead("CS", NextIP, 1)

RuntimeError ==
    /\ status = "running"
    /\ \/ ~Fetchable
       \/ Fetchable /\ \/ RepRefused
                       \/ AccessRefused
                       \/ Op = "invalid"
                       \/ Op \in StringOps \ ComparesOps /\ Rep = 1
    /\ status' = "runtimeError"
    /\ UNCHANGED <<regs, flags, control, lastIP, memoryVars>>

\* After exit(1) there is nothing left to run.
Exited == status = "runtimeError" /\ UNCHANGED vars

Next ==
    \/ SegmentOverride \/ Repeat
    \/ StringSkip \/ Movs \/ Cmps \/ Stos \/ Lods \/ Scas
    \/ Load \/ StoreAccum \/ Xlat \/ SetDirection \/ JumpShort
    \/ RuntimeError \/ Exited

\* main() calls executeInstruction() in for(;;): a step that can be taken is.
Spec == Init /\ [][Next]_vars /\ WF_vars(Next)

-----------------------------------------------------------------------------
(* Properties.                                                               *)

\* While a repetition is pending, everything executeInstruction() will rely on
\* still holds: a REP prefix is in force, CX has not run out, the cached opcode
\* is a string instruction that the prefix allows, no prefix byte is pending,
\* and ip has moved exactly past the opcode, so that main() still shows it.
\* Otherwise main() shows the byte that will be fetched next.
RepeatProtocol ==
    /\ repeating =>
         /\ rep # 0 /\ cx # 0 /\ ~prefix
         /\ Decode[opcode].op \in StringOps
         /\ rep = 1 => Decode[opcode].op \in ComparesOps
         /\ ip = ToWord(lastIP + 1)
    /\ ~repeating => lastIP = ip

\* The disassembler reads memory, the CPU its cached opcode: while a string
\* instruction in write-protected code repeats, both see the same byte.
ShownIsExecuted ==
    repeating /\ "fWrite" \notin shadowRam[Address("CS", lastIP)]
        => ram[Address("CS", lastIP)] = opcode

\* Whatever the program does, a byte only changes if the loader made it
\* writable, and the only permission a step ever grants is to read back a byte
\* that the program may write.
MemoryProtection ==
    [][\A a \in Ram :
         /\ ram'[a] # ram[a] => "fWrite" \in shadowRam[a]
         /\ shadowRam'[a] # shadowRam[a] =>
              /\ "fWrite" \in shadowRam[a]
              /\ shadowRam'[a] = shadowRam[a] \cup {"fRead"}]_vars

\* Each repetition counts CX down and ip stands still, so a repeated string
\* instruction always comes to an end.
RepetitionEnds == repeating ~> ~repeating \/ status = "runtimeError"

\* disasm.c:542 and opcodes.S give XLATB its operand as %ds:(%bx): without an
\* override the byte it loads into AL comes from the DS segment.
XlatReadsDS ==
    [][status = "running" /\ ~prefix /\ Xlat
         => ac'[1] = ram[Address("DS", bx + ac[1])]]_vars
=============================================================================
