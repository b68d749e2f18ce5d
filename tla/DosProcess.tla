----------------------------- MODULE DosProcess -----------------------------
(***************************************************************************)
(* A DOS program from its file to its stack: loadExecutableDOS() with the  *)
(* tables it writes for the program (loader-dos.c), the permissions it     *)
(* gives out, and push() and pop() under checkStackDOS() (syscall-dos.c).  *)
(*                                                                         *)
(* RAM from the bottom: tables of the BIOS, the environment, the PSP, and  *)
(* at LoadSegment the file: for an .exe its header and its image, for a    *)
(* .com the image alone.  The stack may be anywhere from there on.  At the *)
(* top of RAM are tables of the BIOS again.  What bytes hold is not        *)
(* modelled.                                                               *)
(***************************************************************************)
EXTENDS Shadow86

CONSTANTS
    LoadSegment,            \* the segment the file is read to: 0x1000
    EnvParas, PspParas,     \* paragraphs of the environment and the PSP: 0xc, 0x10
    TailAt,                 \* where the command tail starts in the PSP: 0x81
    PspFields,              \* the other bytes of the PSP that are written
    Bios,                   \* the addresses load_bios_values() permits
    BiosFields,             \* and those of them it writes
    Block,                  \* bytes in a page of an .exe: 512
    ExeMin, ComMax, ComSP,  \* 0x21, 0xff00, 0xFFFE
    Exes,                   \* headers of .exe files
    Coms,                   \* sizes of .com files
    Names, Tails,           \* lengths of the program's name and of its arguments
    StackPointers, StackSegments,   \* what the program loads into SP, SS and ES
    Sizes, CodeOffsets              \* BX and IP at a call that resizes a block

ExeHeaders ==
    [filesize : Nat, cp : Word, cblp : Word, cparhdr : Word,
     cs : Word, ss : Word, sp : Word, relocs : SUBSET (Word \X Word)]

ASSUME DosAssumption ==
    /\ WordMod % 2 = 0
    /\ EnvParas \in Nat /\ PspParas \in Nat /\ TailAt \in Nat \ {0}
    /\ TailAt < PspParas * Para
    /\ PspFields \subseteq 0 .. PspParas * Para - 1
    /\ LoadSegment \in Word /\ EnvParas + PspParas <= LoadSegment
    /\ Bios \subseteq Ram /\ BiosFields \subseteq Bios /\ Block \in Nat /\ ExeMin \in Nat
    /\ ComMax \in Word /\ ComSP \in Word
    /\ Exes \subseteq ExeHeaders /\ Coms \subseteq Nat
    /\ Names \subseteq Nat \ {0} /\ Tails \subseteq Nat
    /\ StackPointers \subseteq Word /\ StackSegments \subseteq Word
    /\ Sizes \cup CodeOffsets \subseteq Word

VARIABLES
    phase,      \* "start"; "refused" by loadError() or "unrelocated", by
                \* runtimeError(), in the loader; "running"; "exited"
    program,    \* the file, the length of its name and of its arguments
    sp,         \* register SP
    t_stackLow, \* the lowest SS:SP allowed; 0: not checked
    wrote       \* observer: the addresses the last step pushed to

vars == <<phase, program, sp, t_stackLow, wrote, shadowRam, sreg>>

-----------------------------------------------------------------------------
(* write_environ(): the environment and the PSP below the program.           *)

EnvBase == (LoadSegment - PspParas - EnvParas) * Para
PspBase == (LoadSegment - PspParas) * Para
LoadBase == LoadSegment * Para

\* The name is checked as its bytes are written, the terminator is not.
NameFits(n) == n + 3 < EnvParas * Para

\* Mutant: the carriage return after the arguments is forgotten.
TailFits_NoReturn(n) == TailAt + n <= PspParas * Para

\* The position after the arguments is checked, before the carriage return is
\* written there; without arguments it is not.
TailFits(n) == n = 0 \/ TailAt + n <= PspParas * Para - 1

\* The addresses written: three bytes, the name and its terminator, the fields
\* of the PSP, and the arguments with their length before and a carriage return.
Tables(name, tail) ==
    (EnvBase .. EnvBase + name + 4)
      \cup {PspBase + i : i \in PspFields \cup (TailAt - 1) .. (TailAt + tail)}

-----------------------------------------------------------------------------
(* The header of an .exe, which counts in pages and paragraphs.              *)

ExeLength(x) == (x.cp - (IF x.cblp = 0 THEN 0 ELSE 1)) * Block + x.cblp
HeaderLength(x) == ToWord(x.cparhdr * Para)

Corrupt(x) ==
    \/ ExeLength(x) > x.filesize
    \/ HeaderLength(x) > x.filesize
    \/ HeaderLength(x) > ExeLength(x)

ImageSegment(x) == ToWord(LoadSegment + x.cparhdr)
ImageLength(x)  == ExeLength(x) - HeaderLength(x)

\* Mutant: the sum is kept in an int.
StackSegment_Int(x) == ImageSegment(x) + x.ss

StackSegment(x) == ToWord(ImageSegment(x) + x.ss)

\* Mutant: only the paragraph at SS:0 is kept free.
StackLow_NoImage(x) ==
    LET low == (StackSegment(x) + 1) * Para
    IN  IF low > StackSegment(x) * Para + x.sp THEN 0 ELSE low

\* The image rounded up to a paragraph, at least a paragraph above SS:0, and no
\* check at all if that is above the initial stack pointer.
StackLow(x) ==
    LET image == ((ImageLength(x) + Para - 1) \div Para + ImageSegment(x)) * Para
        least == (StackSegment(x) + 1) * Para
        low   == IF image < least THEN least ELSE image
    IN  IF low > StackSegment(x) * Para + x.sp THEN 0 ELSE low

\* Nothing but the environment and the PSP can be read when relocations are done.
BeforeLoad ==
    Permit(Permit([a \in Ram |-> {}], EnvBase, EnvParas * Para, {"fRead"}),
           PspBase, PspParas * Para, {"fRead"})

\* Where a relocation says that a word is, and whether that can be relocated: it
\* is read, then written, and writing is not checked yet.
RelocatedByte(x, r, i) == ToWord(ImageSegment(x) + r[1]) * Para + ToWord(r[2] + i)

Relocatable(x, r) ==
    \A i \in {0, 1} :
        /\ RelocatedByte(x, r, i) < RamSize
        /\ "fRead" \in BeforeLoad[RelocatedByte(x, r, i)]

\* Mutant: the BIOS tables get their permission before the program does.
Permissions_BiosFirst(imageBase, imageLength, stackBase, stackLength) ==
    Permit(Permit([a \in Ram |-> IF a \in Bios THEN {"fRead"} ELSE BeforeLoad[a]],
                  imageBase, imageLength, Flag),
           stackBase, stackLength, Flag)

\* The order of the calls of setShadowFlags(): the image, the stack, the BIOS.
Permissions(imageBase, imageLength, stackBase, stackLength) ==
    LET loaded == Permit(Permit(BeforeLoad, imageBase, imageLength, Flag),
                         stackBase, stackLength, Flag)
    IN  [a \in Ram |-> IF a \in Bios THEN {"fRead"} ELSE loaded[a]]

-----------------------------------------------------------------------------
(* The loader.                                                               *)

NoProgram == [kind |-> "none"]
Exe(x, name, tail) == [kind |-> "exe", file |-> x, name |-> name, tail |-> tail]
Com(n, name, tail) == [kind |-> "com", file |-> n, name |-> name, tail |-> tail]

Programs ==
    {Exe(x, name, tail) : x \in Exes, name \in Names, tail \in Tails}
      \cup {Com(n, name, tail) : n \in Coms, name \in Names, tail \in Tails}

FileSize(p) == IF p.kind = "exe" THEN p.file.filesize ELSE p.file

\* The checks that end in loadError().
Refused(p) ==
    \/ FileSize(p) > RamSize - LoadBase
    \/ ~NameFits(p.name)
    \/ ~TailFits(p.tail)
    \/ p.kind = "exe" /\ (FileSize(p) < ExeMin \/ Corrupt(p.file))
    \/ p.kind = "com" /\ FileSize(p) > ComMax

Init ==
    /\ phase = "start"
    /\ program = NoProgram
    /\ sp = 0 /\ t_stackLow = 0 /\ wrote = {}
    /\ shadowRam = [a \in Ram |-> {}]
    /\ sreg = [s \in Segs |-> 0]

LoadExe(p) ==
    /\ phase = "start" /\ p.kind = "exe" /\ ~Refused(p)
    /\ \A r \in p.file.relocs : Relocatable(p.file, r)
    /\ phase' = "running" /\ program' = p
    /\ sp' = p.file.sp
    /\ sreg' = [ES |-> LoadSegment - PspParas, DS |-> LoadSegment - PspParas,
                CS |-> ToWord(p.file.cs + ImageSegment(p.file)),
                SS |-> StackSegment(p.file)]
    /\ t_stackLow' = StackLow(p.file)
    /\ shadowRam' = Permissions(ImageSegment(p.file) * Para, ImageLength(p.file),
                                StackSegment(p.file) * Para, p.file.sp)
    /\ wrote' = {}

LoadCom(p) ==
    /\ phase = "start" /\ p.kind = "com" /\ ~Refused(p)
    /\ phase' = "running" /\ program' = p
    /\ sp' = ComSP
    /\ sreg' = [s \in Segs |-> IF s = "ES" THEN LoadSegment - PspParas ELSE LoadSegment]
    /\ t_stackLow' = LoadBase + p.file
    /\ shadowRam' = Permissions(LoadBase, p.file, LoadBase, ComSP)
    /\ wrote' = {}

LoadError(p) ==
    /\ phase = "start" /\ Refused(p)
    /\ phase' = "refused" /\ program' = p
    /\ UNCHANGED <<sp, t_stackLow, wrote, shadowRam, sreg>>

\* runtimeError() while an .exe is relocated.
RelocationError(p) ==
    /\ phase = "start" /\ p.kind = "exe" /\ ~Refused(p)
    /\ \E r \in p.file.relocs : ~Relocatable(p.file, r)
    /\ phase' = "unrelocated" /\ program' = p
    /\ UNCHANGED <<sp, t_stackLow, wrote, shadowRam, sreg>>

-----------------------------------------------------------------------------
(* The program.                                                              *)

Exit ==
    /\ phase' = "exited"
    /\ wrote' = {}
    /\ UNCHANGED <<program, sp, t_stackLow, shadowRam, sreg>>

\* checkStackDOS(): true on overflow.
StackOverflow(newsp) == t_stackLow # 0 /\ Address("SS", newsp) <= t_stackLow

\* push(): PUSH, CALL and the other instructions that push.
Push ==
    /\ phase = "running"
    /\ LET newsp == ToWord(sp - 2) IN
         IF StackOverflow(newsp) \/ ~CanWrite("SS", newsp, 2)
           THEN Exit
           ELSE /\ sp' = newsp
                /\ wrote' = Span("SS", newsp, 2)
                /\ shadowRam' = Granted("SS", newsp, 2)
                /\ UNCHANGED <<phase, program, t_stackLow, sreg>>

\* pop(): no check but that the word can be read.
Pop ==
    /\ phase = "running"
    /\ IF ~CanRead("SS", sp, 2)
         THEN Exit
         ELSE /\ sp' = ToWord(sp + 2)
              /\ wrote' = {}
              /\ UNCHANGED <<phase, program, t_stackLow, shadowRam, sreg>>

\* MOV SP, MOV SS and the like: any value, and nothing checks it.
SetStack(segment, value) ==
    /\ phase = "running"
    /\ sp' = value
    /\ sreg' = [sreg EXCEPT !["SS"] = segment]
    /\ wrote' = {}
    /\ UNCHANGED <<phase, program, t_stackLow, shadowRam>>

\* MOV ES, before a call that takes a segment in it.
SetExtra(segment) ==
    /\ phase = "running"
    /\ sreg' = [sreg EXCEPT !["ES"] = segment]
    /\ wrote' = {}
    /\ UNCHANGED <<phase, program, sp, t_stackLow, shadowRam>>

\* AH=4Ah: the block of the PSP may be resized as long as the next instruction and
\* the top of the stack lie in what is left of it; anything else is runtimeError().
\* The sum of ES and BX is not cut to a Word.
ResizeAllowed(bx, ip) ==
    LET memEnd == (sreg["ES"] + bx) * Para
    IN  /\ sreg["ES"] = LoadSegment - PspParas
        /\ CanRead("CS", ip, 1) /\ Address("CS", ip) < memEnd
        /\ CanWrite("SS", sp - 1, 1) /\ Address("SS", sp - 1) < memEnd
Resize(bx, ip) ==
    /\ phase = "running"
    /\ IF ~ResizeAllowed(bx, ip)
         THEN Exit
         ELSE /\ wrote' = {}
              /\ shadowRam' = Granted("SS", sp - 1, 1)
              /\ UNCHANGED <<phase, program, sp, t_stackLow, sreg>>

SysExit == phase = "running" /\ Exit

Done == phase \in {"refused", "unrelocated", "exited"} /\ UNCHANGED vars

Next ==
    \/ \E p \in Programs : LoadExe(p) \/ LoadCom(p) \/ LoadError(p) \/ RelocationError(p)
    \/ Push \/ Pop
    \/ \E segment \in StackSegments, value \in StackPointers : SetStack(segment, value)
    \/ \E segment \in StackSegments \cup {LoadSegment - PspParas} : SetExtra(segment)
    \/ \E bx \in Sizes, ip \in CodeOffsets : Resize(bx, ip)
    \/ SysExit
    \/ Done

Spec == Init /\ [][Next]_vars

-----------------------------------------------------------------------------
(* Properties.                                                               *)

\* SP, the permissions and the stack limit have their types.
TypeOK ==
    /\ phase \in {"start", "refused", "unrelocated", "running", "exited"}
    /\ program \in Programs \cup {NoProgram}
    /\ phase = "running" => program \in Programs
    /\ sp \in Word
    /\ t_stackLow \in Nat
    /\ wrote \subseteq Ram
    /\ ShadowTypeOK

\* The addresses of the program's image and of the stack it starts with.
Image(p) ==
    IF p.kind = "exe"
      THEN ImageSegment(p.file) * Para
             .. ImageSegment(p.file) * Para + ImageLength(p.file) - 1
      ELSE LoadBase .. LoadBase + p.file - 1
FirstStack(p) ==
    IF p.kind = "exe"
      THEN StackSegment(p.file) * Para .. StackSegment(p.file) * Para + p.file.sp - 1
      ELSE LoadBase .. LoadBase + ComSP - 1

\* A push never overwrites the program: whatever it has loaded into SS and SP, as
\* long as SP is even and the loader has not switched the check off.
PushSparesImage ==
    phase = "running" /\ t_stackLow # 0 /\ sp % 2 = 0 =>
        wrote \cap Image(program) = {}

\* Only the image and the initial stack of the program can be written, the
\* tables of the BIOS never, even where they overlap.
WritableIsOwn ==
    phase = "running" =>
        {a \in Ram : "fWrite" \in shadowRam[a]}
            \subseteq (Image(program) \cup FirstStack(program)) \ Bios

\* Everything the loader writes once the file has been read: the environment and
\* the PSP, the relocated words, and the tables of the BIOS.
LoaderWrites(p) ==
    Tables(p.name, p.tail) \cup BiosFields
        \cup (IF p.kind = "exe"
               THEN {RelocatedByte(p.file, r, i) : r \in p.file.relocs, i \in {0, 1}}
               ELSE {})

FileBytes(p) == LoadBase .. LoadBase + FileSize(p) - 1

\* However long the name and the arguments are and wherever the relocations
\* point, what the loader writes after it has read the file damages the file only
\* where it reaches up to the tables of the BIOS: there the code accepts it and
\* overwrites it.
FileSparedButByBios ==
    phase = "running" =>
        LoaderWrites(program) \cap FileBytes(program)
            = BiosFields \cap FileBytes(program)

\* README.md:3 says that the emulator "runs [...] MSDOS (MZ header) executables":
\* one that is not refused, and whose relocations lie in its image, is loaded.
RelocationsWork ==
    phase = "unrelocated" =>
        \E r \in program.file.relocs : \E i \in {0, 1} :
            RelocatedByte(program.file, r, i) \notin Image(program)
=============================================================================
