# A formal model of 86sim

86sim runs 8086 programs for ELKS (a.out) and MS-DOS (.exe, .com) on a host: it
emulates the CPU, loads the program, and turns its system calls into calls of the
host.  The modules here model the parts of it where a long or odd sequence of
legal steps could reach a state nobody meant; TLC checks them on small machines
and TLAPS proves the main invariants for every size of machine.

`tlc -config X.cfg M` runs a configuration, `tlapm M.tla` checks proofs.

## 1. Inventory

The program is sequential: one thread, no signals, nothing persistent.  What is
hard in it is not concurrency but state that one call leaves for the next.

| component | state | operations | used by |
|---|---|---|---|
| instruction loop (`8086.c` `executeInstruction`, `sim86.c` `main`) | registers, flags, `prefix`, `rep`, `repeating`, `opcode`, `segmentOverride`, `segment`, `lastIP` | one call per prefix byte, instruction or repetition | - |
| memory (`8086.c` `physicalAddress`, `read*`, `write*`, `setShadowFlags`) | `ram`, `shadowRam`, segment registers, `running` | checked accesses, permissions | everything |
| ALU (`8086.c` 321-382 and the arithmetic cases) | flags, scratch `source`, `destination`, `data`, `residue` | add ... divide, shifts, BCD | instruction loop |
| stack (`8086.c` `push`, `pop`, CALL ... IRET, PUSHF ... SAHF) | SP, SS, CS, IP, flags | words pushed and popped, under the loader's `checkStack` | instruction loop |
| interrupts (`8086.c` INT, `sim86.c` `handleInterrupt`) | - | dispatch to a system call or a fatal trap | instruction loop |
| ELKS process (`loader-elks.c`, `syscall-elks.c`, `push`) | the `t_*` fields of `struct exe`, SP | load, brk, sbrk, push with `checkStackElks`, exit; open, close, read, write passed on | main, INT 80 |
| DOS handles and files (`syscall-dos.c`) | `fileDescriptors`, its count, `pathBuffers`, the host's `errno` | 20 functions of INT 21 | INT 21 |
| DOS process (`loader-dos.c`, `checkStackDOS`) | registers, `t_stackLow`, permissions | load .exe or .com, relocate, environment and PSP, push with `checkStackDOS` | main |
| binary loader (`loader-bin.c`) | registers | load at 07C0:0000, two parts of memory open | main |
| disassembler (`disasm.c`, `dissim.c`, `dis86.c`) | a cursor over bytes | length and text of an instruction | main with -a |
| symbols (`syms.c`) | a sorted table | load, look up | disassembler |
| colour (`discolor.c`) | - | text | disassembler |

Interactions.  `main` calls `executeInstruction` for ever; it reads `repeating`
through `isRepeating` to decide what to disassemble.  `push` calls back into the
loader's `checkStack`.  INT calls `handleInterrupt`, which calls the loader's
`handleSyscall`, which reads and writes registers and memory.  Every error is
`runtimeError`, which exits.

What makes each part correct, in order of weight:

* Loop: prefixes and repetitions spread over several calls add up to exactly one
  instruction; the cached opcode, the override and CX agree with each other at
  every call; a repetition ends; what is listed is what is executed.
* Memory: only what a loader permits can be written, and reading follows.
* ELKS process: what does not fit into a segment is refused; the break stays at or
  below the lowest SP that a push may leave behind, and pushes above it, in any order of
  calls; the environment block is where and as large as both functions that size it
  think.
* DOS handles: a handle reaches its file until it is closed, also when the table
  grows; descriptors of the host are given back; what is not held is refused.
* DOS process: what the loader writes and permits is the program's own, and pushes
  stay off the image.
* ALU: short programs compute what they are written for, with the flags carrying
  what one instruction leaves for the next: comparisons and their jumps, sums and
  shifts over two bytes, decimal numbers, products and quotients.
* Stack: a word comes off as it was put on, calls return, and the flags pass
  through memory without the bits that are not flags.
* DOS files: the host is asked for what the program wrote into its memory, and the
  program gets what the host answered, though both go through buffers that nobody
  clears.
* Decoders: the same length from the disassembler and from the emulator; a trace
  names what is executed and stops nothing that would go on without it.
* Symbols: the nearest name, from a table that does not say how long it is.

`PROJECT.json` lists the hazards with their lines.  They are protocol sequences,
stale state, edges of 16-bit arithmetic, ordering, limits of tables and calls of the
host that fail or do a part; crashes, messages and interleavings do not occur in this
program.

## 2. Modules

| module | models | state and actions |
|---|---|---|
| `Shadow86` | `physicalAddress`, `setShadowFlags` | `shadowRam`, `sreg`; `Allowed` is the absence of a `runtimeError`, `Granted` what a write of the program makes readable, `Permit` is `setShadowFlags` |
| `Memory86` | the accessors, over `Shadow86` | `ram`; `Store` is a checked write |
| `Alu86` | the arithmetic of the CPU, as operators and as a machine that runs short programs | `Add`, `Sub`, `ALUOperation`, `IncDec`, `Rotate`, `Adjust`, `Multiply`, `Divide`, `Condition`; one action per case of the switch |
| `Bits86` | a number as the set of its bits, for `Alu86`, `Stack86` and `CallStack` | one operator, `Number` |
| `Cpu86` | the loop, over `Memory86` | one action per case of the switch; one step is one call of `executeInstruction` and the end of `main`'s loop body |
| `Isa86` | abstract: the instruction set: one step per instruction, prefixes included, no hidden globals | |
| `Cpu86Ref` | the mapping from `Cpu86` to `Isa86`; `start` remembers the machine as it was before the first byte of the current instruction | `ImplementsIsa` |
| `Stack86` | everything that goes through `push` and `pop`, the interrupts, over `Memory86` | `PushReg` ... `Iret`, `Pushf` ... `Lahf`, `SetStack`, `StoreWord`, `Syscall`, `Trap`, `AccessRefused` |
| `CallStack` | abstract: a stack as a sequence of words | |
| `Stack86Ref` | the mapping from `Stack86` to `CallStack`; `base` remembers where the stack began | `ImplementsCallStack` |
| `ElksProcess` | the data segment of an ELKS program | `Load`, `LoadError`, `Push`, `Pop`, `SetSP`, `SysBreak`, `SysSbrk`, `SysExit` |
| `DosProcess` | loading a DOS program and its stack, over `Shadow86` | `LoadExe`, `LoadCom`, `LoadError`, `RelocationError`, `Push`, `Pop`, `SetStack`, `SetExtra`, `Resize`, `SysExit` |
| `DosHandles` | the handle table of a DOS program | `OpenInTable`, `OpenGrows`, `OpenFails`, `Close`, `Use`, `FileTime`, `Refuse`, `End` |
| `HostFile` | `read`, `write`, `lseek` of the host (external) | |
| `DosFiles` | the path buffers and the calls that go through them, over `Memory86` and `HostFile` | `PathCall`, `Rename`, `PrintString`, `Read`, `Write`, `Seek`, `IsTerminal`, `GetCwd`, `GetCwdFails`, `StoreByte`, `End` |
| `DosApi` | abstract: the same calls without buffers and `errno` | |
| `Decode86` | the lengths of instructions, as the emulator and as the disassembler work them out | operators only |
| `Symbols` | `sym_string`: one step per turn of its loops | `Lookup`, `SkipEntry`, `FirstEntry`, `Advance`, `Stop` |
| `Listing` | `main`'s loop with -a, over `Decode86` and `Symbols` | `Show`, `ShowFails`, `SearchName`, `FallThrough`, `Jump`, `ExecuteFails` |
| `MC*` | small machines for TLC | |
| `Cpu86Proofs`, `Alu86Proofs`, `ElksProofs`, `DosProcessProofs`, `DosProofs`, `ListingProofs`, `DosFilesProofs`, `Stack86Proofs` | theorems | |

### The instruction loop

`Cpu86` has the globals of the code as variables with the same names.  The head of
`executeInstruction` is `Override`, `Rep`, `Opcode`, `NextIP`, `RepRefused` and
`Fetched`: a repetition keeps the cached opcode, and older prefixes lapse unless
the call before was a prefix.  The loop exists for the sake of the instructions
that take part in its protocol: the four overrides, the two REP prefixes, the
string instructions (`Movs`, `Cmps`, `Stos`, `Lods`, `Scas`, and `StringSkip` when
REP finds CX zero), the direction flag, the other instructions with a default
segment (`Load`, `StoreAccum`, `Xlat`), the short jumps, which move `ip` and read
ZF, and an invalid opcode.  `RuntimeError` is every path into `runtimeError`;
the process is gone after it, so what a call changed before it failed cannot be
seen and is not kept.  `Decode`, a constant, says which opcode byte is which case,
so that TLC can enumerate all programs over a small opcode table and a proof holds
for every table.  Programs may store into their own code.

Left out: flags other than ZF and DF (no instruction of the module reads
them), `ios` (a counter that is never read), and the instructions that other modules have or section 6 lists.

### The ALU

A program of `Alu86` is a sequence of one to three instructions from `Codes`.  `ax`,
`dx` and `flags` are the machine, `pc` counts instructions, `start` remembers what
the program began with.  A property says of the instructions executed so far, where
they have some shape (`Ran`), how what they leave relates to that start, whatever
follows them.  Any programs will do in which an operand is as wide as the register and
the adjustments are of AL (`CodesAssumption`).  Operators have the names of the functions of `8086.c`; DWord
arithmetic is that of the integers where it cannot overflow, and modulo DWordMod
where the code relies on the wrap (`Negate`, shifting left).  The correction of the
quotient in `divide` for a host that rounds up never applies and is left out.
`trapped` is `divideOverflow`: `handleInterrupt` ends the emulator, so what the code
does after it does not happen.  The source operand of an instruction is an
immediate; operands in memory are the business of `Shadow86`.  AND, OR and XOR are the
intersection, union and symmetric difference of the bits of their operands (`Bits`,
`Number`).

### The DOS process

`DosProcess` is `loadExecutableDOS` as one step per outcome.  Its guards are the
checks in the code; the order in which two of them would fail does not matter, since
each ends the process.  `BeforeLoad` is the shadow while relocations are done,
`Permissions` the one the program starts with, and the calls of `setShadowFlags`
overwrite each other in the order of the code.  What bytes hold is abstracted, so a
relocation is the two accesses it makes.  The tables of the BIOS have their permission
(`Bios`) and the bytes that are written (`BiosFields`), after the file has been read:
`LoaderWrites` is all that is written then.  `SetStack` stands for every way a program
has to load SS or SP, `SetExtra` for those that load ES.  `Resize` (AH=4Ah) goes
through if ES is the PSP and both the next instruction and the byte below SP lie below
the new end; it changes no permission but that the byte below SP can be read after.
`wrote` is an observer: the addresses pushed to.

### The ELKS process

Addresses are offsets into the data segment: `loadExecutableElks` sets DS = SS and
nothing in the module changes them.  `Base` is where the segment lies in RAM, after the
text; `t_stackLow` and the check of a push are physical addresses, as in the code.
Sizes have the widths of the code: those of the header and their sum are DWords, which
wrap, what `struct exe` keeps of them are Words (`SegmentSize`, `Load`), and the limit
that `SysBreak` computes is an int compared as an unsigned int (`BreakAllowed`).
`SumWraps` says of a header that its sum does not fit an unsigned int.
`Load` is `loadExecutableElks` from its arithmetic to
its return, `write_environ` included, which ends the process where the block leaves RAM;
failures to open or read the file come before any state.  `Writable` and `Readable` are
the permissions of the text and of the segment; the text can be read through SS where the
segment's number has wrapped to below it.  `wrote` is an observer: the offsets the last
step wrote.

### The stack

The order in which a program executes its instructions is left open in `Stack86`: a
program is the set of instructions it is made of, so mismatched, nested and recursive
calls are all covered.  One action is one case of the switch, with every push and pop
it makes; `PushRefused` and `PopRefused` are the absence of a `runtimeError` in any of
them.  The bytes of a word are stored and read apart, in segments that overlap
each other and the end of RAM.  `flags` is a set of bit numbers, because PUSHF, POPF,
SAHF and LAHF move whole words and bytes of them.  `Served` says which interrupts
return: `handleSyscallElks` ignores the number, `handleSyscallDOS` has no 80h, and
`handleSyscallBinary` answers nothing.  What a system call does otherwise is in the
other modules; here it sets AX and, for DOS, CF.

`CallStack` has a sequence of words.  Memory does not say where a stack begins, and
a program may pop more than it pushed, so `Stack86Ref` keeps `base`, the SP at which
the stack was set up or at which the last known word left it; the words between SP and
`base` are the abstract stack.  A store over a word of the stack is an abstract
change of that word, and of a neighbour where it hits half of each.  The segment holds
`Capacity` words: pushes that go all the way around it overwrite the first ones unless
the loader's check ends the program, and nothing is known then.

### The DOS files

The host is external: it does what it is asked, a part of it, or fails.  A program uses
one of a few sets of calls (`Uses`), so that a short run reaches each pair that can
disturb each other through a buffer or `errno`.  `Filled` and `CopyOut` are
`initString` in its two directions, `Transferred` the rule by which its loop ends:
a null ends a transfer of 0x10000 bytes, that is of a string, and no other.
`PrintString` (AH=09h) does not look at what `write` returns, so it may leave the errno of a
failed one behind for a later call.
`dosError` returns for ENOENT alone; all other failures are `End`.

`DosApi` has neither buffers nor `errno`.  It shows what survives of them: a short read
leaves arbitrary bytes after those read, and a seek to the largest DWord answers that
something was not found if that was the last failure.

### The listing

`Decode86` has the two decoders as operators on the opcode and the byte after it.
`Flags` is the table of `decode`, without the flags that choose words; `Outs` is what
`outs` reads for them; `Length` is what `executeInstruction` fetches.  `Listing` runs
both in `main`'s loop on a text segment that need not be readable everywhere: `Show` is
`disasm` and the call of `getsymbol`, `SearchName` the turns of the loops in
`sym_string`, the other actions `executeInstruction`.  Registers and data are not
there: a conditional jump goes either way, an indirect one to any of `Entries`.

`Symbols` has the two cursors of `sym_string` and a step per turn of a loop.  The table
is what a linker writes (`Table`): at least one symbol, sorted, sections in one
piece, an end entry and nothing behind it that may be read.

### The DOS handles

The host's descriptors are external: `open` gives the lowest one free.  `held` and
`misused` are observers: what the program has been given, and whether it ever
closed something it did not hold without being refused.  The new half of a grown
table is what `malloc` returned, and a handle past the table is read out of bounds:
both are a choice from `Garbage`.  Loaders close what they open, so a program starts
with descriptors 0 to 2 only.  `init` runs at the first call; its only effect is
the initial table.

## 3. Runs

| run | configuration | question | result |
|---|---|---|---|
| `cpu` | `MCCpu86Ref.cfg` | the protocol, the protection, the end of repetitions; does the loop implement one-step instructions? | holds, 131 176 states |
| `xlat` | `MCXlat.cfg` | does XLATB read DS? | violated |
| `elks` | `MCElksProcess.cfg` | what the loader refuses, break, stack and environment | holds, 268 390 states |
| `elks_min_stack` | `MCElksMinStack.cfg` | is the minimum stack available? | violated |
| `alu` | `MCAlu86.cfg` | comparisons, long sums and shifts, decimals, products, quotients, flags | holds, 544 966 states |
| `stack` | `MCStack86.cfg` | does memory behave as a stack of words for calls, returns and flags? | holds, 206 262 states |
| `dos_files` | `MCDosFiles.cfg` | do strings and data reach host and program through the buffers? | holds, 230 298 states |
| `listing` | `MCListing.cfg` | does a trace keep step, name the right symbols and harm nothing? | holds, 337 906 states |
| `dos_process` | `MCDosProcess.cfg` | tables, permissions and stack of a DOS program | holds, 55 208 states |
| `dos_relocation` | `MCDosRelocation.cfg` | are relocated programs loaded? | violated |
| `dos_handles` | `MCDosHandles.cfg` | handles and descriptors | holds, about 1.1 million states |
| `dos_invalid_handle` | `MCDosInvalidHandle.cfg` | are unopened handles refused? | violated |

Deadlock is checked in every run; a process that has ended stutters explicitly.

Properties.

* `RepeatProtocol`: while a repetition is pending, a REP prefix is in force, CX
  is left, no prefix is pending, the cached opcode is a string instruction the
  prefix allows and `ip` is just past it.  `executeInstruction` relies on all of
  this and checks none of it.
* `ShownIsExecuted`: the listing reads memory and the CPU its cache; in protected
  code they agree during a repetition.  In code that can be written they need not: a
  string instruction may overwrite itself, and goes on from the cache, which
  `ImplementsIsa` covers.
* `MemoryProtection` (of steps): a byte changes only if the loader permitted
  writing, and the only permission ever granted is reading back such a byte.
* `RepetitionEnds` (liveness).
* `ImplementsIsa`: refinement of `Isa86`.  An instruction begins with its first prefix
  and ends with its last repetition; prefixes that fill the segment and never end are no
  step of `Isa86`, and a REP followed by another prefix is a fault.  It is what catches an override or REP
  that outlives its instruction, a comparison that uses the ZF before it, or an
  `ip` that is off after an error.
* `OversizeRefused`: the loader refuses nothing that fits into a segment, and what it
  accepts and should not is exactly what makes the sum of the sizes wrap.
* `BreakBelowStackLow`: of programs whose sum does not wrap.  It relates the break to the
  lowest SP of a checked push, `t_stackLow`; it does not say that SP is above the break.
  A program may load SP with anything, and one whose environment is larger than its stack
  begins with SP below `t_stackLow`, since the block is taken off twice (section 4).  It
  allows the loader's rounding of the break up to even: with a header that asks for all
  the heap and odd sections, the initial break can be one byte above what `sys_brk` would
  grant.
* `PushStaysInStack`: of every program, wrapped sums included, a push writes at or above
  `t_stackLow`, below the end of the segment and inside RAM.  That it spares the heap
  needs SP even and a sum that did not wrap.
* `EnvironFits`: where the block fits below `t_begstack`, as in section 1.
* `PushSparesImage`: SS and SP may be anything, the check looks at their sum only;
  the limit must therefore lie above all of the image.  It says nothing of programs for
  which the loader switches the check off, or with SP odd, whose second byte wraps.
* `WritableIsOwn`: also when image, stack and BIOS tables overlap.
* `FileSparedButByBios`: the loader checks the length of the name before it writes the
  terminator, and that of the arguments after it has written them.  The terminator may
  spill into the first byte of the PSP; neither may reach the file, and relocations do
  not (they can only be applied outside it, `RelocationsWork`).  The tables of the BIOS do
  reach it: what is overwritten of a file is exactly what lies in them (section 4).
* `ConditionsCompare`: after CMP, the ten conditional jumps for comparisons decide
  the relation of the operands as signed and unsigned numbers.
* `WideArithmetic`, `WideShifts`: the carry between instructions on the halves of a
  word, past an INC or DEC, through NEG, ADC and NEG; RCL and RCR undo each other.
* `DecimalArithmetic`: ADD, ADC, SUB and SBB followed by their adjustment, MUL
  followed by AAM, AAD followed by DIV.
* `ProductsAndQuotients`: the product is whole; quotient and residue satisfy the
  division identity with rounding towards zero, and there is a divide error exactly
  when no quotient fits.  (The smallest quotient is accepted.)
* `CarryOfProducts`, `WideComparison`, `ResultFlags`: the flags after the instructions
  that set them.  Each states the exception that section 4 tells of, as part of an
  equivalence: where the code is right, where it is not, and that there is no third case.
* `ImplementsCallStack`: refinement of `CallStack`.  A return goes to where its call
  came from, whatever ran between; nothing on the stack is lost, reordered or taken
  for a flag; this with SP at the wrap of the segment, with stacks that meet code and
  one another, and under each of the three stack checks.  RET with an operand may drop
  any number of words in `CallStack`.  A stack that fills its segment (`Capacity`) takes
  more pushes than the run's stacks have room for; that case is in the proof only.
* `StringsEnd`: no string that the host is given runs to the end of its buffer.
* `ImplementsDosApi`: refinement of `DosApi`.  It is what catches a call that sees
  what an earlier one left in a buffer, a transfer that stops at a null in data, a
  string cut or run on, or a permission granted beyond what was transferred.
* `LengthsAgree`: a line of the trace ends where the emulator ends the instruction,
  if and only if the instruction is not one of those of section 4.
* `TargetsAgree` (of steps): the target that a line shows is where the jump goes, if
  and only if it lies in the segment.
* `TraceHarmless` (of steps): where the disassembler meets memory it cannot read,
  execution would have ended too, but for one kind of instruction (section 4).
* `FitsColumn`: no line shows more bytes than its column holds.
* `NamedByNearest`, `StaysInTable`, `SearchEnds` (liveness): the search finds the last
  symbol at or below the address, or the first of the section if all are above; it
  reads nothing past the end entry; it ends.
* `HandleReachesItsFile`, `NothingLeaked`: as in section 1.  The first holds as long
  as the program closes only what it holds, or is refused.

### Bounds

* CPU: 4-byte segments two bytes apart, 9 bytes of RAM, offsets modulo 4.  Segments
  overlap each other and the code, one runs past the end of RAM, and one byte each
  is write-only and not accessible.  All 21^3 programs of
  three bytes before a MOVSB: enough for two prefixes and an instruction, for an
  instruction after a finished repetition, and, with jumps and the wrap of `ip`,
  for loops; and all programs of four prefixes, which fill the segment, so that prefixes
  never end or a REP is followed by a prefix.  CX starts at 0 or 3; with 3 a repetition has a first, a middle and a
  last step, and offsets wrap during a word repetition.
* ALU: nibbles of two bits and three decimal digits, so a byte has 16 values, a word
  256 and a DWord 65 536: the smallest size at which a byte has two digits with room
  above a digit.  All values of AX, either carry, all byte operands, the edges of words,
  and rotations by every count up to twice a byte.  The masks, limits and decimal
  corrections of the code are expressed by the sizes, so they scale with them.
* Stack: bytes of three bits, paragraphs of four bytes, a segment of 64 in RAM of 68, so
  the two segments overlap and the last word of the higher one lies beyond RAM.  SP is
  0, 58 to 62 (`Stacks`): a stack at the wrap, three words deep, with an odd SP too; a
  step that leaves these is not taken.  Code ends at 6 (`MaxIP`).  Nine sets of
  instructions, each a pair or more that must fit each other (calls and returns, PUSHF
  and POPF, PUSH SP and POP SP, PUSH and a store over it), under each loader.  A word
  has six bits of which four can be flags of some kind: kept, always one, never seen by
  PUSHF, and set by PUSHF.
* DOS files: bytes with three values (null, `$`, a letter), segments and buffers of four
  bytes, all contents of memory for the calls with strings; one byte that cannot be
  written, one that cannot be read, one neither, or none.  Buffers start without a null,
  the worst case.  Offsets are 0 and 3, where a string wraps.  Files of up to three
  bytes (`MaxFile`), positions to 17 (`MaxPosition`), past the largest DWord, 15;
  programs that write stay at positions up to 3 (`MCNear`).  The directory names are
  shorter than, just below and at the size that `getcwd` is given.
* Listing: the widths of the code.  All opcodes, with 40 of the 256 ModRM bytes: every
  mode and register field, the other registers of a mode being read alike; the proofs
  have all 256.  One, two, four or all eight bytes readable, so that an instruction ends
  at every place in unreadable memory.  Jumps and operands that name addresses are run at
  0 and at the two ends of the segment, with all tables of one and most kinds of three
  symbols over three section types and two addresses: addresses looked up are below, at,
  between and above them.  An indirect jump goes back to the start (`Entries`).
* DOS process: paragraphs of 4 bytes, offsets modulo 32, 80 bytes of RAM.  Headers with
  images that do and do not fit the file, an image that ends within a page, a header
  whose length wraps, stacks inside and above the image, empty, beyond RAM and
  wrapping in the segment number; a relocation in the image and one in the PSP; names
  and arguments one below, at and one above the limit.  The longest file reaches over the
  BIOS tables at the top to the end of RAM.
* ELKS: a Word has 32 values (`WordMod`), a DWord 256 (`DWordMod`), paragraphs have 4
  bytes, RAM has 128 (`RamSize`), text is loaded at 8 (`LoadSegment` = 2).  48 headers
  (`MCHeaders`) have odd and even sections, zero (default), odd and large stacks, zero
  (default), small and maximal heaps; some do not fit.  20 have text (`MCTexts`) that puts
  the segment at the end of RAM, past it, or at 0 below the text, or has a length that is
  negative or wraps when rounded.  162 (`MCWrapping`) have sections of nearly 256 bytes:
  sums just below, at and above the wrap, by the sections, the stack, the heap or only by
  the rounding; the programs that are accepted begin with the break above SP, a segment of
  no bytes, or a lowest SP that is below zero as an offset.  The default size is a
  constant of the model, 4 here.  The arguments of the calls are just below, at and just
  above the limits.  The violation is looked for among `MCHeaders` alone.
* DOS: the table starts at 6 as in the code and grows once (`MaxCount` = 12; the
  growth action is disabled beyond it, the proofs have no such limit).
  Six descriptors of the host (`HostLimit`): 3 and 4, which `close` spares, and 5,
  which it does not.  Handles passed: an alias of stdout, the first that is free, one
  in the uninitialised half, one past the table.  Files are symmetric.

### Fairness

`WF_vars(Next)` for the CPU and the listing: `main` is `for (;;)` around `disasm` and
`executeInstruction`, and `sym_string` loops until it has an answer, so a step that can
be taken is taken.  Nothing more is assumed; the liveness properties need only that.
`SymbolsSpec` assumes as much of the search alone.  The other modules state no fairness:
what a program calls next is its own choice, and the host may fail at any call.

## 4. Findings

* XLATB (`8086.c:915`) reads with `seg = -1` but sets no default segment; without an
  override it uses the one left by an earlier instruction.
* The ELKS loader (`loader-elks.c:196`) sets SP below the environment block it has
  not written yet, and `write_environ` lowers SP by the block again: the stack a
  program gets is smaller than `t_minstack` by the size of the block.
* A grown handle table (`syscall-dos.c:93`) is not initialised: handles that were
  never opened are accepted, and closing one may close another handle's file.
* An .exe with relocations in its image (`loader-dos.c:129-136`) ends in "Reading
  uninitialized address": the image is relocated before it is permitted.

Where the program does not do what an 8086 does, or what its own checks are there for, and
no document of the repository says it should, the property states what the program does, as
an equivalence:

* The ELKS loader adds up the sizes in a header in 32 bits, and the sum may wrap
  (`loader-elks.c:161-169`): an executable with `dseg` = 0xfffff000, `minstack` = 0x2000
  and `chmem` = 0x100, which needs nearly 4G, passes the test for 64K.  Its `t_enddata` is
  0xf000 and its `t_begstack` about 0x1100, so the break begins above the stack, and
  `t_begstack - t_minstack` is below zero: the comparison in `SysBreak` is unsigned
  (`syscall-elks.c:77`), so no break is too high for it, and a push may write below the
  break.  `OversizeRefused` says that these are the only ones that are accepted wrongly;
  `BreakBelowStackLow` excludes them, by `SumWraps`; `PushStaysInStack` holds for them too,
  but for the heap.
* `load_bios_values` writes 0xfff00 to 0xfffff after the file has been read
  (`loader-dos.c:85-92`), and a file that reaches there is accepted and overwritten
  (`FileSparedButByBios`).
* IMUL (`8086.c:996`, `1012`) sets CF and OF exactly when the product fits in the
  lower half, the reverse of MUL and of an 8086 (`CarryOfProducts`).
* ADC and SBB (`8086.c:346-347`) add the carry to the source before OF (and AF) are
  derived from it; with the largest positive source OF is inverted, so comparisons
  of longer numbers by CMP, SBB and JL go wrong there and only there (`WideComparison`).
* AAM and AAD (`8086.c:900`, `907`) derive ZF and SF from their immediate operand
  (`ResultFlags`).
* AAM and AAD are listed without their operand, and a far jump or call through memory
  with two bytes of address whatever its ModRM byte says (`disasm.c:532`, `639`): the
  trace loses step there and only there (`LengthsAgree`), and the latter can end a traced
  run that would go on untraced (`TraceHarmless`).
* A short jump that wraps around the segment is shown with its target outside it
  (`disasm.c:261`, `TargetsAgree`).
* An address below all symbols of its section gets the name of the first of them, with
  a negative distance (`syms.c:148`, `NamedByNearest`).
* `lseek` to 0xffffffff answers that a file was not found, if that was the last failure,
  and ends the run otherwise (`syscall-dos.c:274`, `DosApi`'s `Seek`).

Seen while reading, without a property: INTO traps whatever OF is (`8086.c:819`; `Stack86` has
it so); INT 1A is handled in `syscall-dos.c` but never dispatched to it; MOV to and from
a segment register with a register field from 4 up indexes past `registers` (`8086.c:672`,
`685`); a .com is read to the load segment, one PSP above its start, but entered at offset
0x100 of that same segment (`loader-dos.c:154-159`), 256 bytes into the file; an .exe
whose SP starts at zero has no writable stack beyond its image (`loader-dos.c:166`); an
.exe header of 64K or more passes the checks with its length modulo 64K
(`loader-dos.c:125`); the ELKS loader rounds the size of the text up to a paragraph after
it has read text and data in one piece (`loader-elks.c:151-156`), so with a text that is
not a multiple of 16 the first bytes of the data lie below DS:0, in the part that is
read-only.

## 5. Proofs

All are for arbitrary constants, under the named assumptions of the modules
(`ShadowAssumption`, `MemoryAssumption`, `CpuAssumption`, `DosAssumption`,
`ElksAssumption`, `HandlesAssumption`, `FilesAssumption`, `SymbolsAssumption`,
`ListingAssumption`, `StackAssumption`, `AluAssumption`,
`CodesAssumption`), which TLC evaluates in the runs.

* `Cpu86Proofs`: `TypeCorrect`, `RepeatProtocolHolds`, `ShownIsExecutedHolds`,
  `MemoryProtected`.  The inductive invariant is the conjunction of the first three
  properties and one more part: while repeating, the address of the cached opcode
  is in RAM.  `TypeOK` alone is not inductive, since `CX - 1` is a Word only
  because a repetition never begins with CX zero, and `ShownIsExecuted` needs
  `RepeatProtocol` to know where the opcode was fetched from.  The proof has one
  case per action, through a lemma on what `DoRep` leaves.
  Its last part is `LoopImplementsIsa`, that the loop implements `Isa86`.  The invariant
  `HInv` says where between two calls the loop is in the instruction that began with the
  machine `start`: `Begun(n)`, n prefixes have been executed, nothing but `ip` has changed
  and `rep` and `segmentOverride` are what those n bytes make of them; or
  `Executing(n, k)`, the string instruction after n prefixes has processed k elements, and
  registers and memory are what `Isa86` has after k elements, although its code may have
  been overwritten meanwhile.  Prefixes lead from `Begun(n)` to `Begun(n + 1)`
  (`PrefixContinues`), elements from k to k + 1 (`ElementStep`), and where the next call
  will not continue, the step is a step of the instruction set (`StringCompletes`,
  `MovAccumCompletes`, `OthersComplete`); `ErrorFaults` does the same for each cause of a
  `runtimeError`.  An instruction has at most `WordMod` prefixes, since offsets wrap and
  one REP ends them (`PrefixCount`).  The sequence of memories of `Isa86` is a recursive
  function; that there is one is shown by the lowest number of elements for which there
  would be none (`MemoryRecursion`).
* `ElksProofs`: `TypeCorrect`, `LoaderRefusesOversize`, `BreakStaysBelowStackLow`,
  `PushesStayInStack`, `EnvironmentFits`, for every header of 32-bit sizes.  Only
  `BreakStaysBelowStackLow`, and the part of `PushesStayInStack` about the heap, assume
  that the sum of the sizes does not wrap; what holds without is proved without.  The
  arithmetic of the widths and roundings is in lemmas: a sum that does not wrap is rounded
  up into a segment just when it fits, and one that wraps is of sizes that do not fit
  (`ParaRounding`, `SegmentHolds`).  The layout made by `Load` never changes
  again, so each bound is established there (`LoadType`, `LoadStep`) and preserved by
  `BreakAllowed` and `StackOverflow`; the invariant adds `Layout`, that without a wrap
  `t_stackLow` is in the segment and the break at or below it.  For the environment:
  the sum of the sizes is a recursive function,
  there is one because a lowest index without a value cannot be (`BytesRecursion`), and
  for the same reason it grows with the index (`BytesGrow`); so the block is a row of
  words, the markers and the pointers, followed by a row of disjoint strings
  (`BlockIs`), wherever it begins without wrapping.
* `Alu86Proofs`: `ComparisonsDecide`, `FlagsDescribe`, `BytesCompare`, `BytesCarry`,
  `BytesShift`, `ProductsCarry`, `ProductsAndQuotientsAre`, `DigitsAdjust`, for every even
  number of values of a nibble, every radix up to it, every program and every start.  Each property is about a few instructions that
  have been executed, so the invariants say what holds between them: `Begun`, that a
  program is one of `Codes` and that before its first instruction the registers are
  those of `start`; `Machine`, that registers hold words and flags are Booleans, for
  which every action needs a lemma on what its operator returns; `Half`, what the first
  one or two instructions of a sum or comparison by bytes have left, the carry and the
  low byte of the result; and `Extension`, that CBW and CWD leave the same number in
  two's complement.  Under them lies arithmetic of residues.  The provers know none for a
  divisor that is a constant: all of it rests on the division identity and on quotient
  and residue being unique (`DivisionUnique`), from which follow what a bit of a number
  says (`BitIs`), the flags of a sum and of a difference as statements about signed
  numbers (`SumIs`, `DifferenceIs`), what a carry means across bytes (`SumByBytes`,
  `DifferenceByBytes`), the upper half of a signed product (`SignedProduct`), and that
  signs put back on a quotient of magnitudes make the one that is rounded towards zero
  (`DivideIs`, `RoundsOnce`).  A refused quotient is then one that no register holds.
  Rotations by any count are a recursive function; that there is one, and what it
  returns, is shown by the lowest count for which it would not be so (`Recursion`).
  `Turned` says that after one shift or rotation the machine is what that one leaves of
  the start; each position turned back undoes one turned forth (`StepBack`), hence all of
  them (`RotatesBack`), on residues of the register and with the carry.
  For decimal numbers, `FirstDecimal` keeps what the sum or difference leaves in AX, in
  CF and in AF.  Then `DigitsOfSum` and `DigitsOfDifference`, which speak of digits in
  one base written in another, say that the two corrections find both carries, although
  the first may run over the byte and AF is not the carry when radix and nibble are the
  same; `PackedSum`, `PackedDifference`, `UnpackedSum` and `UnpackedDifference` apply
  them, and AF being that carry is a matter of parity (`HalfCarryIs`).
* `DosProcessProofs`: `TypeCorrect`, `PushesSpareImage`, `OnlyOwnIsWritable`,
  `FileIsSparedButByBios`.  The invariant adds `LimitAboveImage`: a limit in force is above
  every byte of the image, which needs the rounding to paragraphs (`ParaRounding`) and
  a header that is not corrupt (`HeaderType`).  `WordMod` is assumed even, so that a
  word at an even offset does not wrap.
* `DosProofs`: `TypeCorrect`, `NothingIsLeaked`, `HandlesReachTheirFiles`.  The last
  needs that only descriptors 0 to 2 are open on stdio (`StdioIsStandard`): without
  it closing one name of stdout could close the others.
* `DosFilesProofs`: `TypeCorrect`, `StringsEndInBuffer` and the refinement,
  `ImplementsApi`.  The invariant is types alone: memory, buffers and file hold bytes.
  `TypeCorrect` adds that what a call answers are words and that the file keeps to the
  bounds of the model, which `BoundsAssumption` relates to the files it starts with: a
  read ends inside the file it is of (`ReadBounds`).  The work is in what
  the two copies do: `FilledString`, that the string a filled buffer holds is the
  program's, whether a null of the program ends it or the one `initString` puts in the
  last byte; `CopyOutIs`, that distinct offsets are distinct addresses, so that each byte
  arrives; `NamePut`, that a directory's name is copied up to its null and no further,
  whatever follows it in the buffer.  Then one lemma per call says that it is the call
  of `DosApi`.
* `Stack86Proofs`: `TypeCorrect` and the refinement, `StackImplementsCallStack`, for
  every width of a byte from two to eight bits, every size of memory, every program and
  every offset of SP.  That flags make a byte or a word again is a sum over bits: its
  partial sums stay below powers of two, since there cannot be a lowest bit at which they
  do not (`NumberBelow`).  The invariant `HInv` says that SP and `base` are a whole number
  of words apart, that every byte between them is in RAM (`Held`), and that bit 1 of the
  flags is one, without which PUSHF and LAHF could make other words than `CallStack` does.
  `Known` is the abstract stack as a function of memory, SP and `base`; `KnownIs` says how
  many words it has, from SP upwards, whether or not they wrap.  `PushKnown` and
  `DropKnown` are what pushes and pops do to it: a push spares the words above SP because
  offsets less than a segment apart are distinct addresses (`PlaceDistinct`), and it is
  here that the limit `Capacity` is needed.  `StoreKnown` is the store: the words it hits
  are at most two and neighbours, also where they wrap.  Then one case per instruction
  says that it is the one of `CallStack`.
* `ListingProofs` has three parts.  The first compares the two decoders on every opcode
  and second byte: `LengthsDiffer` says that the lengths differ exactly on `Mislisted`.  It
  is by cases on ranges of opcodes, not by enumeration.
* The second: `SearchStaysInTable`, `SearchFindsNearest`, for a table of any length.
  `SearchInv` says what a search has passed by: no entry before the first cursor is of the
  section while it skips; then the entry at that cursor is at or below the address, or
  the first of its section.  The end entry is of no section, so no loop passes it.
* The third: `ListingTypes`, `ListingKeepsStep`, `ListingFits`, `ListingNames`,
  `TracingIsHarmless`, `TargetsAreRight`, for every text segment, entry point and table.
  The invariant adds `LineShown` and `TargetShown`: between a line and the instruction it
  shows nothing moves, so that `LengthsDiffer` says of the run what it says of two bytes.
  For targets, the jumps with an address in the code are never mislisted (`JumpsListed`),
  and a displacement added to the end that `d->ip` counts on to, past the segment or not,
  comes to the same Word (`AddReduced`): a short jump is shown at another place exactly
  if it wraps.  `ListingNames` carries `SearchInv` along the run; the table is read-only
  (`TableKept`).

Model-checked only: `RepetitionEnds` and `SearchEnds` (liveness, and the ENABLED in
fairness, are beyond the prover).

## 6. Plan

Done: memory, loop, abstract instruction set and refinement, ELKS process, DOS handles,
DOS process with its resize call, ALU and flags, stack and interrupts with the
abstract call stack, DOS files with the abstract interface, the two decoders, the
symbol table, the listing; the proofs above.  Next, by weight:

1. `ElksRun`: `ElksProcess` and `Stack86` together, from `initMachine` to exit.
2. `ea()` and the operands of ModRM: which segment, which address, how it wraps.
3. The system calls of ELKS that reach files (open, read, write, lseek).

Not modelled for good: the text of the disassembly and its colours (wording, not
control); the file reading of `dis86.c`, of the loaders and of `sym_read_symbols` (they
end the process on any failure, before there is state); tracing but for what it
reads; `sym_fn_start_address`, which nothing calls; the BLINK16 build; INT 1Ah, which
`handleInterrupt` never passes on.
