----------------------------- MODULE ElksProcess -----------------------------
(***************************************************************************)
(* The data segment of an ELKS program: loadExecutableElks() lays out      *)
(* data, bss, heap and stack in one segment (loader-elks.c); sys_brk and   *)
(* sys_sbrk move the break up from the bottom (syscall-elks.c); push()     *)
(* grows the stack down from the top and asks checkStackElks() where to    *)
(* stop (8086.c).  DS = SS for the life of the program, so addresses are   *)
(* offsets into the segment; only t_stackLow is an address in RAM.         *)
(*                                                                         *)
(* The sizes in the header are 32 bits wide and so is their sum; what is   *)
(* kept of it in struct exe is 16 bits wide.                               *)
(*                                                                         *)
(* The code has WordMod = 2^16, DWordMod = 2^32, Para = 16,                *)
(* RamSize = 16#100000, LoadSegment = DefaultSize = 16#1000.               *)
(***************************************************************************)
EXTENDS Integers, Sequences

CONSTANTS
    WordMod,        \* number of values of a Word
    DWordMod,       \* and of a DWord, an unsigned int
    Para,           \* bytes in a paragraph
    RamSize,        \* bytes of RAM
    LoadSegment,    \* where the text is loaded
    DefaultSize,    \* of heap and of stack when the header gives none
    Headers,        \* [tseg, dseg, bseg, minstack, chmem] of executables
    Environments,   \* [argv, envp]: the sizes of the strings, NUL included
    StackPointers,  \* what programs load into SP
    Breaks,         \* arguments of sys_brk
    Increments,     \* and of sys_sbrk
    Results         \* where sys_sbrk is told to put its result

Word  == 0 .. WordMod - 1
DWord == 0 .. DWordMod - 1

ASSUME ElksAssumption ==
    /\ Para \in Nat \ {0} /\ Para % 2 = 0
    /\ WordMod \in Nat /\ WordMod > Para /\ WordMod % Para = 0
    /\ DWordMod \in Nat /\ DWordMod >= WordMod * Para + WordMod
    /\ RamSize \in Nat
    /\ LoadSegment \in Word
    /\ DefaultSize \in Word \ {0}
    /\ Headers \subseteq [tseg : DWord, dseg : DWord, bseg : DWord,
                          minstack : Word, chmem : Word]
    /\ Environments \subseteq [argv : Seq(Nat \ {0}), envp : Seq(Nat \ {0})]
    /\ StackPointers \cup Breaks \cup Increments \cup Results \subseteq Word

VARIABLES
    phase,          \* "start", "refused" by the loader, "running", "exited"
    header, env,    \* what is being executed
    t_endseg,       \* end of the segment: data+bss+heap+stack
    t_begstack,     \* start SP
    t_minstack,     \* min stack size
    t_enddata,      \* start of the heap
    t_endbrk,       \* current break
    t_stackLow,     \* lowest SS:SP allowed, as an address
    sp,
    wrote           \* the offsets the last step wrote, and what wrote them

layout == <<header, env, t_endseg, t_begstack, t_minstack, t_enddata, t_stackLow>>
vars   == <<phase, layout, t_endbrk, sp, wrote>>

ToWord(n)  == n % WordMod
ToDWord(n) == n % DWordMod
EvenUp(n)   == n + (n % 2)
EvenDown(n) == n - (n % 2)

\* Up to whole paragraphs: the sum with Para - 1 may wrap.
ParaUp(n) == (ToDWord(n + Para - 1) \div Para) * Para

\* The bytes of a word at an offset; the second one wraps.
WordAt(off) == {ToWord(off), ToWord(off + 1)}

Nothing == [by |-> "none", offsets |-> {}]

TypeOK ==
    /\ phase \in {"start", "refused", "running", "exited"}
    /\ phase # "start" => header \in Headers /\ env \in Environments
    /\ t_endseg \in Word /\ t_begstack \in Word /\ t_enddata \in Word
    /\ t_endbrk \in Word /\ t_minstack \in Word /\ sp \in Word
    /\ t_stackLow \in DWord
    /\ wrote.by \in {"none", "loader", "push", "sbrk"}
    /\ wrote.offsets \subseteq Word

-----------------------------------------------------------------------------
(* The environment block: argc, the argv pointers, NULL, the envp pointers,  *)
(* NULL, then the strings.                                                   *)

Strings(e) == e.argv \o e.envp

\* Bytes in the first n strings.
Bytes(strings, n) ==
    LET sum[i \in 0 .. Len(strings)] == IF i = 0 THEN 0 ELSE sum[i - 1] + strings[i]
    IN  sum[n]

\* calc_environ()
EnvironSize(e) ==
    EvenUp(2 + (Len(e.argv) * 2 + 2) + (Len(e.envp) * 2 + 2)
             + Bytes(Strings(e), Len(Strings(e))))

\* write_environ() for a block that begins at base: where the pointer to the
\* i-th string is put and where its bytes are put.
Pointer(e, base, i) ==
    WordAt(base + 2 * (IF i <= Len(e.argv) THEN i ELSE i + 1))

\* Mutant: the NULL after the argv pointers gets no room.
StringBytes_OneNull(e, base, i) ==
    {ToWord(base + 2 * (1 + Len(e.argv) + Len(e.envp) + 1)
                 + Bytes(Strings(e), i - 1) + k) : k \in 0 .. Strings(e)[i] - 1}

StringBytes(e, base, i) ==
    {ToWord(base + 2 * (1 + Len(e.argv) + 1 + Len(e.envp) + 1)
                 + Bytes(Strings(e), i - 1) + k) : k \in 0 .. Strings(e)[i] - 1}

\* argc and the two NULLs.
Markers(e, base) ==
    WordAt(base) \cup WordAt(base + 2 * (Len(e.argv) + 1))
        \cup WordAt(base + 2 * (Len(e.argv) + Len(e.envp) + 2))

EnvironBlock(e, base) ==
    Markers(e, base)
        \cup UNION {Pointer(e, base, i) \cup StringBytes(e, base, i) :
                      i \in 1 .. Len(Strings(e))}

-----------------------------------------------------------------------------
(* The loader.                                                               *)

StackSize(h) == IF h.minstack # 0 THEN h.minstack ELSE DefaultSize
HeapSize(h)  == IF h.chmem # 0 THEN h.chmem ELSE DefaultSize
MaxSegment   == WordMod - Para

\* Where the segment begins in RAM: in the paragraph after the text, or where
\* that wraps to in the Word that SS is.
Base(h) == ToWord(LoadSegment + (ParaUp(h.tseg) \div Para)) * Para

\* The text is readable; a length that is negative as an int permits nothing.
InText(h, a) ==
    LET text == LoadSegment * Para
    IN  /\ ParaUp(h.tseg) < DWordMod \div 2
        /\ text <= a /\ a < text + ParaUp(h.tseg)

\* Everything but the heap, in numbers that do not wrap.
Sections(h, e) == h.dseg + h.bseg + StackSize(h) + EnvironSize(e)

\* Mutant: the sum is kept in a Word.
SegmentSize_Word(h, e) ==
    LET len == ToWord(Sections(h, e))
    IN  ParaUp(IF HeapSize(h) < MaxSegment THEN ToWord(len + HeapSize(h))
               ELSE IF len < MaxSegment THEN MaxSegment ELSE len)

\* totdata, rounded up; a heap of MaxSegment or more asks for all there is.
SegmentSize(h, e) ==
    LET len == ToDWord(Sections(h, e))
    IN  ParaUp(IF HeapSize(h) < MaxSegment THEN ToDWord(len + HeapSize(h))
               ELSE IF len < MaxSegment THEN MaxSegment ELSE len)

\* The loader's test for "Program heap+stack >= 64K".
Refused(h, e) == SegmentSize(h, e) >= WordMod

Init ==
    /\ phase = "start"
    /\ header = {} /\ env = {}
    /\ t_endseg = 0 /\ t_begstack = 0 /\ t_minstack = 0
    /\ t_enddata = 0 /\ t_endbrk = 0 /\ t_stackLow = 0
    /\ sp = 0
    /\ wrote = Nothing

\* loadExecutableElks() up to its return: SP is set to t_begstack, then
\* write_environ() takes the environment block off it.  The program does not run
\* yet, so only a byte outside RAM stops the block from being written.
Load(h, e) ==
    /\ phase = "start"
    /\ ~Refused(h, e)
    /\ header' = h /\ env' = e
    /\ t_endseg' = SegmentSize(h, e)
    /\ t_begstack' = EvenDown(ToWord(t_endseg' - EnvironSize(e)))
    /\ t_minstack' = StackSize(h)
    /\ t_enddata' = ToWord(h.dseg + h.bseg)
    /\ t_endbrk' = ToWord(EvenUp(t_enddata'))
    /\ t_stackLow' = ToDWord(Base(h) + t_begstack' - t_minstack')
    /\ sp' = ToWord(t_begstack' - EnvironSize(e))
    /\ \/ /\ \A off \in EnvironBlock(e, sp') : Base(h) + off < RamSize
          /\ phase' = "running"
          /\ wrote' = [by |-> "loader", offsets |-> EnvironBlock(e, sp')]
       \/ /\ \E off \in EnvironBlock(e, sp') : Base(h) + off >= RamSize
          /\ phase' = "exited"
          /\ wrote' = Nothing

LoadError(h, e) ==
    /\ phase = "start"
    /\ Refused(h, e)
    /\ phase' = "refused"
    /\ header' = h /\ env' = e
    /\ wrote' = Nothing
    /\ UNCHANGED <<t_endseg, t_begstack, t_minstack, t_enddata, t_stackLow, t_endbrk, sp>>

-----------------------------------------------------------------------------
(* The program.  A runtimeError() or an exit ends it.                        *)

\* The loader makes the segment readable and writable, and the text readable.
Writable(offsets) ==
    \A off \in offsets : off < t_endseg /\ Base(header) + off < RamSize

Readable(offsets) ==
    \A off \in offsets :
        /\ Base(header) + off < RamSize
        /\ off < t_endseg \/ InText(header, Base(header) + off)

Exit ==
    /\ phase' = "exited"
    /\ wrote' = Nothing
    /\ UNCHANGED <<layout, t_endbrk, sp>>

\* Mutant: the loader has not set t_stackLow.
StackOverflow_Unset(newsp) == FALSE

\* checkStackElks(): true on overflow.
StackOverflow(newsp) == t_stackLow # 0 /\ Base(header) + newsp < t_stackLow

\* push(): PUSH, CALL and the other instructions that push.
Push ==
    /\ phase = "running"
    /\ LET newsp == ToWord(sp - 2) IN
         IF StackOverflow(newsp) \/ ~Writable(WordAt(newsp))
           THEN Exit
           ELSE /\ sp' = newsp
                /\ wrote' = [by |-> "push", offsets |-> WordAt(newsp)]
                /\ UNCHANGED <<phase, layout, t_endbrk>>

\* pop(): no check but that the word can be read.
Pop ==
    /\ phase = "running"
    /\ IF ~Readable(WordAt(sp))
         THEN Exit
         ELSE /\ sp' = ToWord(sp + 2)
              /\ wrote' = Nothing
              /\ UNCHANGED <<phase, layout, t_endbrk>>

\* MOV SP and the like: any value, and nothing checks it.
SetSP(value) ==
    /\ phase = "running"
    /\ sp' = value
    /\ wrote' = Nothing
    /\ UNCHANGED <<phase, layout, t_endbrk>>

\* Mutant: a word too far.
BreakAllowed_OffByTwo(newbrk) ==
    newbrk >= t_enddata /\ newbrk <= ToDWord(t_begstack - t_minstack + 2)

\* Would SysBreak() set the break there?  A difference below zero is compared
\* as an unsigned int and bounds nothing.
BreakAllowed(newbrk) ==
    newbrk >= t_enddata /\ newbrk <= ToDWord(t_begstack - t_minstack)

\* Mutant: t_endbrk is as wide as the sum.
KeptBreak_Uncut(newbrk) == newbrk

\* What t_endbrk keeps of a new break.
KeptBreak(newbrk) == ToWord(newbrk)

\* sys_brk; on -ENOMEM nothing changes.
SysBreak(newbrk) ==
    /\ phase = "running"
    /\ t_endbrk' = IF BreakAllowed(newbrk) THEN KeptBreak(newbrk) ELSE t_endbrk
    /\ wrote' = Nothing
    /\ UNCHANGED <<phase, layout, sp>>

\* sys_sbrk: BX holds the increment, a Word taken as a number from 0 up; the
\* old break is written where CX points.
SysSbrk(incr, offset_result) ==
    /\ phase = "running"
    /\ IF incr # 0 /\ ~BreakAllowed(t_endbrk + incr)
         THEN /\ wrote' = Nothing
              /\ UNCHANGED <<phase, layout, t_endbrk, sp>>
         ELSE IF ~Writable(WordAt(offset_result))
                THEN Exit
                ELSE /\ t_endbrk' = KeptBreak(t_endbrk + incr)
                     /\ wrote' = [by |-> "sbrk", offsets |-> WordAt(offset_result)]
                     /\ UNCHANGED <<phase, layout, sp>>

SysExit == phase = "running" /\ Exit

Done == phase \in {"refused", "exited"} /\ UNCHANGED vars

Next ==
    \/ \E h \in Headers, e \in Environments : Load(h, e) \/ LoadError(h, e)
    \/ Push \/ Pop
    \/ \E value \in StackPointers : SetSP(value)
    \/ \E newbrk \in Breaks : SysBreak(newbrk)
    \/ \E incr \in Increments, off \in Results : SysSbrk(incr, off)
    \/ SysExit
    \/ Done

Spec == Init /\ [][Next]_vars

-----------------------------------------------------------------------------
(* Properties.                                                               *)

\* What a program asks for, in numbers that do not wrap; whether there is room
\* for it in a segment; and whether an unsigned int holds the sum.
Needed(h, e) ==
    IF HeapSize(h) < MaxSegment THEN Sections(h, e) + HeapSize(h)
    ELSE IF Sections(h, e) < MaxSegment THEN MaxSegment ELSE Sections(h, e)

Fits(h, e)     == Needed(h, e) <= MaxSegment
SumWraps(h, e) == Needed(h, e) + Para - 1 >= DWordMod

\* The loader says of every executable whether a segment holds it, but of those
\* whose sizes wrap in the sum: it refuses none that fits, and those it accepts
\* and ought not to are exactly the accepted ones whose sum wraps.
OversizeRefused ==
    /\ phase = "refused" => ~Fits(header, env)
    /\ phase = "running" => (Fits(header, env) <=> ~SumWraps(header, env))

\* However brk and sbrk are mixed, unless the sum of the sizes wrapped, the break
\* stays between the end of the bss and the lowest SP that a push may leave
\* behind, rounded up to even as the loader rounds it.  The break is compared
\* with that limit and never with SP: a program that is loaded with an
\* environment larger than its stack begins with SP below the limit, and a pop,
\* or a load of SP, is not checked.
BreakBelowStackLow ==
    phase = "running" /\ ~SumWraps(header, env) =>
        /\ t_enddata <= t_endbrk
        /\ Base(header) + t_endbrk <= EvenUp(t_stackLow)
        /\ t_stackLow <= Base(header) + t_begstack

\* A push writes from the lowest SP up and below the end of the segment, whatever
\* the program loaded into SP, though SP wraps at 64K, and whatever the header
\* says.  With SP even it does not write into the heap, unless the sum of the
\* sizes wrapped: then the lowest SP may lie below the heap.
PushStaysInStack ==
    wrote.by = "push" =>
        /\ \A off \in wrote.offsets :
             /\ t_stackLow <= Base(header) + off
             /\ off < t_endseg /\ Base(header) + off < RamSize
        /\ sp % 2 = 0 /\ ~SumWraps(header, env) =>
             wrote.offsets \cap 0 .. t_endbrk - 1 = {}

\* Two functions add up the size of the environment block and a third place
\* fills it.  When the block fits under the top of the segment, the strings,
\* the pointers and the markers do not overlap, and the block ends where the
\* loader says the stack begins.
EnvironFits ==
    wrote.by = "loader" /\ EnvironSize(env) <= t_begstack =>
        LET n == Len(Strings(env))
            parts == [i \in 1 .. 2 * n |->
                        IF i <= n THEN Pointer(env, sp, i)
                                  ELSE StringBytes(env, sp, i - n)]
        IN  /\ wrote.offsets \subseteq sp .. t_begstack - 1
            /\ \A i, j \in 1 .. 2 * n : i # j => parts[i] \cap parts[j] = {}
            /\ \A i \in 1 .. 2 * n : parts[i] \cap Markers(env, sp) = {}

\* exe.h:83 calls t_minstack the "min stack size": a program that has just been
\* loaded can push that many bytes before it overflows.
MinStackAvailable ==
    wrote.by = "loader" => Base(header) + sp - t_stackLow >= t_minstack
=============================================================================
