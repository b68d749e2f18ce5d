-------------------------------- MODULE Isa86 --------------------------------
(***************************************************************************)
(* What the instruction loop promises: the 8086 as its programmer sees it. *)
(* One step is one whole instruction, its prefixes and all repetitions     *)
(* included, and it depends on nothing but the registers and the memory:   *)
(* no rep, segmentOverride, segment or repeating is left over from the     *)
(* instruction before.  A REP prefix has to be the last prefix, as the     *)
(* check at the head of executeInstruction() demands.                      *)
(***************************************************************************)
EXTENDS Memory86

CONSTANT Decode

VARIABLES ip, ac, bx, cx, si, di, zf, df, status

isaVars == <<ip, ac, bx, cx, si, di, zf, df, status, memoryVars>>

Overrides   == [es |-> "ES", cs |-> "CS", ss |-> "SS", ds |-> "DS"]
RepKinds    == {"repnz", "repz"}
StringOps   == {"movs", "cmps", "stos", "lods", "scas"}
JumpOps     == {"jmp", "jz", "jnz", "loop", "loopz", "loopnz", "jcxz"}

Init == status = "running"

\* The byte n places on in the code, and the instruction it encodes.
Code(n)  == ram[Address("CS", ip + n)]
At(n)    == Decode[Code(n)]
Prefix(n) == CanRead("CS", ip + n, 1)
                /\ At(n).op \in DOMAIN Overrides \cup RepKinds

\* The instruction at ip has n prefixes; a REP prefix is the last of them.
HasPrefixes(n) ==
    /\ \A m \in 0 .. n - 1 : Prefix(m)
    /\ \A m \in 0 .. n - 2 : At(m).op \notin RepKinds
    /\ Prefix(n) => n > 0 /\ At(n - 1).op \in RepKinds

WellFormed(n) ==
    /\ CanRead("CS", ip + n, 1)
    /\ n > 0 /\ At(n - 1).op \in RepKinds => At(n).op \in StringOps
    /\ n > 0 /\ At(n - 1).op = "repnz" => At(n).op \in {"cmps", "scas"}
    /\ At(n).op # "invalid"

\* The REP prefix of an instruction with n prefixes, and its data segment.
RepOf(n) == IF n > 0 /\ At(n - 1).op \in RepKinds THEN At(n - 1).op ELSE "none"
DataSegment(n) ==
    LET S == {m \in 0 .. n - 1 : At(m).op \in DOMAIN Overrides}
    IN  IF S = {} THEN "DS" ELSE Overrides[At(CHOOSE m \in S : \A k \in S : k <= m).op]

-----------------------------------------------------------------------------
(* String instructions: k-th elements lie k strides from SI and DI.          *)
Stride(n) == IF df THEN -At(n).width ELSE At(n).width
Accum(n)  == IF At(n).width = 1 THEN <<ac[1]>> ELSE ac

\* A memory: what is in RAM, its permissions, and whether every element processed
\* so far was possible.
First == [ok |-> TRUE, ram |-> ram, shadow |-> shadowRam]

Holds(m, flag, seg, off, width) ==
    \A i \in 0 .. width - 1 :
        Address(seg, off + i) < RamSize /\ flag \in m.shadow[Address(seg, off + i)]
Value(m, seg, off, width) ==
    IF width = 1 THEN <<m.ram[Address(seg, off)]>>
    ELSE <<m.ram[Address(seg, off)], m.ram[Address(seg, off + 1)]>>
Put(m, seg, off, cells) ==
    [ok |-> TRUE,
     ram |-> [a \in Ram |->
                IF a = Address(seg, off) THEN cells[1]
                ELSE IF Len(cells) = 2 /\ a = Address(seg, off + 1) THEN cells[2]
                ELSE m.ram[a]],
     shadow |-> [a \in Ram |-> IF a \in Span(seg, off, Len(cells))
                              THEN m.shadow[a] \cup {"fRead"} ELSE m.shadow[a]]]

\* Where element k is read from and written to.
Source(n, k) == si + k * Stride(n)
Target(n, k) == di + k * Stride(n)

\* Element k can be processed when memory is m.
Possible(n, m, k) ==
    /\ At(n).op \in {"movs", "cmps", "lods"} =>
         Holds(m, "fRead", DataSegment(n), Source(n, k), At(n).width)
    /\ At(n).op \in {"cmps", "scas"} =>
         Holds(m, "fRead", "ES", Target(n, k), At(n).width)
    /\ At(n).op \in {"movs", "stos"} =>
         Holds(m, "fWrite", "ES", Target(n, k), At(n).width)

\* Memory m after element k.
After(n, m, k) ==
    IF m.ok /\ Possible(n, m, k)
      THEN CASE At(n).op = "movs" ->
                  Put(m, "ES", Target(n, k),
                      Value(m, DataSegment(n), Source(n, k), At(n).width))
             [] At(n).op = "stos" -> Put(m, "ES", Target(n, k), Accum(n))
             [] OTHER -> m
      ELSE [m EXCEPT !.ok = FALSE]

\* Memory after each number of elements.
Memory(n) ==
    LET M[k \in 0 .. WordMod] == IF k = 0 THEN First ELSE After(n, M[k - 1], k - 1)
    IN  M

\* Does element k compare equal?
Equal(n, m, k) ==
    LET left == IF At(n).op = "cmps"
                  THEN Value(m, DataSegment(n), Source(n, k), At(n).width)
                  ELSE Accum(n)
    IN  left = Value(m, "ES", Target(n, k), At(n).width)

\* After k elements there is another one: an unrepeated instruction processes
\* one, REP processes CX of them, and the comparing ones stop early: REPZ after
\* the first difference, REPNZ after the first match.
Pending(n, k) ==
    IF RepOf(n) = "none" THEN k = 0
    ELSE /\ k < cx
         /\ At(n).op \in {"cmps", "scas"} =>
              \A j \in 0 .. k - 1 :
                 Equal(n, Memory(n)[j], j) # (RepOf(n) = "repnz")

String(n) ==
    /\ At(n).op \in StringOps
    /\ \E k \in 0 .. WordMod :
         /\ Memory(n)[k].ok
         /\ ~Pending(n, k)
         /\ k > 0 => Pending(n, k - 1)
         /\ LET m == Memory(n)[k] IN
              /\ ram' = m.ram /\ shadowRam' = m.shadow
              /\ ac' = IF At(n).op = "lods" /\ k > 0
                         THEN LET c == Value(m, DataSegment(n), Source(n, k - 1), At(n).width)
                              IN IF Len(c) = 1 THEN <<c[1], ac[2]>> ELSE c
                         ELSE ac
              /\ zf' = IF At(n).op \in {"cmps", "scas"} /\ k > 0
                         THEN Equal(n, m, k - 1) ELSE zf
         /\ cx' = IF RepOf(n) = "none" THEN cx ELSE cx - k
         /\ si' = IF At(n).op \in {"movs", "cmps", "lods"}
                    THEN ToWord(Source(n, k)) ELSE si
         /\ di' = IF At(n).op # "lods" THEN ToWord(Target(n, k)) ELSE di
    /\ ip' = ToWord(ip + n + 1)
    /\ UNCHANGED <<bx, df, sreg, status>>

-----------------------------------------------------------------------------
Direct(n) == ToWord(Code(n + 1) + ByteMod * Code(n + 2))

MovAccum(n) ==
    /\ At(n).op \in {"load", "store"}
    /\ CanRead("CS", ip + n + 1, 2)
    /\ IF At(n).op = "load"
         THEN /\ CanRead(DataSegment(n), Direct(n), At(n).width)
              /\ LET c == Contents(DataSegment(n), Direct(n), At(n).width)
                 IN  ac' = IF Len(c) = 1 THEN <<c[1], ac[2]>> ELSE c
              /\ UNCHANGED memoryVars
         ELSE /\ CanWrite(DataSegment(n), Direct(n), At(n).width)
              /\ Store(DataSegment(n), Direct(n), Accum(n))
              /\ UNCHANGED ac
    /\ ip' = ToWord(ip + n + 3)
    /\ UNCHANGED <<bx, cx, si, di, zf, df, status>>

\* XLATB translates AL through the table at BX, in the segment of an override or, as
\* the loop has it, in whichever one is the default at that time.
TableSegments(n) ==
    IF \E m \in 0 .. n - 1 : At(m).op \in DOMAIN Overrides THEN {DataSegment(n)} ELSE Segs
Xlat(n) ==
    /\ At(n).op = "xlat"
    /\ \E s \in TableSegments(n) :
         /\ CanRead(s, bx + ac[1], 1)
         /\ ac' = [ac EXCEPT ![1] = ram[Address(s, bx + ac[1])]]
    /\ ip' = ToWord(ip + n + 1)
    /\ UNCHANGED <<bx, cx, si, di, zf, df, status, memoryVars>>

Direction(n) ==
    /\ At(n).op \in {"cld", "std"}
    /\ df' = (At(n).op = "std")
    /\ ip' = ToWord(ip + n + 1)
    /\ UNCHANGED <<ac, bx, cx, si, di, zf, status, memoryVars>>

Jump(n) ==
    LET op == At(n).op
        counts == op \in {"loop", "loopz", "loopnz"}
        taken == /\ counts => cx # 1
                 /\ op \in {"jz", "loopz"} => zf
                 /\ op \in {"jnz", "loopnz"} => ~zf
                 /\ op = "jcxz" => cx = 0
        displacement == IF Code(n + 1) < ByteMod \div 2
                          THEN Code(n + 1) ELSE Code(n + 1) - ByteMod
    IN  /\ op \in JumpOps
        /\ CanRead("CS", ip + n + 1, 1)
        /\ cx' = IF counts THEN ToWord(cx - 1) ELSE cx
        /\ ip' = ToWord(ip + n + 2 + (IF taken THEN displacement ELSE 0))
        /\ UNCHANGED <<ac, bx, si, di, zf, df, status, memoryVars>>

Succeeds(n) == String(n) \/ MovAccum(n) \/ Xlat(n) \/ Direction(n) \/ Jump(n)

\* Some byte is fetched from where nothing was loaded, some element or operand
\* is out of bounds, or the instruction is not one.
Faults(n) ==
    /\ \/ ~WellFormed(n)
       \/ /\ WellFormed(n) /\ At(n).op \in StringOps
          /\ \E k \in 0 .. cx :
               Memory(n)[k].ok /\ Pending(n, k) /\ ~Possible(n, Memory(n)[k], k)
       \/ /\ WellFormed(n) /\ At(n).op \in {"load", "store"}
          /\ \/ ~CanRead("CS", ip + n + 1, 2)
             \/ /\ CanRead("CS", ip + n + 1, 2)
                /\ ~Allowed(IF At(n).op = "load" THEN "fRead" ELSE "fWrite",
                            DataSegment(n), Direct(n), At(n).width)
       \/ /\ WellFormed(n) /\ At(n).op \in JumpOps
          /\ ~CanRead("CS", ip + n + 1, 1)
       \/ /\ WellFormed(n) /\ At(n).op = "xlat"
          /\ \E s \in TableSegments(n) : ~CanRead(s, bx + ac[1], 1)
    /\ status' = "runtimeError"
    /\ UNCHANGED <<ip, ac, bx, cx, si, di, zf, df, memoryVars>>

\* Prefixes that never end are no step.  They fill the code segment, and no REP is
\* among them: offsets wrap, so after WordMod prefixes come the same ones again.
Next ==
    /\ status = "running"
    /\ \E n \in 0 .. WordMod :
         /\ HasPrefixes(n)
         /\ (WellFormed(n) /\ Succeeds(n)) \/ Faults(n)

Spec == Init /\ [][Next]_isaVars
=============================================================================
