----------------------------- MODULE Cpu86Proofs -----------------------------
(***************************************************************************)
(* Proofs about the instruction loop, for every width of bytes and words,  *)
(* every memory, every jump table and every program: its invariants, then  *)
(* that it implements the instruction set.                                 *)
(***************************************************************************)
EXTENDS Cpu86Ref, WellFoundedInduction, TLAPS

-----------------------------------------------------------------------------
(* Lemmas about the operators of Memory86.                                   *)

\* Any number assigned to a Word is one.
LEMMA ToWordType ==
    ASSUME NEW n \in Int
    PROVE  ToWord(n) \in Word
  BY MemoryAssumption, ShadowAssumption, SMT DEF ToWord, Word

\* The sum of a segment's start and an offset is not negative.
LEMMA AddressType ==
    ASSUME MemoryTypeOK, NEW seg \in Segs, NEW off \in Int
    PROVE  Address(seg, off) \in Nat
<1>1. ToWord(off) \in Nat
  BY ToWordType DEF Word
<1>2. sreg[seg] \in Nat /\ Para \in Nat
  BY MemoryAssumption, ShadowAssumption DEF MemoryTypeOK, ShadowTypeOK, Word
<1>3. sreg[seg] * Para \in Nat
  BY <1>2, SMT
<1> QED
  BY <1>1, <1>3 DEF Address

\* An allowed access touches bytes of RAM that have the flag.
LEMMA AllowedBytes ==
    ASSUME MemoryTypeOK, NEW flag, NEW seg \in Segs, NEW off \in Int,
           NEW width \in {1, 2}, Allowed(flag, seg, off, width)
    PROVE  /\ Address(seg, off) \in Ram
           /\ flag \in shadowRam[Address(seg, off)]
           /\ width = 2 => /\ Address(seg, off + 1) \in Ram
                           /\ flag \in shadowRam[Address(seg, off + 1)]
<1>1. off + 0 = off
  OBVIOUS
<1>2. 0 \in 0 .. width - 1 /\ (width = 2 => 1 \in 0 .. width - 1)
  OBVIOUS
<1>3. /\ Address(seg, off) < RamSize
      /\ flag \in shadowRam[Address(seg, off)]
  BY <1>1, <1>2 DEF Allowed
<1>4. width = 2 => /\ Address(seg, off + 1) < RamSize
                   /\ flag \in shadowRam[Address(seg, off + 1)]
  BY <1>2 DEF Allowed
<1>5. Address(seg, off) \in Nat /\ Address(seg, off + 1) \in Nat
  BY AddressType
<1> QED
  BY <1>3, <1>4, <1>5, MemoryAssumption, ShadowAssumption DEF Ram

\* What is read is a byte or two.
LEMMA ContentsType ==
    ASSUME MemoryTypeOK, NEW seg \in Segs, NEW off \in Int,
           NEW width \in {1, 2}, CanRead(seg, off, width)
    PROVE  /\ width = 1 => \E b \in Byte : Contents(seg, off, width) = <<b>>
           /\ width = 2 => Contents(seg, off, width) \in Byte \X Byte
<1>1. /\ Address(seg, off) \in Ram
      /\ width = 2 => Address(seg, off + 1) \in Ram
  BY AllowedBytes DEF CanRead
<1> QED
  BY <1>1 DEF MemoryTypeOK, ShadowTypeOK, Contents

\* A store that is allowed keeps the types, changes writable bytes only, and
\* adds at most permission to read what is writable.
Protected ==
    \A a \in Ram :
        /\ ram'[a] # ram[a] => "fWrite" \in shadowRam[a]
        /\ shadowRam'[a] # shadowRam[a] =>
             /\ "fWrite" \in shadowRam[a]
             /\ shadowRam'[a] = shadowRam[a] \cup {"fRead"}

LEMMA StoreProtected ==
    ASSUME MemoryTypeOK, NEW seg \in Segs, NEW off \in Int, NEW cells,
           \/ \E b \in Byte : cells = <<b>>
           \/ cells \in Byte \X Byte,
           CanWrite(seg, off, Len(cells)), Store(seg, off, cells)
    PROVE  MemoryTypeOK' /\ Protected
<1> DEFINE w == Len(cells)
<1>1. w \in {1, 2} /\ cells[1] \in Byte /\ (w = 2 => cells[2] \in Byte)
  OBVIOUS
<1> HIDE DEF w
<1>2. /\ Address(seg, off) \in Ram /\ "fWrite" \in shadowRam[Address(seg, off)]
      /\ w = 2 => /\ Address(seg, off + 1) \in Ram
                  /\ "fWrite" \in shadowRam[Address(seg, off + 1)]
  BY <1>1, AllowedBytes DEF CanWrite, w
<1>3. \A a \in Span(seg, off, w) :
        a = Address(seg, off) \/ (w = 2 /\ a = Address(seg, off + 1))
  <2>1. \A i \in 0 .. w - 1 : i = 0 \/ (w = 2 /\ i = 1)
    BY <1>1
  <2>2. off + 0 = off
    OBVIOUS
  <2> QED
    BY <2>1, <2>2 DEF Span
<1>4. /\ ram' = [a \in Ram |->
                  IF a = Address(seg, off) THEN cells[1]
                  ELSE IF w = 2 /\ a = Address(seg, off + 1) THEN cells[2]
                  ELSE ram[a]]
      /\ shadowRam' = [a \in Ram |->
                        IF a \in Span(seg, off, w)
                          THEN shadowRam[a] \cup {"fRead"} ELSE shadowRam[a]]
      /\ sreg' = sreg
  BY DEF Store, Granted, w
<1>5. \A a \in Ram : /\ ram'[a] \in Byte
                     /\ ram'[a] # ram[a] => "fWrite" \in shadowRam[a]
  BY <1>1, <1>2, <1>4 DEF MemoryTypeOK, ShadowTypeOK
<1>6. \A a \in Ram :
        /\ shadowRam'[a] \in SUBSET Flag
        /\ shadowRam'[a] # shadowRam[a] =>
             /\ "fWrite" \in shadowRam[a]
             /\ shadowRam'[a] = shadowRam[a] \cup {"fRead"}
  BY <1>2, <1>3, <1>4 DEF MemoryTypeOK, ShadowTypeOK, Flag
<1>7. ram' \in [Ram -> Byte] /\ shadowRam' \in [Ram -> SUBSET Flag]
  BY <1>4, <1>5, <1>6
<1> QED
  BY <1>4, <1>5, <1>6, <1>7 DEF MemoryTypeOK, ShadowTypeOK, Protected

-----------------------------------------------------------------------------
(* Lemmas about the head of executeInstruction() and about doRep().          *)

\* What the head computes before the switch.
LEMMA HeadType ==
    ASSUME TypeOK, Fetchable
    PROVE  /\ Opcode \in Byte /\ NextIP \in Word /\ Rep \in 0 .. 2
           /\ Override \in Segs \cup {"none"}
           /\ Decode[Opcode] \in Instructions /\ Width \in {1, 2}
<1>1. Opcode \in Byte
  <2>1. CASE repeating
    BY <2>1 DEF Opcode, TypeOK
  <2>2. CASE ~repeating
    <3>1. Allowed("fRead", "CS", ip, 1)
      BY <2>2 DEF Fetchable, CanRead
    <3>2. "CS" \in Segs /\ ip \in Int /\ MemoryTypeOK
      BY DEF TypeOK, Word, Segs
    <3>3. Address("CS", ip) \in Ram
      BY <3>1, <3>2, AllowedBytes
    <3> QED
      BY <2>2, <3>3 DEF Opcode, TypeOK, MemoryTypeOK, ShadowTypeOK
  <2> QED
    BY <2>1, <2>2 DEF TypeOK
<1>2. NextIP \in Word
  BY ToWordType DEF NextIP, TypeOK, Word
<1>3. Rep \in 0 .. 2 /\ Override \in Segs \cup {"none"}
  BY DEF Rep, Override, TypeOK
<1>4. Decode[Opcode] \in Instructions
  BY <1>1, CpuAssumption
<1>5. Width \in {1, 2}
  BY <1>4 DEF Width, Instructions
<1> QED
  BY <1>1, <1>2, <1>3, <1>4, <1>5

\* The segment of an access is a segment register.
LEMMA EffectiveType ==
    ASSUME TypeOK, NEW s \in Segs
    PROVE  Effective(s) \in Segs
  BY DEF Effective, Override, TypeOK

\* String instructions move their pointers to another offset.
LEMMA AdvanceType ==
    ASSUME TypeOK, Fetchable
    PROVE  /\ AdvanceSI => si' \in Word
           /\ AdvanceDI => di' \in Word
<1>1. StringIncrement \in Int
  BY HeadType DEF StringIncrement
<1>2. si + StringIncrement \in Int /\ di + StringIncrement \in Int
  BY <1>1 DEF TypeOK, Word
<1> QED
  BY <1>2, ToWordType DEF AdvanceSI, AdvanceDI

\* The accumulator written to memory, and back.
LEMMA AccumType ==
    ASSUME TypeOK, Fetchable
    PROVE  /\ Len(Accum) = Width
           /\ (\E b \in Byte : Accum = <<b>>) \/ Accum \in Byte \X Byte
           /\ \A s \in Segs, off \in Int :
                CanRead(s, off, Width) /\ SetAccum(Contents(s, off, Width))
                  => ac' \in Byte \X Byte
<1>1. CASE Width = 1
  <2>1. ac[1] \in Byte /\ ac[2] \in Byte
    BY DEF TypeOK
  <2>2. ASSUME NEW s \in Segs, NEW off \in Int, CanRead(s, off, 1),
               SetAccum(Contents(s, off, 1))
        PROVE  ac' \in Byte \X Byte
    <3>1. PICK b \in Byte : Contents(s, off, 1) = <<b>>
      BY <2>2, ContentsType DEF TypeOK
    <3> QED
      BY <1>1, <2>1, <2>2, <3>1 DEF SetAccum
  <2> QED
    BY <1>1, <2>1, <2>2 DEF Accum
<1>2. CASE Width = 2
  <2>1. \A s \in Segs, off \in Int :
          CanRead(s, off, 2) => Contents(s, off, 2) \in Byte \X Byte
    BY ContentsType DEF TypeOK
  <2> QED
    BY <1>2, <2>1 DEF Accum, SetAccum, TypeOK
<1> QED
  BY <1>1, <1>2, HeadType

\* The protocol between doRep() and the next call: RepeatProtocol and the types
\* of the control state hold after any string instruction.
LEMMA DoRepProtocol ==
    ASSUME TypeOK, RepeatProtocol, NEW compares \in BOOLEAN,
           Fetched(StringOps), compares <=> (Op \in ComparesOps),
           EndString(compares), zf' \in BOOLEAN
    PROVE  /\ RepeatProtocol'
           /\ ip' \in Word /\ lastIP' \in Word /\ cx' \in Word /\ bx' \in Word
           /\ df' \in BOOLEAN /\ prefix' \in BOOLEAN /\ repeating' \in BOOLEAN
           /\ rep' \in 0 .. 2 /\ segmentOverride' \in Segs \cup {"none"}
           /\ opcode' \in Byte
<1>1. Fetchable /\ opcode' = Opcode /\ Op \in StringOps
  BY DEF Fetched
<1>2. /\ ip' = NextIP /\ prefix' = FALSE /\ rep' = Rep
      /\ segmentOverride' = Override /\ bx' = bx /\ df' = df
      /\ lastIP' = IF repeating' THEN lastIP ELSE ip'
      /\ compares \/ Rep # 1
  BY DEF EndString, DoRep, NoteIP
<1>3. /\ cx' \in Word
      /\ repeating' \in BOOLEAN
      /\ repeating' => rep' # 0 /\ cx' # 0
  <2>1. CASE Rep = 0 \/ cx = 0
    <3>1. cx' = cx /\ repeating' = repeating
      BY <2>1 DEF EndString, DoRep
    <3>2. ~repeating
      BY <2>1 DEF RepeatProtocol, Rep, Continues
    <3> QED
      BY <3>1, <3>2 DEF TypeOK
  <2>2. CASE Rep # 0 /\ cx # 0
    <3>1. cx' = cx - 1 /\ repeating' = (cx' # 0 /\ (~compares \/ zf' # (Rep = 1)))
      BY <2>2 DEF EndString, DoRep
    <3>2. cx' \in Word
      <4>1. cx' = cx - 1
        BY <3>1, Zenon
      <4>2. cx \in 0 .. WordMod - 1 /\ cx # 0 /\ WordMod \in Nat
        BY <2>2, MemoryAssumption, ShadowAssumption DEF TypeOK, Word
      <4> QED
        BY <4>1, <4>2 DEF Word
    <3>3. repeating' \in BOOLEAN
      BY <3>1, Zenon
    <3>4. repeating' => cx' # 0
      BY <3>1, Zenon
    <3> QED
      BY <1>2, <2>2, <3>2, <3>3, <3>4
  <2> QED
    BY <2>1, <2>2
<1>4. repeating' => ip' = ToWord(lastIP' + 1)
  BY <1>2 DEF NextIP, RepeatProtocol
<1>5. Decode[opcode'].op = Op
  BY <1>1 DEF Op
<1>6. RepeatProtocol'
  BY <1>1, <1>2, <1>3, <1>4, <1>5 DEF RepeatProtocol
<1>7. ip' \in Word /\ lastIP' \in Word
  BY <1>1, <1>2, HeadType DEF TypeOK
<1> QED
  BY <1>1, <1>2, <1>3, <1>6, <1>7, HeadType DEF TypeOK

-----------------------------------------------------------------------------
(* One lemma for each kind of step.                                          *)

\* What is proved to be inductive.  ShownIsExecuted needs both other parts:
\* RepeatProtocol says that the byte shown was the one fetched, and no step
\* changes a byte that is not writable.
IndInv ==
    /\ TypeOK
    /\ RepeatProtocol
    /\ repeating => Address("CS", lastIP) \in Ram
    /\ ShownIsExecuted

\* What a step has to establish besides ShownIsExecuted.
StepOK == TypeOK' /\ RepeatProtocol' /\ Protected

\* Instructions that are not repeated: they leave repeating as it was, which a
\* pending repetition (always of a string instruction) rules out.
LEMMA PlainStep ==
    ASSUME TypeOK, RepeatProtocol, NEW ops, ops \cap StringOps = {}, Fetched(ops),
           UNCHANGED repeating
    PROVE  ~repeating /\ ~repeating'
<1>1. Op \in ops
  BY DEF Fetched
<1>2. repeating => Op \in StringOps
  BY DEF RepeatProtocol, Op, Opcode
<1> QED
  BY <1>1, <1>2 DEF TypeOK

LEMMA PrefixStep ==
    ASSUME IndInv, SegmentOverride \/ Repeat
    PROVE  StepOK
<1>1. CASE SegmentOverride
  <2>1. Fetched({"es", "cs", "ss", "ds"}) /\ UNCHANGED repeating
    BY <1>1 DEF SegmentOverride
  <2>2. ~repeating /\ ~repeating'
    BY <2>1, PlainStep DEF StringOps, IndInv
  <2>3. SegmentPrefix[Op] \in Segs
    BY <2>1 DEF Fetched, SegmentPrefix, Segs
  <2>4. UNCHANGED memoryVars /\ Fetchable
    BY <1>1, <2>1 DEF SegmentOverride, Fetched
  <2>5. TypeOK'
    BY <1>1, <2>1, <2>2, <2>3, <2>4, HeadType
    DEF SegmentOverride, NoteIP, Fetched, TypeOK, MemoryTypeOK, ShadowTypeOK, IndInv,
        memoryVars, flags
  <2>6. RepeatProtocol'
    BY <1>1, <2>2 DEF SegmentOverride, RepeatProtocol, NoteIP
  <2> QED
    BY <2>4, <2>5, <2>6 DEF StepOK, Protected, memoryVars
<1>2. CASE Repeat
  <2>1. Fetched({"repnz", "repz"}) /\ UNCHANGED repeating
    BY <1>2 DEF Repeat
  <2>2. ~repeating /\ ~repeating'
    BY <2>1, PlainStep DEF StringOps, IndInv
  <2>3. RepPrefix[Op] \in 0 .. 2
    BY <2>1 DEF Fetched, RepPrefix
  <2>4. UNCHANGED memoryVars /\ Fetchable
    BY <1>2, <2>1 DEF Repeat, Fetched
  <2>5. TypeOK'
    BY <1>2, <2>1, <2>2, <2>3, <2>4, HeadType
    DEF Repeat, NoteIP, Fetched, TypeOK, MemoryTypeOK, ShadowTypeOK, IndInv, memoryVars, flags
  <2>6. RepeatProtocol'
    BY <1>2, <2>2 DEF Repeat, RepeatProtocol, NoteIP
  <2> QED
    BY <2>4, <2>5, <2>6 DEF StepOK, Protected, memoryVars
<1> QED
  BY <1>1, <1>2

\* A string instruction keeps the invariant if its body keeps the types.
LEMMA StringStep ==
    ASSUME IndInv, NEW compares \in BOOLEAN, Fetched(StringOps),
           compares <=> (Op \in ComparesOps), EndString(compares),
           ac' \in Byte \X Byte, si' \in Word, di' \in Word, zf' \in BOOLEAN,
           segment' \in Segs, MemoryTypeOK', Protected
    PROVE  StepOK
<1>1. status' = status
  BY DEF Fetched
<1>2. /\ RepeatProtocol'
      /\ ip' \in Word /\ lastIP' \in Word /\ cx' \in Word /\ bx' \in Word
      /\ df' \in BOOLEAN /\ prefix' \in BOOLEAN /\ repeating' \in BOOLEAN
      /\ rep' \in 0 .. 2 /\ segmentOverride' \in Segs \cup {"none"}
      /\ opcode' \in Byte
  BY DoRepProtocol DEF IndInv
<1>3. TypeOK'
  BY <1>1, <1>2 DEF TypeOK, IndInv
<1> QED
  BY <1>2, <1>3 DEF StepOK

LEMMA UnchangedMemory ==
    ASSUME TypeOK, UNCHANGED memoryVars
    PROVE  MemoryTypeOK' /\ Protected
  BY DEF memoryVars, MemoryTypeOK, ShadowTypeOK, Protected, TypeOK

LEMMA FetchedString ==
    ASSUME NEW op \in StringOps, Fetched({op})
    PROVE  Fetched(StringOps) /\ Op = op
  BY DEF Fetched

LEMMA StringsStep ==
    ASSUME IndInv, StringSkip \/ Movs \/ Cmps \/ Stos \/ Lods \/ Scas
    PROVE  StepOK
<1> USE DEF StringOps, ComparesOps
<1>1. TypeOK /\ "DS" \in Segs /\ "ES" \in Segs
  BY DEF IndInv, Segs
<1>2. Effective("DS") \in Segs /\ si \in Int /\ di \in Int
  BY <1>1, EffectiveType DEF TypeOK, Word
<1>3. CASE StringSkip
  <2>1. Fetched(StringOps) /\ EndString(Op \in ComparesOps)
    BY <1>3 DEF StringSkip
  <2>2. MemoryTypeOK' /\ Protected
    BY <1>1, <1>3, UnchangedMemory DEF StringSkip
  <2>3. /\ ac' \in Byte \X Byte /\ si' \in Word /\ di' \in Word
        /\ zf' \in BOOLEAN /\ segment' \in Segs
    BY <1>1, <1>3 DEF StringSkip, TypeOK
  <2> DEFINE compares == Op \in ComparesOps
  <2>4. compares \in BOOLEAN /\ (compares <=> Op \in ComparesOps)
    OBVIOUS
  <2>5. EndString(compares)
    BY <2>1
  <2> HIDE DEF StringOps, ComparesOps, compares
  <2> QED
    BY <2>1, <2>2, <2>3, <2>4, <2>5, StringStep
<1>4. CASE Movs
  <2>1. Fetched({"movs"}) /\ EndString(FALSE)
    BY <1>4 DEF Movs
  <2>2. Fetched(StringOps) /\ Op = "movs" /\ Fetchable
    BY <2>1, FetchedString DEF Fetched
  <2>3. MemoryTypeOK' /\ Protected
    <3> DEFINE cells == Contents(Effective("DS"), si, Width)
    <3>1. /\ CanRead(Effective("DS"), si, Width) /\ CanWrite("ES", di, Width)
          /\ Store("ES", di, cells)
      BY <1>4 DEF Movs
    <3>2. Width \in {1, 2}
      BY <1>1, <2>2, HeadType
    <3>3. /\ Width = 1 => \E b \in Byte : cells = <<b>>
          /\ Width = 2 => cells \in Byte \X Byte
      BY <1>1, <1>2, <3>1, <3>2, ContentsType DEF TypeOK
    <3>4. /\ Len(cells) = Width
          /\ (\E b \in Byte : cells = <<b>>) \/ cells \in Byte \X Byte
      <4> HIDE DEF cells
      <4> QED
        BY <3>2, <3>3
    <3> QED
      BY <1>1, <1>2, <3>1, <3>4, StoreProtected DEF TypeOK
  <2>4. /\ ac' \in Byte \X Byte /\ si' \in Word /\ di' \in Word
        /\ zf' \in BOOLEAN /\ segment' \in Segs
    BY <1>1, <1>4, <2>2, AdvanceType DEF Movs, TypeOK
  <2> QED
    BY <2>1, <2>2, <2>3, <2>4, StringStep
<1>5. CASE Cmps
  <2>1. Fetched({"cmps"}) /\ EndString(TRUE)
    BY <1>5 DEF Cmps
  <2>2. Fetched(StringOps) /\ Op = "cmps" /\ Fetchable
    BY <2>1, FetchedString DEF Fetched
  <2>3. MemoryTypeOK' /\ Protected
    BY <1>1, <1>5, UnchangedMemory DEF Cmps
  <2>4. /\ ac' \in Byte \X Byte /\ si' \in Word /\ di' \in Word
        /\ zf' \in BOOLEAN /\ segment' \in Segs
    BY <1>1, <1>5, <2>2, AdvanceType DEF Cmps, TypeOK
  <2> QED
    BY <2>1, <2>2, <2>3, <2>4, StringStep
<1>6. CASE Stos
  <2>1. Fetched({"stos"}) /\ EndString(FALSE)
    BY <1>6 DEF Stos
  <2>2. Fetched(StringOps) /\ Op = "stos" /\ Fetchable
    BY <2>1, FetchedString DEF Fetched
  <2>3. MemoryTypeOK' /\ Protected
    <3>1. CanWrite("ES", di, Len(Accum)) /\ Store("ES", di, Accum)
      BY <1>1, <1>6, <2>2, AccumType DEF Stos
    <3>2. (\E b \in Byte : Accum = <<b>>) \/ Accum \in Byte \X Byte
      BY <1>1, <2>2, AccumType
    <3> QED
      BY <1>1, <1>2, <3>1, <3>2, StoreProtected DEF TypeOK
  <2>4. /\ ac' \in Byte \X Byte /\ si' \in Word /\ di' \in Word
        /\ zf' \in BOOLEAN /\ segment' \in Segs
    BY <1>1, <1>6, <2>2, AdvanceType DEF Stos, TypeOK
  <2> QED
    BY <2>1, <2>2, <2>3, <2>4, StringStep
<1>7. CASE Lods
  <2>1. Fetched({"lods"}) /\ EndString(FALSE)
    BY <1>7 DEF Lods
  <2>2. Fetched(StringOps) /\ Op = "lods" /\ Fetchable
    BY <2>1, FetchedString DEF Fetched
  <2>3. MemoryTypeOK' /\ Protected
    BY <1>1, <1>7, UnchangedMemory DEF Lods
  <2>4. ac' \in Byte \X Byte
    BY <1>1, <1>2, <1>7, <2>2, AccumType DEF Lods
  <2>5. /\ si' \in Word /\ di' \in Word /\ zf' \in BOOLEAN /\ segment' \in Segs
    BY <1>1, <1>7, <2>2, AdvanceType DEF Lods, TypeOK
  <2> QED
    BY <2>1, <2>2, <2>3, <2>4, <2>5, StringStep
<1>8. CASE Scas
  <2>1. Fetched({"scas"}) /\ EndString(TRUE)
    BY <1>8 DEF Scas
  <2>2. Fetched(StringOps) /\ Op = "scas" /\ Fetchable
    BY <2>1, FetchedString DEF Fetched
  <2>3. MemoryTypeOK' /\ Protected
    BY <1>1, <1>8, UnchangedMemory DEF Scas
  <2>4. /\ ac' \in Byte \X Byte /\ si' \in Word /\ di' \in Word
        /\ zf' \in BOOLEAN /\ segment' \in Segs
    BY <1>1, <1>8, <2>2, AdvanceType DEF Scas, TypeOK
  <2> QED
    BY <2>1, <2>2, <2>3, <2>4, StringStep
<1> QED
  BY <1>3, <1>4, <1>5, <1>6, <1>7, <1>8

\* The cases that read an operand or a jump displacement after the opcode.
LEMMA OperandType ==
    ASSUME TypeOK, Fetchable
    PROVE  /\ CanRead("CS", NextIP, 2) => Direct \in Int
           /\ CanRead("CS", NextIP, 1)
                => SignExtend(ram[Address("CS", NextIP)]) \in Int
<1>1. "CS" \in Segs /\ NextIP \in Int /\ MemoryTypeOK
  BY HeadType DEF Segs, TypeOK, Word
<1>2. ASSUME CanRead("CS", NextIP, 1)
      PROVE  ram[Address("CS", NextIP)] \in Byte
  <2>1. Address("CS", NextIP) \in Ram
    BY <1>1, <1>2, AllowedBytes DEF CanRead
  <2> QED
    BY <1>1, <2>1 DEF MemoryTypeOK, ShadowTypeOK
<1>3. ASSUME CanRead("CS", NextIP, 2)
      PROVE  Direct \in Int
  <2>1. Address("CS", NextIP) \in Ram /\ Address("CS", NextIP + 1) \in Ram
    BY <1>1, <1>3, AllowedBytes DEF CanRead
  <2>2. ram[Address("CS", NextIP)] \in Nat /\ ram[Address("CS", NextIP + 1)] \in Nat
    BY <1>1, <2>1 DEF MemoryTypeOK, ShadowTypeOK, Byte
  <2>3. ram[Address("CS", NextIP)] + ByteMod * ram[Address("CS", NextIP + 1)] \in Int
    BY <2>2, MemoryAssumption, ShadowAssumption
  <2> QED
    BY <2>3, ToWordType DEF Direct, Word
<1> QED
  BY <1>2, <1>3, MemoryAssumption, ShadowAssumption DEF SignExtend, Byte

LEMMA OtherStep ==
    ASSUME IndInv, Load \/ StoreAccum \/ Xlat \/ SetDirection \/ JumpShort
    PROVE  StepOK
<1>1. TypeOK /\ RepeatProtocol
  BY DEF IndInv
<1>2. \E ops \in {{"load"}, {"store"}, {"xlat"}, {"cld", "std"}, JumpOps} : Fetched(ops)
  BY DEF Load, StoreAccum, Xlat, SetDirection, JumpShort
<1>3. Done /\ NoteIP
  BY DEF Load, StoreAccum, Xlat, SetDirection, JumpShort
<1>4. ~repeating /\ ~repeating'
  BY <1>1, <1>2, <1>3, PlainStep DEF JumpOps, StringOps, Done
<1>5. Fetchable /\ opcode' = Opcode /\ status' = status
  BY <1>2 DEF Fetched
<1>6. /\ opcode' \in Byte /\ prefix' \in BOOLEAN /\ repeating' \in BOOLEAN
      /\ rep' \in 0 .. 2 /\ segmentOverride' \in Segs \cup {"none"}
      /\ status' \in {"running", "runtimeError"} /\ lastIP' = ip'
  BY <1>1, <1>3, <1>4, <1>5, HeadType DEF Done, NoteIP, TypeOK
<1>7. RepeatProtocol'
  BY <1>4, <1>6 DEF RepeatProtocol
<1>8. "DS" \in Segs /\ Effective("DS") \in Segs /\ NextIP \in Int
  BY <1>1, <1>5, EffectiveType, HeadType DEF Segs, Word
<1>9. CASE Load
  <2>1. MemoryTypeOK' /\ Protected
    BY <1>1, <1>9, UnchangedMemory DEF Load
  <2>2. Direct \in Int
    BY <1>1, <1>5, <1>9, OperandType DEF Load
  <2>3. ac' \in Byte \X Byte
    BY <1>1, <1>5, <1>8, <1>9, <2>2, AccumType DEF Load
  <2>4. ip' \in Word
    BY <1>8, <1>9, ToWordType DEF Load
  <2> QED
    BY <1>1, <1>6, <1>7, <1>8, <1>9, <2>1, <2>3, <2>4
    DEF StepOK, TypeOK, Load, flags
<1>10. CASE StoreAccum
  <2>1. Direct \in Int
    BY <1>1, <1>5, <1>10, OperandType DEF StoreAccum
  <2>2. MemoryTypeOK' /\ Protected
    <3>1. /\ CanWrite(Effective("DS"), Direct, Len(Accum))
          /\ Store(Effective("DS"), Direct, Accum)
      BY <1>1, <1>5, <1>10, AccumType DEF StoreAccum
    <3>2. (\E b \in Byte : Accum = <<b>>) \/ Accum \in Byte \X Byte
      BY <1>1, <1>5, AccumType
    <3> QED
      BY <1>1, <1>8, <2>1, <3>1, <3>2, StoreProtected DEF TypeOK
  <2>3. ip' \in Word
    BY <1>8, <1>10, ToWordType DEF StoreAccum
  <2> QED
    BY <1>1, <1>6, <1>7, <1>8, <1>10, <2>2, <2>3
    DEF StepOK, TypeOK, StoreAccum, flags
<1>11. CASE Xlat
  <2>1. MemoryTypeOK' /\ Protected
    BY <1>1, <1>11, UnchangedMemory DEF Xlat
  <2>2. /\ ac[1] \in Byte /\ ac[2] \in Byte /\ bx + ac[1] \in Int
        /\ segment \in Segs
    BY <1>1 DEF TypeOK, Word, Byte
  <2>3. Effective(segment) \in Segs
    BY <1>1, <2>2, EffectiveType
  <2>4. Address(Effective(segment), bx + ac[1]) \in Ram
    BY <1>1, <1>11, <2>2, <2>3, AllowedBytes DEF Xlat, CanRead, TypeOK
  <2>5. ac' \in Byte \X Byte
    BY <1>1, <1>11, <2>2, <2>4 DEF Xlat, TypeOK, MemoryTypeOK, ShadowTypeOK
  <2>6. ip' \in Word
    BY <1>1, <1>5, <1>11, HeadType DEF Xlat
  <2> QED
    BY <1>1, <1>6, <1>7, <1>11, <2>1, <2>5, <2>6 DEF StepOK, TypeOK, Xlat, flags
<1>12. CASE SetDirection
  <2>1. MemoryTypeOK' /\ Protected
    BY <1>1, <1>12, UnchangedMemory DEF SetDirection
  <2>2. ip' \in Word /\ df' \in BOOLEAN
    BY <1>1, <1>5, <1>12, HeadType DEF SetDirection
  <2> QED
    BY <1>1, <1>6, <1>7, <1>12, <2>1, <2>2 DEF StepOK, TypeOK, SetDirection
<1>13. CASE JumpShort
  <2>1. MemoryTypeOK' /\ Protected
    BY <1>1, <1>13, UnchangedMemory DEF JumpShort
  <2>2. cx' \in Word
    BY <1>1, <1>13, ToWordType DEF JumpShort, CountedCX, TypeOK, Word
  <2>3. SignExtend(ram[Address("CS", NextIP)]) \in Int
    BY <1>1, <1>5, <1>13, OperandType DEF JumpShort
  <2>4. ip' \in Word
    BY <1>8, <1>13, <2>3, ToWordType DEF JumpShort
  <2> QED
    BY <1>1, <1>6, <1>7, <1>13, <2>1, <2>2, <2>4 DEF StepOK, TypeOK, JumpShort, flags
<1> QED
  BY <1>9, <1>10, <1>11, <1>12, <1>13

LEMMA ErrorStep ==
    ASSUME IndInv, RuntimeError \/ UNCHANGED vars
    PROVE  StepOK
<1>1. UNCHANGED <<regs, flags, control, lastIP, memoryVars>>
  BY DEF RuntimeError, vars
<1>2. status' \in {"running", "runtimeError"}
  BY DEF RuntimeError, vars, IndInv, TypeOK
<1>3. TypeOK'
  BY <1>1, <1>2 DEF TypeOK, MemoryTypeOK, ShadowTypeOK, IndInv, regs, flags, control, memoryVars
<1>4. RepeatProtocol'
  BY <1>1 DEF RepeatProtocol, IndInv, regs, control
<1> QED
  BY <1>1, <1>3, <1>4 DEF StepOK, Protected, memoryVars

LEMMA EveryStep ==
    ASSUME IndInv, [Next]_vars
    PROVE  StepOK
<1>1. CASE SegmentOverride \/ Repeat
  BY <1>1, PrefixStep
<1>2. CASE StringSkip \/ Movs \/ Cmps \/ Stos \/ Lods \/ Scas
  BY <1>2, StringsStep
<1>3. CASE Load \/ StoreAccum \/ Xlat \/ SetDirection \/ JumpShort
  BY <1>3, OtherStep
<1>4. CASE RuntimeError \/ UNCHANGED vars
  BY <1>4, ErrorStep
<1> QED
  BY <1>1, <1>2, <1>3, <1>4 DEF Next, Exited

\* A step that leaves a repetition pending has fetched the byte that main()
\* shows, or continues a repetition of it; the byte can have changed only if it
\* is writable.
LEMMA ShownStep ==
    ASSUME IndInv, [Next]_vars, StepOK
    PROVE  (repeating => Address("CS", lastIP) \in Ram)' /\ ShownIsExecuted'
<1> SUFFICES ASSUME repeating'
             PROVE  /\ Address("CS", lastIP)' \in Ram
                    /\ "fWrite" \notin shadowRam'[Address("CS", lastIP)']
                         => ram'[Address("CS", lastIP)'] = opcode'
  BY DEF ShownIsExecuted
<1> DEFINE shown == Address("CS", lastIP)
<1>1. sreg' = sreg
  BY DEF Next, vars, memoryVars, SegmentOverride, Repeat, StringSkip, Movs, Cmps,
         Stos, Lods, Scas, Load, StoreAccum, Xlat, SetDirection, JumpShort,
         RuntimeError, Exited, Store, Granted
<1>2. \/ lastIP' = lastIP /\ opcode' = opcode /\ repeating
      \/ lastIP' = lastIP /\ opcode' = Opcode /\ Fetchable
  BY DEF Next, vars, control, SegmentOverride, Repeat, StringSkip, Movs, Cmps,
         Stos, Lods, Scas, Load, StoreAccum, Xlat, SetDirection, JumpShort,
         RuntimeError, Exited, EndString, Fetched, NoteIP, Done
<1>3. shown' = shown
  BY <1>1, <1>2 DEF Address, ToWord
<1>4. /\ shown \in Ram
      /\ "fWrite" \notin shadowRam[shown] => ram[shown] = opcode'
  <2>1. CASE repeating
    BY <1>2, <2>1 DEF IndInv, ShownIsExecuted, Opcode
  <2>2. CASE ~repeating
    <3>1. lastIP = ip /\ opcode' = ram[Address("CS", ip)] /\ CanRead("CS", ip, 1)
      BY <1>2, <2>2 DEF IndInv, RepeatProtocol, Opcode, Fetchable
    <3>2. "CS" \in Segs /\ ip \in Int /\ MemoryTypeOK
      BY DEF IndInv, TypeOK, Word, Segs
    <3>3. Address("CS", ip) \in Ram
      BY <3>1, <3>2, AllowedBytes DEF CanRead
    <3> QED
      BY <3>1, <3>3
  <2> QED
    BY <2>1, <2>2 DEF IndInv, TypeOK
<1>5. "fWrite" \notin shadowRam'[shown]
        => "fWrite" \notin shadowRam[shown] /\ ram'[shown] = ram[shown]
  BY <1>4 DEF StepOK, Protected
<1> QED
  BY <1>3, <1>4, <1>5

LEMMA InductiveStep ==
    ASSUME IndInv, [Next]_vars
    PROVE  IndInv'
<1>1. StepOK
  BY EveryStep
<1> QED
  BY <1>1, ShownStep DEF StepOK, IndInv

LEMMA InitInductive == Init => IndInv
<1>1. 0 \in Byte
  BY MemoryAssumption, ShadowAssumption DEF Byte
<1>2. Init => TypeOK
  <2>1. Init => /\ rep \in 0 .. 2
                /\ segmentOverride \in Segs \cup {"none"} /\ segment \in Segs
                /\ status \in {"running", "runtimeError"}
    BY DEF Init, Segs
  <2>2. Init => lastIP \in Word /\ opcode \in Byte
    BY <1>1 DEF Init
  <2>3. Init => prefix \in BOOLEAN /\ repeating \in BOOLEAN
    BY Zenon DEF Init
  <2> QED
    BY <2>1, <2>2, <2>3, Zenon DEF Init, TypeOK
<1>3. Init => ~repeating /\ lastIP = ip
  BY DEF Init
<1> QED
  BY <1>2, <1>3, Zenon DEF IndInv, RepeatProtocol, ShownIsExecuted

LEMMA Inductive == Spec => []IndInv
<1>1. IndInv /\ [Next]_vars => IndInv'
  BY InductiveStep
<1> QED
  BY <1>1, InitInductive, PTL DEF Spec

-----------------------------------------------------------------------------
(* The theorems.                                                             *)

\* Every variable keeps its type: in particular CX is never counted below zero
\* and no store leaves RAM.
THEOREM TypeCorrect == Spec => []TypeOK
<1>1. IndInv => TypeOK
  BY DEF IndInv
<1> QED
  BY <1>1, Inductive, PTL

\* What one call of executeInstruction() leaves for the next is always a
\* consistent repetition, and main() always shows the instruction executed next.
THEOREM RepeatProtocolHolds == Spec => []RepeatProtocol
<1>1. IndInv => RepeatProtocol
  BY DEF IndInv
<1> QED
  BY <1>1, Inductive, PTL

\* A repetition in write-protected code executes the byte that main() shows.
THEOREM ShownIsExecutedHolds == Spec => []ShownIsExecuted
<1>1. IndInv => ShownIsExecuted
  BY DEF IndInv
<1> QED
  BY <1>1, Inductive, PTL

\* No instruction changes a byte the loader did not make writable, or grants
\* itself a permission other than to read back what it may write.
THEOREM MemoryProtected == Spec => MemoryProtection
<1>1. IndInv /\ [Next]_vars => [Protected]_vars
  BY EveryStep DEF StepOK
<1> QED
  BY <1>1, Inductive, PTL DEF Spec, MemoryProtection, Protected

-----------------------------------------------------------------------------
(* The loop implements the instruction set.                                  *)
(*                                                                           *)
(* Between two calls of executeInstruction() the loop is in the middle of an *)
(* instruction: it has executed some of its prefixes (Begun), or all of them *)
(* and some of its elements (Executing).  The globals and registers are then *)
(* a function of the machine the instruction began with and of those two     *)
(* numbers, and the step that completes the instruction brings about what    *)
(* the instruction set says.                                                 *)

-----------------------------------------------------------------------------
(* Arithmetic of words.                                                      *)

\* The only multiple of w nearer to zero than w is zero.
LEMMA Multiple ==
    ASSUME NEW w \in Nat \ {0}, NEW d \in Int, -w < w * d, w * d < w
    PROVE  d = 0
<1>1. ASSUME d >= 1 PROVE FALSE
  <2>1. w * (d - 1) >= 0
    BY <1>1, SMT
  <2>2. w * (d - 1) = w * d - w
    BY SMT
  <2> QED
    BY <2>1, <2>2
<1>2. ASSUME d <= -1 PROVE FALSE
  <2>1. w * (-1 - d) >= 0
    BY <1>2, SMT
  <2>2. w * (-1 - d) = -w - w * d
    BY SMT
  <2> QED
    BY <2>1, <2>2
<1> QED
  BY <1>1, <1>2

\* ToWord() is what a division leaves over.
LEMMA ToWordDivision ==
    ASSUME NEW n \in Int
    PROVE  \E q \in Int : n = WordMod * q + ToWord(n)
<1> DEFINE w == WordMod
<1>1. w \in Nat \ {0}
  BY ShadowAssumption
<1> HIDE DEF w
<1>2. n = w * (n \div w) + (n % w) /\ n \div w \in Int
  BY <1>1
<1> QED
  BY <1>2 DEF ToWord, w

\* There is only one such remainder.
LEMMA ToWordUnique ==
    ASSUME NEW n \in Int, NEW r \in Word, NEW q \in Int, n = WordMod * q + r
    PROVE  ToWord(n) = r
<1> DEFINE w == WordMod
           t == ToWord(n)
<1>1. w \in Nat \ {0}
  BY ShadowAssumption
<1>2. PICK p \in Int : n = w * p + t
  BY ToWordDivision
<1>3. t \in 0 .. w - 1 /\ r \in 0 .. w - 1
  BY ToWordType DEF Word
<1>4. n = w * q + r
  OBVIOUS
<1> HIDE DEF w, t
<1>5. w * (p - q) = w * p - w * q
  BY <1>1
<1>6. w * (p - q) = r - t
  BY <1>1, <1>2, <1>3, <1>4, <1>5
<1>7. -w < r - t /\ r - t < w
  BY <1>1, <1>3
<1>8. p - q = 0
  BY <1>1, <1>6, <1>7, Multiple
<1>9. p = q
  BY <1>8
<1> QED
  BY <1>2, <1>3, <1>4, <1>9, <1>1 DEF t

\* A word is its own remainder.
LEMMA ToWordOfWord ==
    ASSUME NEW w \in Word
    PROVE  ToWord(w) = w
<1>1. w = WordMod * 0 + w /\ w \in Int
  BY ShadowAssumption DEF Word
<1> QED
  BY <1>1, ToWordUnique

\* Reducing a summand first does not matter.
LEMMA ToWordSum ==
    ASSUME NEW n \in Int, NEW i \in Int
    PROVE  ToWord(ToWord(n) + i) = ToWord(n + i)
<1>1. ToWord(n) \in Word /\ ToWord(n) \in Int /\ ToWord(n + i) \in Word /\ ToWord(n + i) \in Int
  BY ToWordType, ShadowAssumption DEF Word
<1>2. PICK q \in Int : n = WordMod * q + ToWord(n)
  BY ToWordDivision
<1>3. PICK p \in Int : n + i = WordMod * p + ToWord(n + i)
  BY ToWordDivision
<1> DEFINE a == ToWord(n)
           b == ToWord(n + i)
           wp == WordMod * p
           wq == WordMod * q
<1>4. /\ n = wq + a /\ n + i = wp + b
      /\ a \in Int /\ b \in Word /\ b \in Int /\ wp \in Int /\ wq \in Int
      /\ WordMod * (p - q) = wp - wq
  BY <1>1, <1>2, <1>3, ShadowAssumption
<1> HIDE DEF a, b, wp, wq
<1>5. a + i = WordMod * (p - q) + b
  BY <1>4
<1>6. p - q \in Int /\ a + i \in Int /\ b \in Word
  BY <1>4
<1>7. ToWord(a + i) = b
  BY <1>5, <1>6, ToWordUnique
<1> QED
  BY <1>7 DEF a, b

\* One turn through the code segment comes back to the same byte.
LEMMA ToWordTurn ==
    ASSUME NEW n \in Int
    PROVE  ToWord(n + WordMod) = ToWord(n)
<1>1. PICK q \in Int : n = WordMod * q + ToWord(n)
  BY ToWordDivision
<1>2. ToWord(n) \in Word /\ ToWord(n) \in Int
  BY ToWordType, ShadowAssumption DEF Word
<1>3. WordMod * (q + 1) = WordMod * q + WordMod
  BY ShadowAssumption
<1> DEFINE a == ToWord(n)
           wq == WordMod * q
<1>4. /\ n = wq + a /\ a \in Word /\ a \in Int /\ wq \in Int
      /\ WordMod * (q + 1) = wq + WordMod
  BY <1>1, <1>2, <1>3, ShadowAssumption
<1> HIDE DEF a, wq
<1>5. n + WordMod = WordMod * (q + 1) + a
  BY <1>4, ShadowAssumption
<1>6. ToWord(n + WordMod) = a
  BY <1>4, <1>5, ToWordUnique, ShadowAssumption
<1> QED
  BY <1>6 DEF a

-----------------------------------------------------------------------------
(* The instruction set as it appears behind the mapping: it reads the memory *)
(* of start, through the segment registers, which no step changes.           *)

LEMMA ArchAddress ==
    /\ \A n : Arch!ToWord(n) = ToWord(n)
    /\ \A seg, off : Arch!Address(seg, off) = Address(seg, off)
    /\ \A seg, off, width : Arch!Span(seg, off, width) = Span(seg, off, width)
    /\ Arch!Ram = Ram
<1>1. \A n : Arch!ToWord(n) = ToWord(n)
  BY DEF Arch!ToWord, ToWord
<1>2. \A seg, off : Arch!Address(seg, off) = Address(seg, off)
  BY <1>1 DEF Arch!Address, Address
<1>3. \A seg, off, width : Arch!Span(seg, off, width) = Span(seg, off, width)
  BY DEF Arch!Span, Span, Arch!Address, Address, Arch!ToWord, ToWord
<1> QED
  BY <1>1, <1>2, <1>3 DEF Arch!Ram, Ram

\* An offset may be reduced before something is added to it.
LEMMA AddressWraps ==
    ASSUME NEW seg, NEW n \in Int, NEW i \in Int
    PROVE  /\ Address(seg, ToWord(n) + i) = Address(seg, n + i)
           /\ Address(seg, ToWord(n)) = Address(seg, n)
<1>1. ToWord(ToWord(n) + i) = ToWord(n + i)
  BY ToWordSum
<1>2. ToWord(ToWord(n) + 0) = ToWord(n + 0)
  BY ToWordSum
<1>3. ToWord(n) + 0 = ToWord(n) /\ n + 0 = n
  BY ToWordType, ShadowAssumption DEF Word
<1> QED
  BY <1>1, <1>2, <1>3 DEF Address

\* Nor does a check of permissions tell the difference.
LEMMA AllowedWraps ==
    ASSUME NEW flag, NEW seg, NEW n \in Int, NEW width \in {1, 2}
    PROVE  Allowed(flag, seg, ToWord(n), width) <=> Allowed(flag, seg, n, width)
<1>1. \A i \in 0 .. width - 1 : Address(seg, ToWord(n) + i) = Address(seg, n + i)
  BY AddressWraps
<1> QED
  BY <1>1 DEF Allowed

\* The registers and the memory, what one machine consists of.
Machines ==
    [ip : Word, ac : Byte \X Byte, bx : Word, cx : Word, si : Word, di : Word,
     zf : BOOLEAN, df : BOOLEAN, ram : [Ram -> Byte],
     shadowRam : [Ram -> SUBSET Flag]]

\* Nothing but ip has changed since the instruction began.
Kept ==
    /\ ac = start.ac /\ bx = start.bx /\ cx = start.cx /\ si = start.si /\ di = start.di
    /\ zf = start.zf /\ df = start.df
    /\ ram = start.ram /\ shadowRam = start.shadowRam

\* With the permissions of start both check the same.
LEMMA ArchAllowed ==
    ASSUME shadowRam = start.shadowRam
    PROVE  \A flag, seg, off, width :
             Arch!Allowed(flag, seg, off, width) <=> Allowed(flag, seg, off, width)
  BY ArchAddress DEF Arch!Allowed, Allowed

\* The bytes of the instruction, from ip or from anywhere after it.
LEMMA FetchSame ==
    ASSUME start \in Machines, Kept, NEW n \in Nat
    PROVE  /\ CanRead("CS", ToWord(start.ip + n), 1) <=> Arch!CanRead("CS", start.ip + n, 1)
           /\ CanRead("CS", ToWord(start.ip + n), 2) <=> Arch!CanRead("CS", start.ip + n, 2)
           /\ ram[Address("CS", ToWord(start.ip + n))] = Arch!Code(n)
           /\ ram[Address("CS", ToWord(start.ip + n) + 1)] = Arch!Code(n + 1)
<1>1. start.ip \in Int /\ ram = start.ram /\ shadowRam = start.shadowRam
  BY DEF Machines, Kept, Word
<1>2. start.ip + n \in Int
  BY <1>1
<1>3. \A w \in {1, 2} : CanRead("CS", ToWord(start.ip + n), w)
                          <=> Arch!CanRead("CS", start.ip + n, w)
  BY <1>1, <1>2, ArchAllowed, AllowedWraps DEF CanRead, Arch!CanRead
<1>4. ram[Address("CS", ToWord(start.ip + n))] = Arch!Code(n)
  BY <1>1, <1>2, AddressWraps, ArchAddress DEF Arch!Code
<1>5. ram[Address("CS", ToWord(start.ip + n) + 1)] = Arch!Code(n + 1)
  <2>1. Address("CS", ToWord(start.ip + n) + 1) = Address("CS", start.ip + n + 1)
    BY <1>2, AddressWraps
  <2>2. start.ip + n + 1 = start.ip + (n + 1)
    BY <1>1
  <2> QED
    BY <1>1, <2>1, <2>2, ArchAddress, Zenon DEF Arch!Code
<1> QED
  BY <1>3, <1>4, <1>5

-----------------------------------------------------------------------------
(* Prefixes.                                                                 *)

\* One turn through the code segment comes back to the same instruction byte.
LEMMA ArchTurn ==
    ASSUME start \in Machines, NEW n \in Nat
    PROVE  /\ Arch!At(n + WordMod) = Arch!At(n)
           /\ Arch!Prefix(n + WordMod) <=> Arch!Prefix(n)
<1> DEFINE x == start.ip + n
<1>1. x \in Int /\ WordMod \in Nat /\ start.ip + (n + WordMod) = x + WordMod
  BY ShadowAssumption DEF Machines, Word
<1>2. \A seg : Address(seg, x + WordMod) = Address(seg, x)
  BY <1>1, ToWordTurn DEF Address
<1>3. Arch!Code(n + WordMod) = Arch!Code(n)
  BY <1>1, <1>2, ArchAddress DEF Arch!Code
<1>4. Arch!CanRead("CS", start.ip + (n + WordMod), 1) <=> Arch!CanRead("CS", x, 1)
  <2>1. \A i \in 0 .. 0 : i = 0
    OBVIOUS
  <2>2. x + WordMod + 0 = x + WordMod /\ x + 0 = x
    BY <1>1
  <2> HIDE DEF x
  <2> QED
    BY <1>1, <1>2, <2>1, <2>2, ArchAddress DEF Arch!CanRead, Arch!Allowed
<1> QED
  BY <1>3, <1>4 DEF Arch!At, Arch!Prefix

\* An instruction has at most as many prefixes as the code segment has bytes.
LEMMA PrefixCount ==
    ASSUME start \in Machines, NEW n \in Nat, Arch!HasPrefixes(n)
    PROVE  n \in 0 .. WordMod
<1> SUFFICES ASSUME n > WordMod PROVE FALSE
  BY ShadowAssumption
<1> DEFINE m == n - WordMod
           l == n - 1 - WordMod
<1>1. /\ WordMod \in Nat \ {0, 1}
      /\ m \in Nat /\ m \in 0 .. n - 1 /\ m + WordMod = n
      /\ l \in Nat /\ l \in 0 .. n - 2 /\ l + WordMod = n - 1
  BY ShadowAssumption
<1> HIDE DEF m, l
<1>2. Arch!Prefix(m) /\ Arch!At(l).op \notin Arch!RepKinds
  BY <1>1 DEF Arch!HasPrefixes
<1>3. Arch!Prefix(n)
  BY <1>1, <1>2, ArchTurn
<1>4. Arch!At(n - 1).op \in Arch!RepKinds
  BY <1>3 DEF Arch!HasPrefixes
<1> QED
  BY <1>1, <1>2, <1>4, ArchTurn

\* What the head of executeInstruction() makes of the n prefixes before the byte
\* to be executed.
Prefixed(n) ==
    /\ \A m \in 0 .. n - 1 : Arch!Prefix(m)
    /\ \A m \in 0 .. n - 2 : Arch!At(m).op \notin Arch!RepKinds
    /\ Rep = IF Arch!RepOf(n) = "none" THEN 0 ELSE RepPrefix[Arch!RepOf(n)]
    /\ Override # "none" <=> \E m \in 0 .. n - 1 : Arch!At(m).op \in DOMAIN SegmentPrefix
    /\ Override # "none" => Arch!DataSegment(n) = Override
    /\ Override = "none" => Arch!DataSegment(n) = "DS"

\* The names of the instruction set are those of the loop.
LEMMA ArchNames ==
    /\ Arch!Overrides = SegmentPrefix
    /\ DOMAIN SegmentPrefix = {"es", "cs", "ss", "ds"}
    /\ Arch!RepKinds = {"repnz", "repz"}
    /\ Arch!StringOps = StringOps /\ Arch!JumpOps = JumpOps
  BY DEF Arch!Overrides, SegmentPrefix, Arch!RepKinds, Arch!StringOps, StringOps,
         Arch!JumpOps, JumpOps

\* The last one of a set of numbers.
LEMMA LastOf ==
    ASSUME NEW S, S \subseteq Int, NEW m \in S, \A k \in S : k <= m
    PROVE  (CHOOSE c \in S : \A k \in S : k <= c) = m
<1> DEFINE c == CHOOSE c \in S : \A k \in S : k <= c
<1>1. c \in S /\ \A k \in S : k <= c
  BY Zenon
<1>2. c <= m /\ m <= c /\ c \in Int /\ m \in Int
  BY <1>1
<1> HIDE DEF c
<1>3. c = m
  BY <1>2
<1> QED
  BY <1>3 DEF c

\* One more byte of code changes the data segment if it is an override.
LEMMA SegmentStep ==
    ASSUME NEW n \in Nat
    PROVE  /\ Arch!At(n).op \in DOMAIN SegmentPrefix =>
                Arch!DataSegment(n + 1) = SegmentPrefix[Arch!At(n).op]
           /\ Arch!At(n).op \notin DOMAIN SegmentPrefix =>
                Arch!DataSegment(n + 1) = Arch!DataSegment(n)
<1> DEFINE D == DOMAIN SegmentPrefix
           S(i) == {m \in 0 .. i - 1 : Arch!At(m).op \in D}
           last(T) == CHOOSE c \in T : \A k \in T : k <= c
<1>1. \A i : Arch!DataSegment(i)
                = IF S(i) = {} THEN "DS" ELSE SegmentPrefix[Arch!At(last(S(i))).op]
  BY Zenon DEF Arch!DataSegment, Arch!Overrides, SegmentPrefix
<1>2. n + 1 - 1 = n /\ n \in 0 .. n /\ \A m \in 0 .. n : m = n \/ m \in 0 .. n - 1
  OBVIOUS
<1>3. CASE Arch!At(n).op \in D
  <2>1. n \in S(n + 1)
    BY <1>2, <1>3
  <2>2. S(n + 1) \subseteq Int /\ \A k \in S(n + 1) : k <= n
    OBVIOUS
  <2>3. last(S(n + 1)) = n
    <3> HIDE DEF S, D
    <3> QED
      BY <2>1, <2>2, LastOf
  <2> HIDE DEF S, last, D
  <2>4. S(n + 1) # {}
    BY <2>1
  <2> QED
    BY <1>1, <1>3, <2>3, <2>4, Zenon DEF D
<1>4. CASE Arch!At(n).op \notin D
  <2>1. S(n + 1) = S(n)
    <3>1. \A m : m \in 0 .. n + 1 - 1 /\ Arch!At(m).op \in D
                   <=> m \in 0 .. n - 1 /\ Arch!At(m).op \in D
      BY <1>2, <1>4
    <3> QED
      BY <3>1
  <2> HIDE DEF S, last, D
  <2> QED
    BY <1>1, <1>4, <2>1, Zenon DEF D
<1> QED
  BY <1>3, <1>4

\* As long as start stays, so does the instruction.
LEMMA SameInstruction ==
    ASSUME start' = start, sreg' = sreg
    PROVE  \A n : /\ Arch!At(n)' = Arch!At(n)
                  /\ Arch!Prefix(n)' <=> Arch!Prefix(n)
                  /\ Arch!RepOf(n)' = Arch!RepOf(n)
                  /\ Arch!DataSegment(n)' = Arch!DataSegment(n)
  BY DEF Arch!At, Arch!Code, Arch!Prefix, Arch!CanRead, Arch!Allowed, Arch!Address,
         Arch!ToWord, Arch!RepOf, Arch!DataSegment

\* n prefixes have been executed and nothing else.
Begun(n) == Prefixed(n) /\ ip = ToWord(start.ip + n) /\ Kept

\* The next byte is then the n-th of the instruction.
LEMMA FetchedByte ==
    ASSUME start \in Machines, NEW n \in Nat, Begun(n), ~repeating
    PROVE  /\ Fetchable <=> Arch!CanRead("CS", start.ip + n, 1)
           /\ Opcode = Arch!Code(n) /\ Decode[Opcode] = Arch!At(n)
           /\ Op = Arch!At(n).op /\ Width = Arch!At(n).width
           /\ NextIP = ToWord(start.ip + n + 1)
<1>1. /\ CanRead("CS", ip, 1) <=> Arch!CanRead("CS", start.ip + n, 1)
      /\ ram[Address("CS", ip)] = Arch!Code(n)
  BY FetchSame, Zenon DEF Begun
<1>2. Fetchable <=> CanRead("CS", ip, 1)
  BY Zenon DEF Fetchable
<1>3. Opcode = ram[Address("CS", ip)] /\ NextIP = ToWord(ip + 1)
  BY Zenon DEF Opcode, NextIP
<1>4. Opcode = Arch!Code(n)
  BY <1>1, <1>3, Zenon
<1>5. Decode[Opcode] = Arch!At(n)
  BY <1>4, Zenon DEF Arch!At
<1>6. ToWord(ip + 1) = ToWord(start.ip + n + 1)
  BY ToWordSum DEF Begun, Machines, Word
<1> QED
  BY <1>1, <1>2, <1>3, <1>4, <1>5, <1>6, Zenon DEF Op, Width

\* A REP prefix is in force if it is the last prefix.
LEMMA RepInForce ==
    ASSUME NEW n \in Nat, Prefixed(n)
    PROVE  /\ Rep = 0 <=> Arch!RepOf(n) = "none"
           /\ Rep = 1 <=> Arch!RepOf(n) = "repnz"
           /\ Rep # 0 => n > 0 /\ Arch!At(n - 1).op \in Arch!RepKinds
           /\ Rep = 0 /\ n > 0 => Arch!At(n - 1).op \notin Arch!RepKinds
<1>1. Arch!RepOf(n) \in {"none", "repnz", "repz"}
  BY ArchNames DEF Arch!RepOf
<1>2. Rep = IF Arch!RepOf(n) = "none" THEN 0 ELSE RepPrefix[Arch!RepOf(n)]
  BY DEF Prefixed
<1>3. Rep = 0 <=> Arch!RepOf(n) = "none"
  BY <1>1, <1>2 DEF RepPrefix
<1>4. Rep = 1 <=> Arch!RepOf(n) = "repnz"
  BY <1>1, <1>2 DEF RepPrefix
<1>5. Arch!RepOf(n) = "none" <=> ~(n > 0 /\ Arch!At(n - 1).op \in Arch!RepKinds)
  BY ArchNames DEF Arch!RepOf
<1> QED
  BY <1>3, <1>4, <1>5

\* One more prefix is executed.
LEMMA PrefixContinues ==
    ASSUME start \in Machines, NEW n \in Nat, Begun(n), ~repeating,
           SegmentOverride \/ Repeat, start' = start
    PROVE  Begun(n + 1)'
<1>1. /\ Fetchable /\ ~RepRefused
      /\ Op \in DOMAIN SegmentPrefix \cup Arch!RepKinds /\ Op \notin StringOps
      /\ prefix' /\ ip' = NextIP
      /\ UNCHANGED <<ac, bx, cx, si, di, zf, df, ram, shadowRam, sreg>>
  BY ArchNames DEF SegmentOverride, Repeat, Fetched, StringOps, flags, memoryVars
<1>2. /\ Op = Arch!At(n).op
      /\ Arch!CanRead("CS", start.ip + n, 1) /\ NextIP = ToWord(start.ip + n + 1)
  BY <1>1, FetchedByte
<1>3. Rep = 0
  BY <1>1 DEF RepRefused
<1>4. Arch!RepOf(n) = "none" /\ (n > 0 => Arch!At(n - 1).op \notin Arch!RepKinds)
  BY <1>3, RepInForce DEF Begun
<1>5. Arch!Prefix(n)
  BY <1>1, <1>2, ArchNames DEF Arch!Prefix
<1>6. \A m \in 0 .. n + 1 - 1 : Arch!Prefix(m)
  <2>1. \A m \in 0 .. n + 1 - 1 : m = n \/ m \in 0 .. n - 1
    OBVIOUS
  <2> QED
    BY <1>5, <2>1 DEF Begun, Prefixed
<1>7. \A m \in 0 .. n + 1 - 2 : Arch!At(m).op \notin Arch!RepKinds
  <2>1. \A m \in 0 .. n + 1 - 2 : (m = n - 1 /\ n > 0) \/ m \in 0 .. n - 2
    OBVIOUS
  <2> QED
    BY <1>4, <2>1 DEF Begun, Prefixed
<1>8. Arch!RepOf(n + 1) = IF Op \in Arch!RepKinds THEN Op ELSE "none"
  <2>1. n + 1 > 0 /\ n + 1 - 1 = n
    OBVIOUS
  <2> QED
    BY <1>2, <2>1 DEF Arch!RepOf
<1>9. /\ rep' = IF Arch!RepOf(n + 1) = "none" THEN 0 ELSE RepPrefix[Arch!RepOf(n + 1)]
      /\ segmentOverride' = IF Op \in DOMAIN SegmentPrefix THEN SegmentPrefix[Op]
                                                           ELSE Override
  <2>1. CASE SegmentOverride
    <3>1. Op \in DOMAIN SegmentPrefix /\ Op \notin Arch!RepKinds
      BY <2>1, ArchNames DEF SegmentOverride, Fetched
    <3> QED
      BY <1>3, <1>8, <2>1, <3>1 DEF SegmentOverride
  <2>2. CASE Repeat
    <3>1. Op \notin DOMAIN SegmentPrefix /\ Op \in Arch!RepKinds /\ Op # "none"
      BY <2>2, ArchNames DEF Repeat, Fetched
    <3> QED
      BY <1>8, <2>2, <3>1 DEF Repeat
  <2> QED
    BY <1>1, <2>1, <2>2
<1>10. Rep' = rep' /\ Override' = segmentOverride'
  BY <1>1 DEF Rep, Override, Continues
<1>11. /\ Override' # "none" <=> \E m \in 0 .. n + 1 - 1 : Arch!At(m).op \in DOMAIN SegmentPrefix
       /\ Override' # "none" => Arch!DataSegment(n + 1) = Override'
       /\ Override' = "none" => Arch!DataSegment(n + 1) = "DS"
  <2>1. \A m : m \in 0 .. n + 1 - 1 <=> m = n \/ m \in 0 .. n - 1
    OBVIOUS
  <2>2. CASE Op \in DOMAIN SegmentPrefix
    <3>1. Override' = SegmentPrefix[Op] /\ Override' # "none"
      BY <1>9, <1>10, <2>2 DEF SegmentPrefix
    <3> QED
      BY <1>2, <2>1, <2>2, <3>1, SegmentStep
  <2>3. CASE Op \notin DOMAIN SegmentPrefix
    <3>1. Override' = Override
      BY <1>9, <1>10, <2>3
    <3>2. Arch!DataSegment(n + 1) = Arch!DataSegment(n)
      BY <1>2, <2>3, SegmentStep
    <3> QED
      BY <1>2, <2>1, <2>3, <3>1, <3>2 DEF Begun, Prefixed
  <2> QED
    BY <2>2, <2>3
<1>12. Prefixed(n + 1)'
  BY <1>1, <1>6, <1>7, <1>9, <1>10, <1>11, SameInstruction DEF Prefixed, Arch!RepKinds
<1>13. ip' = ToWord(start.ip + (n + 1))
  BY <1>1, <1>2 DEF Machines, Word
<1>14. Kept'
  BY <1>1 DEF Begun, Kept
<1> QED
  BY <1>12, <1>13, <1>14 DEF Begun, ToWord

-----------------------------------------------------------------------------
(* Memory after each number of elements.                                     *)

\* A set of natural numbers that is not empty has a lowest element.
LEMMA LowestExists ==
    ASSUME NEW S \in SUBSET Nat, S # {}
    PROVE  \E h \in S : \A g \in S : h <= g
<1>1. \E h \in S : \A g \in S : <<g, h>> \notin OpToRel(<, Nat)
  BY NatLessThanWellFounded, WFMin, Zenon
<1>2. \A g, h \in Nat : <<g, h>> \notin OpToRel(<, Nat) => h <= g
  BY DEF OpToRel
<1> QED
  BY <1>1, <1>2

\* The recursive definition of Memory has a solution: if there were none up to
\* some number of elements there would be a lowest such number, which is not 0,
\* and the solution up to the number before it can be continued.
LEMMA MemoryRecursion ==
    ASSUME NEW n
    PROVE  /\ Arch!Memory(n)[0] = Arch!First
           /\ \A k \in 0 .. WordMod - 1 :
                Arch!Memory(n)[k + 1] = Arch!After(n, Arch!Memory(n)[k], k)
<1> DEFINE next(f, k) == Arch!After(n, f[k - 1], k - 1)
           body(f, d) == [k \in 0 .. d |-> IF k = 0 THEN Arch!First ELSE next(f, k)]
           Bad == {d \in Nat : ~\E f : f = body(f, d)}
<1>1. Bad = {}
  <2> SUFFICES ASSUME Bad # {} PROVE FALSE
    OBVIOUS
  <2>1. PICK d \in Bad : \A e \in Bad : d <= e
    <3> HIDE DEF body
    <3> QED
      BY LowestExists
  <2>2. d \in Nat /\ ~\E f : f = body(f, d)
    OBVIOUS
  <2>3. d # 0
    <3> SUFFICES ASSUME d = 0 PROVE FALSE
      OBVIOUS
    <3> DEFINE f == [k \in 0 .. d |-> Arch!First]
    <3>1. \A k \in 0 .. d : k = 0
      OBVIOUS
    <3>2. f = body(f, d)
      BY <3>1, Zenon
    <3> QED
      BY <2>2, <3>2
  <2>4. d - 1 \in Nat /\ d - 1 \notin Bad
    <3> HIDE DEF Bad
    <3> QED
      BY <2>1, <2>2, <2>3
  <2>5. PICK g : g = body(g, d - 1)
    BY <2>4, Zenon
  <2> DEFINE f == [k \in 0 .. d |-> IF k = d THEN next(g, d) ELSE g[k]]
  <2>6. \A k \in 0 .. d : f[k] = IF k = 0 THEN Arch!First ELSE next(f, k)
    <3> SUFFICES ASSUME NEW k \in 0 .. d
                 PROVE  f[k] = IF k = 0 THEN Arch!First ELSE next(f, k)
      OBVIOUS
    <3>1. k # 0 => k - 1 \in 0 .. d /\ k - 1 # d
      BY <2>2
    <3>2. k # 0 => f[k - 1] = g[k - 1]
      BY <3>1, Zenon
    <3>3. k # 0 => next(f, k) = next(g, k)
      BY <3>2, Zenon
    <3>4. CASE k = d
      BY <2>3, <3>3, <3>4, Zenon
    <3>5. CASE k # d
      <4>1. f[k] = g[k] /\ k \in 0 .. d - 1
        BY <2>2, <3>5
      <4>2. g[k] = IF k = 0 THEN Arch!First ELSE next(g, k)
        BY <2>5, <4>1, Zenon
      <4> QED
        BY <3>3, <4>1, <4>2, Zenon
    <3> QED
      BY <3>4, <3>5
  <2>7. f = body(f, d)
    <3> HIDE DEF next
    <3> DEFINE b == body(f, d)
    <3>1. b = [k \in 0 .. d |-> f[k]]
      BY <2>6, Zenon
    <3>2. f = [k \in 0 .. d |-> f[k]]
      BY Zenon
    <3> QED
      BY <3>1, <3>2, Zenon
  <2> QED
    BY <2>2, <2>7, Zenon
<1> DEFINE M == Arch!Memory(n)
<1>2. M = CHOOSE f : f = body(f, WordMod)
  BY Zenon DEF Arch!Memory
<1>3. WordMod \in Nat
  BY ShadowAssumption
<1>4. \E f : f = body(f, WordMod)
  BY <1>1, <1>3, Zenon
<1>5. M = body(M, WordMod)
  <2> HIDE DEF body, M
  <2> QED
    BY <1>2, <1>4, Zenon
<1>6. \A k \in 0 .. WordMod : M[k] = IF k = 0 THEN Arch!First ELSE next(M, k)
  <2> DEFINE N == M
  <2>1. N = body(N, WordMod)
    BY <1>5
  <2> HIDE DEF N, next
  <2>2. \A k \in 0 .. WordMod : N[k] = IF k = 0 THEN Arch!First ELSE next(N, k)
    BY <2>1, Zenon
  <2> QED
    BY <2>2 DEF N
<1> HIDE DEF M
<1>7. M[0] = Arch!First
  BY <1>3, <1>6
<1>8. ASSUME NEW k \in 0 .. WordMod - 1
      PROVE  M[k + 1] = Arch!After(n, M[k], k)
  <2> DEFINE j == k + 1
  <2>1. j \in 0 .. WordMod /\ j # 0 /\ j - 1 = k
    BY <1>3
  <2> HIDE DEF j
  <2>2. M[j] = next(M, j)
    BY <1>6, <2>1, Zenon
  <2>3. M[j] = Arch!After(n, M[k], k)
    BY <2>1, <2>2, Zenon
  <2> QED
    BY <2>3 DEF j
<1> QED
  BY <1>7, <1>8 DEF M

\* What the elements of a string instruction see and do, in terms of the memory
\* of the loop.
Now == [ok |-> TRUE, ram |-> ram, shadow |-> shadowRam]

\* It reads and permits what the loop's memory does.
LEMMA ElementViews ==
    ASSUME NEW seg, NEW off \in Int, NEW width \in {1, 2}
    PROVE  /\ \A flag : Arch!Holds(Now, flag, seg, off, width)
                          <=> Allowed(flag, seg, ToWord(off), width)
           /\ Arch!Value(Now, seg, off, width) = Contents(seg, ToWord(off), width)
<1>1. Now.ram = ram /\ Now.shadow = shadowRam
  BY DEF Now
<1>2. ASSUME NEW flag
      PROVE  Arch!Holds(Now, flag, seg, off, width)
               <=> Allowed(flag, seg, ToWord(off), width)
  <2>1. Arch!Holds(Now, flag, seg, off, width) <=> Allowed(flag, seg, off, width)
    BY <1>1, ArchAddress DEF Arch!Holds, Allowed
  <2> QED
    BY <2>1, AllowedWraps
<1>3. /\ Address(seg, ToWord(off)) = Address(seg, off)
      /\ Address(seg, ToWord(off) + 1) = Address(seg, off + 1)
  BY AddressWraps
<1>4. Arch!Value(Now, seg, off, width) = Contents(seg, ToWord(off), width)
  BY <1>1, <1>3, ArchAddress, Zenon DEF Arch!Value, Contents
<1> QED
  BY <1>2, <1>4

\* A store of the loop is a store of the instruction set.
LEMMA ElementStored ==
    ASSUME NEW seg, NEW off \in Int, NEW cells, Len(cells) \in {1, 2},
           Store(seg, ToWord(off), cells)
    PROVE  Arch!Put(Now, seg, off, cells) = Now'
<1> DEFINE w == Len(cells)
<1>1. Now.ram = ram /\ Now.shadow = shadowRam
  BY DEF Now
<1>2. /\ Address(seg, ToWord(off)) = Address(seg, off)
      /\ Address(seg, ToWord(off) + 1) = Address(seg, off + 1)
  BY AddressWraps
<1>3. Span(seg, ToWord(off), w) = Span(seg, off, w)
  <2>1. \A i \in 0 .. w - 1 : Address(seg, ToWord(off) + i) = Address(seg, off + i)
    BY AddressWraps
  <2> HIDE DEF w
  <2> QED
    BY <2>1 DEF Span
<1>4. ram' = [a \in Ram |->
                IF a = Address(seg, off) THEN cells[1]
                ELSE IF w = 2 /\ a = Address(seg, off + 1) THEN cells[2]
                ELSE ram[a]]
  BY <1>2, Zenon DEF Store
<1>5. shadowRam' = [a \in Ram |->
                      IF a \in Span(seg, off, w) THEN shadowRam[a] \cup {"fRead"}
                      ELSE shadowRam[a]]
  BY <1>3, Zenon DEF Store, Granted
<1>6. Arch!Put(Now, seg, off, cells) = [ok |-> TRUE, ram |-> ram', shadow |-> shadowRam']
  <2> HIDE DEF w
  <2>1. Arch!Put(Now, seg, off, cells) =
          [ok |-> TRUE,
           ram |-> [a \in Ram |->
                     IF a = Address(seg, off) THEN cells[1]
                     ELSE IF w = 2 /\ a = Address(seg, off + 1) THEN cells[2]
                     ELSE ram[a]],
           shadow |-> [a \in Ram |->
                      IF a \in Span(seg, off, w) THEN shadowRam[a] \cup {"fRead"}
                      ELSE shadowRam[a]]]
    BY <1>1, ArchAddress, Zenon DEF Arch!Put, w
  <2> QED
    BY <1>4, <1>5, <2>1, Zenon
<1> QED
  BY <1>6, Zenon DEF Now

\* Machine s is what start has become after k elements of the n-th byte's
\* instruction, its ip aside.
Reached(n, k, s) ==
    LET op == Arch!At(n).op
        c  == Arch!Value(Arch!Memory(n)[k], Arch!DataSegment(n), Arch!Source(n, k - 1),
                         Arch!At(n).width)
    IN  /\ s.bx = start.bx /\ s.df = start.df
        /\ Arch!Memory(n)[k] = [ok |-> TRUE, ram |-> s.ram, shadow |-> s.shadowRam]
        /\ s.cx = IF Arch!RepOf(n) = "none" THEN start.cx ELSE start.cx - k
        /\ s.si = IF op \in {"movs", "cmps", "lods"}
                    THEN ToWord(Arch!Source(n, k)) ELSE start.si
        /\ s.di = IF op # "lods" THEN ToWord(Arch!Target(n, k)) ELSE start.di
        /\ s.ac = IF op = "lods" /\ k > 0
                    THEN IF Len(c) = 1 THEN <<c[1], start.ac[2]>> ELSE c
                    ELSE start.ac
        /\ s.zf = IF op \in {"cmps", "scas"} /\ k > 0
                    THEN Arch!Equal(n, Arch!Memory(n)[k], k - 1) ELSE start.zf

\* The next call of executeInstruction() comes to a string instruction with n
\* prefixes of which k elements have been processed.
Executing(n, k) ==
    /\ n \in 0 .. WordMod /\ k \in 0 .. WordMod - 1
    /\ Prefixed(n) /\ Arch!HasPrefixes(n)
    /\ Arch!CanRead("CS", start.ip + n, 1)
    /\ Arch!At(n).op \in StringOps
    /\ Opcode = Arch!Code(n)
    /\ NextIP = ToWord(start.ip + n + 1)
    /\ Reached(n, k, Machine)
    /\ k > 0 => Arch!Pending(n, k)

\* When an element has been processed it alone decides whether there is another one.
LEMMA PendingStep ==
    ASSUME NEW n, NEW k \in Nat, Arch!Pending(n, k), Arch!RepOf(n) # "none",
           start.cx \in Nat
    PROVE  Arch!Pending(n, k + 1)
             <=> /\ k + 1 < start.cx
                 /\ Arch!At(n).op \in {"cmps", "scas"} =>
                      Arch!Equal(n, Arch!Memory(n)[k], k) # (Arch!RepOf(n) = "repnz")
<1> DEFINE goes(j) == Arch!Equal(n, Arch!Memory(n)[j], j) # (Arch!RepOf(n) = "repnz")
           compares == Arch!At(n).op \in {"cmps", "scas"}
<1>1. \A i : Arch!Pending(n, i) <=> i < start.cx /\ (compares => \A j \in 0 .. i - 1 : goes(j))
  BY Zenon DEF Arch!Pending
<1> HIDE DEF goes, compares
<1>2. \A j : j \in 0 .. k + 1 - 1 <=> j = k \/ j \in 0 .. k - 1
  OBVIOUS
<1>3. Arch!Pending(n, k + 1) <=> k + 1 < start.cx /\ (compares => goes(k))
  BY <1>1, <1>2
<1> QED
  BY <1>3 DEF goes, compares

\* What the loop has at hand for the next element is what the instruction set
\* says it is.
LEMMA ElementOperands ==
    ASSUME IndInv, start \in Machines, NEW n, NEW k, Executing(n, k)
    PROVE  /\ Op = Arch!At(n).op /\ Width = Arch!At(n).width /\ Width \in {1, 2}
           /\ Op \in StringOps /\ n \in Nat /\ k \in Nat
           /\ Effective("DS") = Arch!DataSegment(n)
           /\ Arch!Memory(n)[k] = Now
           /\ Arch!Source(n, k) \in Int /\ Arch!Target(n, k) \in Int
           /\ Op \in {"movs", "cmps", "lods"} =>
                /\ si = ToWord(Arch!Source(n, k))
                /\ ToWord(Arch!Source(n, k + 1)) = ToWord(si + StringIncrement)
           /\ Op \notin {"movs", "cmps", "lods"} => si = start.si
           /\ Op # "lods" =>
                /\ di = ToWord(Arch!Target(n, k))
                /\ ToWord(Arch!Target(n, k + 1)) = ToWord(di + StringIncrement)
           /\ Op = "lods" => di = start.di
           /\ Op # "lods" => ac = start.ac /\ Accum = Arch!Accum(n)
           /\ Op \notin {"cmps", "scas"} => zf = start.zf
           /\ bx = start.bx /\ df = start.df
           /\ cx = IF Rep = 0 THEN start.cx ELSE start.cx - k
<1> DEFINE op == Arch!At(n).op
           stride == Arch!Stride(n)
<1>1. n \in Nat /\ k \in Nat /\ Prefixed(n) /\ op \in StringOps /\ Opcode = Arch!Code(n)
  BY ShadowAssumption DEF Executing
<1>2. Op = op /\ Width = Arch!At(n).width
  BY <1>1, Zenon DEF Op, Width, Arch!At
<1>3. Opcode \in Byte
  <2>1. CASE repeating
    BY <2>1 DEF Opcode, IndInv, TypeOK
  <2>2. CASE ~repeating
    <3>1. CanRead("CS", ip, 1) => Opcode \in Byte
      <4>1. CanRead("CS", ip, 1) => Fetchable
        BY DEF Fetchable
      <4> QED
        BY <4>1, HeadType DEF IndInv
    <3>2. Opcode = Arch!Code(n) /\ Arch!CanRead("CS", start.ip + n, 1)
      BY DEF Executing
    <3>3. Arch!Code(n) \in Byte
      <4>1. start.ip + n + 0 = start.ip + n
        BY <1>1 DEF Machines, Word
      <4>2. Address("CS", start.ip + n) < RamSize
        BY <3>2, <4>1, ArchAddress DEF Arch!CanRead, Arch!Allowed
      <4>3. Address("CS", start.ip + n) \in Nat
        BY <1>1, AddressType DEF Machines, Word, Segs, IndInv, TypeOK
      <4>4. Address("CS", start.ip + n) \in Ram
        BY <4>2, <4>3, ShadowAssumption DEF Ram
      <4> QED
        BY <4>4, ArchAddress DEF Arch!Code, Machines
    <3> QED
      BY <3>2, <3>3
  <2> QED
    BY <2>1, <2>2 DEF IndInv, TypeOK
<1>4. Width \in {1, 2}
  BY <1>3, CpuAssumption DEF Width, Instructions
<1>5. Effective("DS") = Arch!DataSegment(n)
  BY <1>1 DEF Effective, Prefixed
<1>6. Rep = 0 <=> Arch!RepOf(n) = "none"
  BY <1>1, RepInForce
<1>7. Reached(n, k, Machine)
  BY DEF Executing
<1>8. Arch!Memory(n)[k] = Now /\ bx = start.bx /\ df = start.df
  BY <1>7 DEF Reached, Machine, Now
<1>9. stride = StringIncrement /\ stride \in Int
  BY <1>2, <1>4, <1>8 DEF StringIncrement, Arch!Stride
<1>10. \A j \in Nat : /\ Arch!Source(n, j) = start.si + j * stride
                      /\ Arch!Target(n, j) = start.di + j * stride
  BY DEF Arch!Source, Arch!Target
<1>11. start.si \in Int /\ start.di \in Int /\ k * stride \in Int
       /\ (k + 1) * stride = k * stride + stride
  <2>1. start.si \in Int /\ start.di \in Int
    BY DEF Machines, Word
  <2> HIDE DEF stride
  <2> QED
    BY <1>1, <1>9, <2>1
<1> HIDE DEF stride
<1>12. /\ Arch!Source(n, k) \in Int /\ Arch!Target(n, k) \in Int
       /\ Arch!Source(n, k + 1) = Arch!Source(n, k) + stride
       /\ Arch!Target(n, k + 1) = Arch!Target(n, k) + stride
  BY <1>1, <1>9, <1>10, <1>11
<1>13. /\ ToWord(Arch!Source(n, k + 1)) = ToWord(ToWord(Arch!Source(n, k)) + StringIncrement)
       /\ ToWord(Arch!Target(n, k + 1)) = ToWord(ToWord(Arch!Target(n, k)) + StringIncrement)
  BY <1>9, <1>12, ToWordSum
<1>14. /\ op \in {"movs", "cmps", "lods"} => si = ToWord(Arch!Source(n, k))
       /\ op \notin {"movs", "cmps", "lods"} => si = start.si
       /\ op # "lods" => di = ToWord(Arch!Target(n, k))
       /\ op = "lods" => di = start.di
       /\ op # "lods" => ac = start.ac
       /\ op \notin {"cmps", "scas"} => zf = start.zf
       /\ cx = IF Arch!RepOf(n) = "none" THEN start.cx ELSE start.cx - k
  BY <1>7 DEF Reached, Machine
<1>15. op # "lods" => Accum = Arch!Accum(n)
  BY <1>2, <1>14 DEF Accum, Arch!Accum
<1>16. /\ Op \in {"movs", "cmps", "lods"} =>
            /\ si = ToWord(Arch!Source(n, k))
            /\ ToWord(Arch!Source(n, k + 1)) = ToWord(si + StringIncrement)
       /\ Op \notin {"movs", "cmps", "lods"} => si = start.si
  BY <1>2, <1>13, <1>14, Zenon
<1>17. /\ Op # "lods" =>
            /\ di = ToWord(Arch!Target(n, k))
            /\ ToWord(Arch!Target(n, k + 1)) = ToWord(di + StringIncrement)
       /\ Op = "lods" => di = start.di
       /\ Op # "lods" => ac = start.ac /\ Accum = Arch!Accum(n)
       /\ Op \notin {"cmps", "scas"} => zf = start.zf
  BY <1>2, <1>13, <1>14, <1>15, Zenon
<1>18. cx = IF Rep = 0 THEN start.cx ELSE start.cx - k
  BY <1>6, <1>14, Zenon
<1> QED
  BY <1>1, <1>2, <1>4, <1>5, <1>8, <1>12, <1>16, <1>17, <1>18, Zenon

\* The loop skips an instruction that has no elements, and no other.
LEMMA SkipsOrPending ==
    ASSUME IndInv, start \in Machines, NEW n, NEW k, Executing(n, k)
    PROVE  /\ ~Skips => Arch!Pending(n, k)
           /\ Skips => k = 0 /\ ~Arch!Pending(n, 0)
<1>1. /\ n \in Nat /\ k \in Nat /\ Prefixed(n) /\ start.cx \in Nat
      /\ k > 0 => Arch!Pending(n, k)
      /\ cx = IF Rep = 0 THEN start.cx ELSE start.cx - k
  BY ElementOperands, ShadowAssumption DEF Executing, Machines, Word
<1>2. Rep = 0 <=> Arch!RepOf(n) = "none"
  BY <1>1, RepInForce
<1>3. CASE Rep = 0
  BY <1>1, <1>2, <1>3 DEF Skips, Arch!Pending
<1>4. CASE Rep # 0
  <2>1. \A i : Arch!Pending(n, i) => i < start.cx
    BY <1>2, <1>4 DEF Arch!Pending
  <2>2. \A j \in 0 .. 0 - 1 : FALSE
    OBVIOUS
  <2>3. 0 < start.cx => Arch!Pending(n, 0)
    BY <1>2, <1>4, <2>2 DEF Arch!Pending
  <2>4. Skips <=> start.cx - k = 0
    BY <1>1, <1>4 DEF Skips
  <2> QED
    BY <1>1, <2>1, <2>3, <2>4
<1> QED
  BY <1>3, <1>4

\* The loop refuses an element that the instruction set calls impossible.
LEMMA ElementPossible ==
    ASSUME IndInv, start \in Machines, NEW n, NEW k, Executing(n, k)
    PROVE  Arch!Possible(n, Now, k)
             <=> /\ Op \in {"movs", "cmps", "lods"} => CanRead(Effective("DS"), si, Width)
                 /\ Op \in {"cmps", "scas"} => CanRead("ES", di, Width)
                 /\ Op \in {"movs", "stos"} => CanWrite("ES", di, Width)
<1> DEFINE src == Arch!Source(n, k)
           dst == Arch!Target(n, k)
<1>1. /\ Op = Arch!At(n).op /\ Width = Arch!At(n).width /\ Width \in {1, 2}
      /\ Effective("DS") = Arch!DataSegment(n)
      /\ src \in Int /\ dst \in Int
      /\ Op \in {"movs", "cmps", "lods"} => si = ToWord(src)
      /\ Op # "lods" => di = ToWord(dst)
  BY ElementOperands, Zenon
<1>2. Arch!Possible(n, Now, k)
        <=> /\ Op \in {"movs", "cmps", "lods"} =>
                 Arch!Holds(Now, "fRead", Effective("DS"), src, Width)
            /\ Op \in {"cmps", "scas"} => Arch!Holds(Now, "fRead", "ES", dst, Width)
            /\ Op \in {"movs", "stos"} => Arch!Holds(Now, "fWrite", "ES", dst, Width)
  BY <1>1, Zenon DEF Arch!Possible
<1> HIDE DEF src, dst
<1>3. \A seg, flag :
        /\ Arch!Holds(Now, flag, seg, src, Width) <=> Allowed(flag, seg, ToWord(src), Width)
        /\ Arch!Holds(Now, flag, seg, dst, Width) <=> Allowed(flag, seg, ToWord(dst), Width)
  BY <1>1, ElementViews
<1>4. Op \in {"cmps", "scas", "movs", "stos"} => Op # "lods"
  OBVIOUS
<1>5. /\ Op \in {"movs", "cmps", "lods"} =>
           (Arch!Holds(Now, "fRead", Effective("DS"), src, Width)
              <=> CanRead(Effective("DS"), si, Width))
      /\ Op \in {"cmps", "scas"} =>
           (Arch!Holds(Now, "fRead", "ES", dst, Width) <=> CanRead("ES", di, Width))
      /\ Op \in {"movs", "stos"} =>
           (Arch!Holds(Now, "fWrite", "ES", dst, Width) <=> CanWrite("ES", di, Width))
  BY <1>1, <1>3, <1>4, Zenon DEF CanRead, CanWrite
<1> QED
  BY <1>2, <1>5, Zenon

\* It compares what the instruction set compares.
LEMMA ElementEqual ==
    ASSUME IndInv, start \in Machines, NEW n, NEW k, Executing(n, k),
           Op \in {"cmps", "scas"}
    PROVE  Arch!Equal(n, Now, k)
             <=> (IF Op = "cmps" THEN Contents(Effective("DS"), si, Width) ELSE Accum)
                   = Contents("ES", di, Width)
<1> DEFINE src == Arch!Source(n, k)
           dst == Arch!Target(n, k)
<1>1. /\ Op = Arch!At(n).op /\ Width = Arch!At(n).width /\ Width \in {1, 2}
      /\ Effective("DS") = Arch!DataSegment(n) /\ Accum = Arch!Accum(n)
      /\ src \in Int /\ dst \in Int
      /\ Op = "cmps" => si = ToWord(src)
      /\ di = ToWord(dst)
  BY ElementOperands
<1>2. Arch!Equal(n, Now, k)
        <=> (IF Op = "cmps" THEN Arch!Value(Now, Effective("DS"), src, Width) ELSE Accum)
              = Arch!Value(Now, "ES", dst, Width)
  BY <1>1, Zenon DEF Arch!Equal
<1> HIDE DEF src, dst
<1>3. \A seg : /\ Arch!Value(Now, seg, src, Width) = Contents(seg, ToWord(src), Width)
               /\ Arch!Value(Now, seg, dst, Width) = Contents(seg, ToWord(dst), Width)
  BY <1>1, ElementViews
<1> QED
  BY <1>1, <1>2, <1>3, Zenon

\* The bodies of the five string instructions process one element: the memory
\* afterwards is the next of the sequence.
LEMMA ElementProcessed ==
    ASSUME IndInv, start \in Machines, NEW n, NEW k, Executing(n, k),
           Movs \/ Cmps \/ Stos \/ Lods \/ Scas
    PROVE  /\ Arch!Possible(n, Now, k)
           /\ Arch!Memory(n)[k + 1] = Now'
<1> DEFINE src == Arch!Source(n, k)
           dst == Arch!Target(n, k)
           w == Arch!At(n).width
<1>1. /\ Op = Arch!At(n).op /\ Width = w /\ w \in {1, 2}
      /\ Effective("DS") = Arch!DataSegment(n)
      /\ src \in Int /\ dst \in Int
      /\ Op \in {"movs", "cmps", "lods"} => si = ToWord(src)
      /\ Op # "lods" => di = ToWord(dst) /\ Accum = Arch!Accum(n)
      /\ Arch!Memory(n)[k] = Now
  BY ElementOperands, Zenon
<1>2. Arch!Possible(n, Now, k)
  <2>1. /\ Op \in {"movs", "cmps", "lods"} => CanRead(Effective("DS"), si, Width)
        /\ Op \in {"cmps", "scas"} => CanRead("ES", di, Width)
        /\ Op \in {"movs", "stos"} => CanWrite("ES", di, Width)
    BY DEF Movs, Cmps, Stos, Lods, Scas, Fetched
  <2> QED
    BY <2>1, ElementPossible
<1>3. Arch!Memory(n)[k + 1] = Arch!After(n, Now, k)
  <2>1. k \in 0 .. WordMod - 1
    BY DEF Executing
  <2> QED
    BY <1>1, <2>1, MemoryRecursion, Zenon
<1>4. Now.ok
  BY DEF Now
<1>5. CASE Movs
  <2>1. Op = "movs" /\ Store("ES", di, Contents(Effective("DS"), si, Width))
    BY <1>5 DEF Movs, Fetched
  <2>2. Arch!After(n, Now, k)
          = Arch!Put(Now, "ES", dst, Arch!Value(Now, Arch!DataSegment(n), src, w))
    BY <1>1, <1>2, <1>4, <2>1 DEF Arch!After
  <2>3. Arch!Value(Now, Arch!DataSegment(n), src, w) = Contents(Effective("DS"), si, Width)
    BY <1>1, <2>1, ElementViews
  <2> DEFINE cells == Contents(Effective("DS"), si, Width)
  <2>4. Len(cells) \in {1, 2}
    BY <1>1 DEF Contents
  <2>5. Store("ES", ToWord(dst), cells)
    BY <1>1, <2>1
  <2> HIDE DEF cells, dst, src, w
  <2>6. Arch!Put(Now, "ES", dst, cells) = Now'
    BY <1>1, <2>4, <2>5, ElementStored
  <2> QED
    BY <1>2, <1>3, <2>2, <2>3, <2>6, Zenon DEF cells
<1>6. CASE Stos
  <2>1. Op = "stos" /\ Store("ES", di, Accum)
    BY <1>6 DEF Stos, Fetched
  <2>2. Arch!After(n, Now, k) = Arch!Put(Now, "ES", dst, Accum)
    BY <1>1, <1>2, <1>4, <2>1 DEF Arch!After
  <2>3. Len(Accum) \in {1, 2}
    <3>1. Fetchable /\ TypeOK
      BY <1>6 DEF Stos, Fetched, IndInv
    <3> QED
      BY <1>1, <3>1, AccumType
  <2>4. Store("ES", ToWord(dst), Accum)
    BY <1>1, <2>1
  <2> HIDE DEF dst, src, w
  <2>5. Arch!Put(Now, "ES", dst, Accum) = Now'
    BY <1>1, <2>3, <2>4, ElementStored
  <2> QED
    BY <1>2, <1>3, <2>2, <2>5, Zenon
<1>7. CASE Cmps \/ Lods \/ Scas
  <2>1. Op # "movs" /\ Op # "stos" /\ UNCHANGED memoryVars
    BY <1>7 DEF Cmps, Lods, Scas, Fetched
  <2>2. Arch!After(n, Now, k) = Now
    BY <1>1, <1>2, <1>4, <2>1 DEF Arch!After
  <2>3. Now' = Now
    BY <2>1 DEF Now, memoryVars
  <2> QED
    BY <1>2, <1>3, <2>2, <2>3, Zenon
<1> QED
  BY <1>2, <1>5, <1>6, <1>7

\* One call of executeInstruction() processes one element, and the next call
\* repeats the instruction if another element is pending.
LEMMA ElementStep ==
    ASSUME IndInv, start \in Machines, NEW n, NEW k, Executing(n, k),
           Movs \/ Cmps \/ Stos \/ Lods \/ Scas
    PROVE  /\ Arch!Pending(n, k) /\ k + 1 \in 0 .. WordMod
           /\ Reached(n, k + 1, Machine')
           /\ repeating' <=> Arch!Pending(n, k + 1)
<1> DEFINE compares == Op \in {"cmps", "scas"}
           op == Arch!At(n).op
<1>1. /\ Op = op /\ Width = Arch!At(n).width /\ Width \in {1, 2}
      /\ n \in Nat /\ k \in Nat /\ start.cx \in Nat
      /\ Effective("DS") = Arch!DataSegment(n)
      /\ Arch!Memory(n)[k] = Now
      /\ cx = IF Rep = 0 THEN start.cx ELSE start.cx - k
      /\ bx = start.bx /\ df = start.df
      /\ Op # "lods" => ac = start.ac
      /\ ~compares => zf = start.zf
  BY ElementOperands DEF Machines, Word
<1>2. /\ Op \in {"movs", "cmps", "lods"} => ToWord(Arch!Source(n, k + 1)) = ToWord(si + StringIncrement)
      /\ Op \notin {"movs", "cmps", "lods"} => si = start.si
      /\ Op # "lods" => ToWord(Arch!Target(n, k + 1)) = ToWord(di + StringIncrement)
      /\ Op = "lods" => di = start.di
  BY ElementOperands, Zenon
<1>3. /\ ~Skips
      /\ ip' = NextIP /\ bx' = bx /\ df' = df
      /\ Rep = 0 \/ cx = 0 => cx' = cx /\ (repeating' <=> repeating)
      /\ Rep # 0 /\ cx # 0 =>
           /\ cx' = cx - 1
           /\ repeating' <=> cx' # 0 /\ (compares => ~(zf' <=> Rep = 1))
  <2>1. CASE Movs \/ Stos \/ Lods
    <3>1. ~Skips /\ EndString(FALSE) /\ ~compares
      BY <2>1 DEF Movs, Stos, Lods, Fetched
    <3> HIDE DEF compares
    <3> QED
      BY <3>1, Zenon DEF EndString, DoRep
  <2>2. CASE Cmps \/ Scas
    <3>1. ~Skips /\ EndString(TRUE) /\ compares
      BY <2>2 DEF Cmps, Scas, Fetched
    <3>2. zf' \in BOOLEAN
      BY <2>2 DEF Cmps, Scas
    <3> HIDE DEF compares
    <3>3. zf' # (Rep = 1) <=> ~(zf' <=> Rep = 1)
      BY <3>2
    <3> QED
      BY <3>1, <3>3, Zenon DEF EndString, DoRep
  <2> QED
    BY <2>1, <2>2
<1>4. Arch!Pending(n, k)
  BY <1>3, SkipsOrPending
<1>5. Arch!Memory(n)[k + 1] = Now'
  BY ElementProcessed
<1>6. Arch!RepOf(n) \in {"none", "repnz", "repz"} /\ (Rep = 0 <=> Arch!RepOf(n) = "none")
      /\ (Rep = 1 <=> Arch!RepOf(n) = "repnz")
  BY <1>1, RepInForce, ArchNames DEF Executing, Arch!RepOf
<1>7. bx' = start.bx /\ df' = start.df
  BY <1>1, <1>3 DEF EndString
<1>8. /\ si' = IF op \in {"movs", "cmps", "lods"} THEN ToWord(Arch!Source(n, k + 1)) ELSE start.si
      /\ di' = IF op # "lods" THEN ToWord(Arch!Target(n, k + 1)) ELSE start.di
  <2>1. /\ si' = IF Op \in {"movs", "cmps", "lods"} THEN ToWord(si + StringIncrement) ELSE si
        /\ di' = IF Op # "lods" THEN ToWord(di + StringIncrement) ELSE di
    BY DEF Movs, Cmps, Stos, Lods, Scas, Fetched, AdvanceSI, AdvanceDI
  <2> QED
    BY <1>1, <1>2, <2>1
<1>9. compares => (zf' <=> Arch!Equal(n, Now, k))
  <2>1. ASSUME compares
        PROVE  zf' = ((IF Op = "cmps" THEN Contents(Effective("DS"), si, Width) ELSE Accum)
                          = Contents("ES", di, Width))
    BY <2>1 DEF Movs, Cmps, Stos, Lods, Scas, Fetched
  <2> QED
    BY <2>1, ElementEqual
<1>10. compares => Now' = Now
  BY DEF Movs, Cmps, Stos, Lods, Scas, Fetched, memoryVars, Now
<1>11. cx' = IF Arch!RepOf(n) = "none" THEN start.cx ELSE start.cx - (k + 1)
  <2>1. Rep # 0 => cx # 0
    BY <1>3 DEF Skips
  <2> QED
    BY <1>1, <1>3, <1>6, <2>1
<1>12. ac' = IF op = "lods"
               THEN LET c == Arch!Value(Now', Arch!DataSegment(n), Arch!Source(n, k),
                                        Arch!At(n).width)
                    IN  IF Len(c) = 1 THEN <<c[1], start.ac[2]>> ELSE c
               ELSE start.ac
  <2>1. CASE Lods
    <3> DEFINE c == Arch!Value(Now', Arch!DataSegment(n), Arch!Source(n, k), Arch!At(n).width)
               d == Contents(Effective("DS"), si, Width)
    <3>1. Op = "lods" /\ op = "lods" /\ Now' = Now /\ SetAccum(d)
      BY <1>1, <2>1 DEF Lods, Fetched, memoryVars, Now
    <3>2. Arch!Source(n, k) \in Int /\ si = ToWord(Arch!Source(n, k))
      BY <3>1, ElementOperands
    <3>3. c = d
      BY <1>1, <3>1, <3>2, ElementViews
    <3>4. Len(d) = Width
      BY <1>1 DEF Contents
    <3>5. Width = 1 => ac[2] = start.ac[2]
      <4> SUFFICES ASSUME Width = 1 PROVE ac[2] = start.ac[2]
        OBVIOUS
      <4> DEFINE e == Arch!Value(Arch!Memory(n)[k], Arch!DataSegment(n),
                                 Arch!Source(n, k - 1), Arch!At(n).width)
      <4>1. ac = IF k > 0 THEN IF Len(e) = 1 THEN <<e[1], start.ac[2]>> ELSE e
                 ELSE start.ac
        BY <3>1 DEF Executing, Reached, Machine
      <4>2. Len(e) = 1
        BY <1>1 DEF Arch!Value
      <4> HIDE DEF e
      <4> QED
        BY <4>1, <4>2
    <3> HIDE DEF c, d
    <3>6. ac' = IF Len(c) = 1 THEN <<c[1], start.ac[2]>> ELSE c
      BY <1>1, <3>1, <3>3, <3>4, <3>5 DEF SetAccum
    <3> QED
      BY <3>1, <3>6 DEF c
  <2>2. CASE Movs \/ Cmps \/ Stos \/ Scas
    <3>1. Op # "lods" /\ ac' = ac
      BY <2>2 DEF Movs, Cmps, Stos, Scas, Fetched
    <3> QED
      BY <1>1, <3>1
  <2> QED
    BY <2>1, <2>2
<1>13. repeating' <=> Arch!Pending(n, k + 1)
  <2>1. CASE Rep = 0
    <3>1. ~repeating
      BY <2>1 DEF IndInv, RepeatProtocol, Rep, Continues
    <3>2. ~Arch!Pending(n, k + 1)
      BY <1>1, <1>6, <2>1 DEF Arch!Pending
    <3> QED
      BY <1>3, <2>1, <3>1, <3>2
  <2>2. CASE Rep # 0
    <3>1. cx # 0
      BY <1>3, <2>2 DEF Skips
    <3>2. repeating' <=> cx' # 0 /\ (compares => ~(zf' <=> Rep = 1))
      BY <1>3, <2>2, <3>1
    <3>3. cx' = start.cx - (k + 1) /\ k < start.cx
      BY <1>1, <1>4, <1>6, <1>11, <2>2 DEF Arch!Pending
    <3>4. cx' # 0 <=> k + 1 < start.cx
      BY <1>1, <3>3
    <3>5. Arch!Pending(n, k + 1)
            <=> k + 1 < start.cx
                  /\ (compares => Arch!Equal(n, Now, k) # (Arch!RepOf(n) = "repnz"))
      BY <1>1, <1>4, <1>6, <2>2, PendingStep
    <3>6. compares => (Arch!Equal(n, Now, k) # (Arch!RepOf(n) = "repnz")
                         <=> ~(zf' <=> Rep = 1))
      <4> SUFFICES ASSUME compares
                   PROVE  Arch!Equal(n, Now, k) # (Arch!RepOf(n) = "repnz")
                            <=> ~(zf' <=> Rep = 1)
        OBVIOUS
      <4>1. Arch!Equal(n, Now, k) \in BOOLEAN /\ (Arch!RepOf(n) = "repnz") \in BOOLEAN
        BY Zenon DEF Arch!Equal
      <4>2. Arch!Equal(n, Now, k) # (Arch!RepOf(n) = "repnz")
              <=> ~(Arch!Equal(n, Now, k) <=> Arch!RepOf(n) = "repnz")
        BY <4>1
      <4> HIDE DEF compares
      <4> QED
        BY <1>6, <1>9, <4>2, Zenon
    <3> HIDE DEF compares
    <3> QED
      BY <3>2, <3>4, <3>5, <3>6, Zenon
  <2> QED
    BY <2>1, <2>2
<1>14. Reached(n, k + 1, Machine')
  <2> DEFINE j == k + 1
  <2>1. j - 1 = k /\ j > 0
    BY <1>1
  <2>2. Arch!Memory(n)[j] = Now'
    BY <1>5
  <2>3. /\ Machine'.bx = bx' /\ Machine'.df = df' /\ Machine'.cx = cx' /\ Machine'.si = si'
        /\ Machine'.di = di' /\ Machine'.ac = ac' /\ Machine'.zf = zf'
        /\ Machine'.ram = ram' /\ Machine'.shadowRam = shadowRam'
    BY DEF Machine
  <2>4. zf' = IF compares THEN Arch!Equal(n, Now', k) ELSE start.zf
    <3>1. CASE compares
      <4>1. zf' \in BOOLEAN /\ Arch!Equal(n, Now, k) \in BOOLEAN
        <5>1. zf' \in BOOLEAN
          BY <3>1 DEF Movs, Cmps, Stos, Lods, Scas, Fetched
        <5>2. Arch!Equal(n, Now, k) \in BOOLEAN
          BY Zenon DEF Arch!Equal
        <5> QED
          BY <5>1, <5>2
      <4> HIDE DEF compares
      <4> QED
        BY <1>9, <1>10, <3>1, <4>1
    <3>2. CASE ~compares
      BY <1>1, <3>2 DEF Movs, Cmps, Stos, Lods, Scas, Fetched
    <3> QED
      BY <3>1, <3>2
  <2>5. compares <=> op \in {"cmps", "scas"}
    BY <1>1
  <2>6. Now' = [ok |-> TRUE, ram |-> ram', shadow |-> shadowRam']
    BY DEF Now
  <2>7. /\ si' = IF op \in {"movs", "cmps", "lods"} THEN ToWord(Arch!Source(n, j)) ELSE start.si
        /\ di' = IF op # "lods" THEN ToWord(Arch!Target(n, j)) ELSE start.di
        /\ cx' = IF Arch!RepOf(n) = "none" THEN start.cx ELSE start.cx - j
    BY <1>8, <1>11
  <2> HIDE DEF j, compares
  <2>8. Reached(n, j, Machine')
    BY <1>7, <1>12, <2>1, <2>2, <2>3, <2>4, <2>5, <2>6, <2>7, Zenon DEF Reached
  <2> QED
    BY <2>8 DEF j
<1> QED
  BY <1>1, <1>4, <1>13, <1>14, ShadowAssumption DEF Executing

\* The last element completes the instruction.
LEMMA StringCompletes ==
    ASSUME NEW n, NEW k \in 0 .. WordMod, Reached(n, k, start'),
           ~Arch!Pending(n, k), k > 0 => Arch!Pending(n, k - 1),
           Arch!At(n).op \in StringOps, start'.ip = ToWord(start.ip + n + 1),
           sreg' = sreg, status' = status
    PROVE  Arch!String(n)
<1> DEFINE m == Arch!Memory(n)[k]
           c == Arch!Value(m, Arch!DataSegment(n), Arch!Source(n, k - 1), Arch!At(n).width)
<1>1. /\ m = [ok |-> TRUE, ram |-> start'.ram, shadow |-> start'.shadowRam]
      /\ start'.bx = start.bx /\ start'.df = start.df
      /\ start'.cx = IF Arch!RepOf(n) = "none" THEN start.cx ELSE start.cx - k
      /\ start'.si = IF Arch!At(n).op \in {"movs", "cmps", "lods"}
                       THEN ToWord(Arch!Source(n, k)) ELSE start.si
      /\ start'.di = IF Arch!At(n).op # "lods" THEN ToWord(Arch!Target(n, k)) ELSE start.di
      /\ start'.ac = IF Arch!At(n).op = "lods" /\ k > 0
                       THEN IF Len(c) = 1 THEN <<c[1], start.ac[2]>> ELSE c
                       ELSE start.ac
      /\ start'.zf = IF Arch!At(n).op \in {"cmps", "scas"} /\ k > 0
                       THEN Arch!Equal(n, m, k - 1) ELSE start.zf
  BY Zenon DEF Reached
<1>2. m.ok /\ start'.ram = m.ram /\ start'.shadowRam = m.shadow
  <2> HIDE DEF m
  <2> QED
    BY <1>1
<1>3. Arch!At(n).op \in Arch!StringOps
  BY ArchNames
<1> HIDE DEF m, c
<1> QED
  BY <1>1, <1>2, <1>3, ArchAddress, Zenon DEF Arch!String, m, c

\* As long as start stays, so do the elements of the instruction.
LEMMA SameString ==
    ASSUME start' = start, sreg' = sreg, NEW n, NEW k
    PROVE  /\ Arch!Code(n)' = Arch!Code(n)
           /\ Arch!CanRead("CS", start.ip + n, 1)' <=> Arch!CanRead("CS", start.ip + n, 1)
           /\ Arch!HasPrefixes(n)' <=> Arch!HasPrefixes(n)
           /\ Arch!Memory(n)' = Arch!Memory(n)
           /\ Arch!Source(n, k)' = Arch!Source(n, k)
           /\ Arch!Target(n, k)' = Arch!Target(n, k)
           /\ Arch!Pending(n, k)' <=> Arch!Pending(n, k)
           /\ Reached(n, k, Machine)' <=> Reached(n, k, Machine')
<1>1. /\ Arch!Code(n)' = Arch!Code(n)
      /\ Arch!CanRead("CS", start.ip + n, 1)' <=> Arch!CanRead("CS", start.ip + n, 1)
  BY DEF Arch!Code, Arch!CanRead, Arch!Allowed, Arch!Address, Arch!ToWord
<1>2. Arch!HasPrefixes(n)' <=> Arch!HasPrefixes(n)
  BY SameInstruction DEF Arch!HasPrefixes, Arch!RepKinds
<1>3. \A j : Arch!Source(n, j)' = Arch!Source(n, j) /\ Arch!Target(n, j)' = Arch!Target(n, j)
  BY DEF Arch!Code, Arch!Address, Arch!ToWord, Arch!At, Arch!Stride, Arch!Source, Arch!Target
<1>4. Arch!Memory(n)' = Arch!Memory(n)
  BY SMTT(60) DEF Arch!Code, Arch!Address, Arch!ToWord, Arch!At, Arch!DataSegment, Arch!Stride,
         Arch!Source, Arch!Target, Arch!Memory, Arch!First, Arch!After, Arch!Possible,
         Arch!Holds, Arch!Put, Arch!Value, Arch!Span, Arch!Accum
<1>5. \A m, seg, off, width : Arch!Value(m, seg, off, width)' = Arch!Value(m, seg, off, width)
  BY DEF Arch!Value, Arch!Address, Arch!ToWord
<1>6. \A m, j : Arch!Equal(n, m, j)' = Arch!Equal(n, m, j)
  BY DEF Arch!Code, Arch!Address, Arch!ToWord, Arch!At, Arch!DataSegment, Arch!Stride,
         Arch!Source, Arch!Target, Arch!Value, Arch!Accum, Arch!Equal
<1>7. /\ Arch!At(n)' = Arch!At(n) /\ Arch!RepOf(n)' = Arch!RepOf(n)
      /\ Arch!DataSegment(n)' = Arch!DataSegment(n)
  BY SameInstruction
<1>8. Arch!Pending(n, k)' <=> Arch!Pending(n, k)
  <2>1. \A j : Arch!Equal(n, Arch!Memory(n)[j], j)' = Arch!Equal(n, Arch!Memory(n)[j], j)
    BY <1>4, <1>6, Zenon
  <2> QED
    BY <1>7, <2>1, Zenon DEF Arch!Pending
<1>9. Reached(n, k, Machine)' <=> Reached(n, k, Machine')
  <2> DEFINE c == Arch!Value(Arch!Memory(n)[k], Arch!DataSegment(n), Arch!Source(n, k - 1),
                             Arch!At(n).width)
             e == Arch!Equal(n, Arch!Memory(n)[k], k - 1)
             x == ToWord(Arch!Source(n, k))
             y == ToWord(Arch!Target(n, k))
             mem == Arch!Memory(n)[k]
             op == Arch!At(n).op
             r == Arch!RepOf(n)
  <2>1. c' = c
    BY <1>3, <1>4, <1>5, <1>7, Zenon
  <2>2. e' = e
    BY <1>4, <1>6, Zenon
  <2>3. x' = x /\ y' = y
    BY <1>3, Zenon DEF ToWord
  <2>4. mem' = mem /\ op' = op /\ r' = r
    BY <1>4, <1>7, Zenon
  <2>5. \A s : Reached(n, k, s) <=>
              /\ s.bx = start.bx /\ s.df = start.df
              /\ mem = [ok |-> TRUE, ram |-> s.ram, shadow |-> s.shadowRam]
              /\ s.cx = IF r = "none" THEN start.cx ELSE start.cx - k
              /\ s.si = IF op \in {"movs", "cmps", "lods"} THEN x ELSE start.si
              /\ s.di = IF op # "lods" THEN y ELSE start.di
              /\ s.ac = IF op = "lods" /\ k > 0
                          THEN IF Len(c) = 1 THEN <<c[1], start.ac[2]>> ELSE c
                          ELSE start.ac
              /\ s.zf = IF op \in {"cmps", "scas"} /\ k > 0 THEN e ELSE start.zf
    BY Zenon DEF Reached
  <2>6. Reached(n, k, Machine)' <=>
              /\ Machine'.bx = start'.bx /\ Machine'.df = start'.df
              /\ mem' = [ok |-> TRUE, ram |-> Machine'.ram, shadow |-> Machine'.shadowRam]
              /\ Machine'.cx = IF r' = "none" THEN start'.cx ELSE start'.cx - k
              /\ Machine'.si = IF op' \in {"movs", "cmps", "lods"} THEN x' ELSE start'.si
              /\ Machine'.di = IF op' # "lods" THEN y' ELSE start'.di
              /\ Machine'.ac = IF op' = "lods" /\ k > 0
                          THEN IF Len(c') = 1 THEN <<c'[1], start'.ac[2]>> ELSE c'
                          ELSE start'.ac
              /\ Machine'.zf = IF op' \in {"cmps", "scas"} /\ k > 0 THEN e' ELSE start'.zf
    BY Zenon DEF Reached
  <2> HIDE DEF c, e, x, y, mem, op, r
  <2> QED
    BY <2>1, <2>2, <2>3, <2>4, <2>5, <2>6, Zenon
<1> QED
  BY <1>1, <1>2, <1>3, <1>4, <1>8, <1>9

\* A repetition finds the prefixes as the call before it did.
LEMMA HeadAgain ==
    ASSUME NEW n, Prefixed(n), start' = start, sreg' = sreg, Continues',
           rep' = Rep, segmentOverride' = Override
    PROVE  Prefixed(n)'
<1>1. Rep' = Rep /\ Override' = Override
  BY DEF Rep, Override, Continues
<1> QED
  BY <1>1, SameInstruction DEF Prefixed, Arch!RepKinds

\* Before that the next call finds the instruction one element on.
LEMMA StringRepeats ==
    ASSUME start \in Machines, NEW n, NEW k, Executing(n, k), start' = start,
           sreg' = sreg, repeating', opcode' = Opcode, ip' = NextIP, rep' = Rep,
           segmentOverride' = Override, Arch!Pending(n, k + 1), Reached(n, k + 1, Machine')
    PROVE  Executing(n, k + 1)'
<1>1. n \in Nat /\ k \in Nat /\ start.cx \in 0 .. WordMod - 1 /\ WordMod \in Nat
  BY ShadowAssumption DEF Executing, Machines, Word
<1>2. k + 1 < start.cx
  BY <1>1 DEF Arch!Pending
<1>3. k + 1 \in 0 .. WordMod - 1
  BY <1>1, <1>2
<1>4. Prefixed(n)'
  BY HeadAgain DEF Executing, Continues
<1>5. Opcode' = Opcode /\ NextIP' = NextIP
  BY DEF Opcode, NextIP
<1>6. Reached(n, k + 1, Machine)' /\ Arch!Pending(n, k + 1)'
  BY SameString
<1>7. /\ Arch!HasPrefixes(n)' /\ Arch!CanRead("CS", start.ip + n, 1)'
      /\ Arch!At(n)'.op \in StringOps /\ Opcode' = Arch!Code(n)'
  BY <1>5, SameString, SameInstruction DEF Executing
<1>8. NextIP' = ToWord(start.ip + n + 1)'
  BY <1>5 DEF Executing, ToWord
<1> QED
  BY <1>3, <1>4, <1>6, <1>7, <1>8 DEF Executing

-----------------------------------------------------------------------------
(* The instructions that take one call.                                      *)

\* The prefixes end at the first byte that is none, or after a REP.
LEMMA PrefixesEnd ==
    ASSUME start \in Machines, NEW n \in Nat, Begun(n), ~repeating,
           \/ ~Fetchable
           \/ Op \notin DOMAIN SegmentPrefix \cup Arch!RepKinds
           \/ Rep # 0
    PROVE  Arch!HasPrefixes(n) /\ n \in 0 .. WordMod
<1>1. Arch!Prefix(n) => Rep # 0
  BY FetchedByte, ArchNames DEF Arch!Prefix
<1>2. Rep # 0 => n > 0 /\ Arch!At(n - 1).op \in Arch!RepKinds
  BY RepInForce DEF Begun
<1>3. Arch!HasPrefixes(n)
  BY <1>1, <1>2 DEF Arch!HasPrefixes, Begun, Prefixed
<1> QED
  BY <1>3, PrefixCount

\* An instruction other than a string instruction comes with no REP.
LEMMA PlainHead ==
    ASSUME start \in Machines, NEW n \in Nat, Begun(n), ~repeating,
           NEW ops, Fetched(ops), ops \cap StringOps = {},
           ops \cap {"es", "cs", "ss", "ds", "repnz", "repz", "invalid"} = {}
    PROVE  Arch!HasPrefixes(n) /\ n \in 0 .. WordMod /\ Arch!WellFormed(n)
<1>1. Fetchable /\ ~RepRefused /\ Op \in ops
  BY DEF Fetched
<1>2. Rep = 0
  BY <1>1 DEF RepRefused
<1>3. Op \notin DOMAIN SegmentPrefix \cup Arch!RepKinds /\ Op # "invalid"
  BY <1>1, ArchNames
<1>4. ~(n > 0 /\ Arch!At(n - 1).op \in Arch!RepKinds)
  BY <1>2, RepInForce DEF Begun
<1>5. Arch!CanRead("CS", start.ip + n, 1) /\ Op = Arch!At(n).op
  BY <1>1, FetchedByte
<1>6. "repnz" \in Arch!RepKinds
  BY ArchNames
<1>7. Arch!WellFormed(n)
  BY <1>3, <1>4, <1>5, <1>6, Zenon DEF Arch!WellFormed
<1> QED
  BY <1>3, <1>7, PrefixesEnd

\* What they find: the operand bytes, the data segment and the accumulator.
LEMMA PlainOperands ==
    ASSUME IndInv, start \in Machines, NEW n \in Nat, Begun(n), ~repeating, Fetchable
    PROVE  /\ Width \in {1, 2}
           /\ CanRead("CS", NextIP, 1) <=> Arch!CanRead("CS", start.ip + n + 1, 1)
           /\ CanRead("CS", NextIP, 2) <=> Arch!CanRead("CS", start.ip + n + 1, 2)
           /\ ram[Address("CS", NextIP)] = Arch!Code(n + 1)
           /\ Direct = Arch!Direct(n)
           /\ \A d \in Int : ToWord(NextIP + d) = ToWord(start.ip + n + 1 + d)
           /\ Effective("DS") = Arch!DataSegment(n)
           /\ Accum = Arch!Accum(n)
<1>1. NextIP = ToWord(start.ip + n + 1) /\ Width = Arch!At(n).width
  BY FetchedByte
<1>2. /\ start.ip \in Int /\ start.ip + n + 1 \in Int
      /\ start.ip + (n + 1) = start.ip + n + 1 /\ n + 1 \in Nat /\ n + 1 + 1 = n + 2
  BY DEF Machines, Word
<1>3. /\ CanRead("CS", NextIP, 1) <=> Arch!CanRead("CS", start.ip + n + 1, 1)
      /\ CanRead("CS", NextIP, 2) <=> Arch!CanRead("CS", start.ip + n + 1, 2)
      /\ ram[Address("CS", NextIP)] = Arch!Code(n + 1)
      /\ ram[Address("CS", NextIP + 1)] = Arch!Code(n + 2)
  <2> DEFINE l == n + 1
  <2>1. l \in Nat /\ start.ip + l = start.ip + n + 1 /\ l + 1 = n + 2
    BY <1>2
  <2>2. Kept
    BY DEF Begun
  <2> HIDE DEF l
  <2>3. /\ CanRead("CS", ToWord(start.ip + l), 1) <=> Arch!CanRead("CS", start.ip + l, 1)
        /\ CanRead("CS", ToWord(start.ip + l), 2) <=> Arch!CanRead("CS", start.ip + l, 2)
        /\ ram[Address("CS", ToWord(start.ip + l))] = Arch!Code(l)
        /\ ram[Address("CS", ToWord(start.ip + l) + 1)] = Arch!Code(l + 1)
    BY <2>1, <2>2, FetchSame
  <2>4. /\ CanRead("CS", NextIP, 1) <=> Arch!CanRead("CS", start.ip + n + 1, 1)
        /\ CanRead("CS", NextIP, 2) <=> Arch!CanRead("CS", start.ip + n + 1, 2)
        /\ ram[Address("CS", NextIP)] = Arch!Code(l)
        /\ ram[Address("CS", NextIP + 1)] = Arch!Code(n + 2)
    BY <1>1, <2>1, <2>3, Zenon
  <2> QED
    BY <2>4 DEF l
<1>4. Direct = Arch!Direct(n)
  BY <1>3, ArchAddress, Zenon DEF Direct, Arch!Direct
<1>5. \A d \in Int : ToWord(NextIP + d) = ToWord(start.ip + n + 1 + d)
  BY <1>1, <1>2, ToWordSum
<1>6. Effective("DS") = Arch!DataSegment(n)
  BY DEF Effective, Begun, Prefixed
<1>7. Accum = Arch!Accum(n)
  BY <1>1 DEF Accum, Arch!Accum, Begun, Kept
<1>8. Width \in {1, 2}
  BY HeadType DEF IndInv
<1> QED
  BY <1>3, <1>4, <1>5, <1>6, <1>7, <1>8

\* Counting a word down comes to zero from one only.
LEMMA CountedDown ==
    ASSUME NEW c \in Word
    PROVE  ToWord(c - 1) # 0 <=> c # 1
<1>1. WordMod \in Nat \ {0, 1} /\ c \in 0 .. WordMod - 1
  BY ShadowAssumption DEF Word
<1>2. CASE c = 0
  <2>1. c - 1 = WordMod * (-1) + (WordMod - 1) /\ WordMod - 1 \in Word /\ c - 1 \in Int
    BY <1>1, <1>2 DEF Word
  <2>2. ToWord(c - 1) = WordMod - 1
    BY <2>1, ToWordUnique
  <2> QED
    BY <1>1, <1>2, <2>2
<1>3. CASE c # 0
  <2>1. c - 1 = WordMod * 0 + (c - 1) /\ c - 1 \in Word /\ c - 1 \in Int
    BY <1>1, <1>3 DEF Word
  <2>2. ToWord(c - 1) = c - 1
    BY <2>1, ToWordUnique
  <2> QED
    BY <1>1, <2>2
<1> QED
  BY <1>2, <1>3

\* MOV between the accumulator and memory.
LEMMA MovAccumCompletes ==
    ASSUME IndInv, start \in Machines, NEW n \in Nat, Begun(n), ~repeating,
           Load \/ StoreAccum, start' = Machine'
    PROVE  Arch!MovAccum(n)
<1> DEFINE off == Direct
           seg == Effective("DS")
<1>1. Fetchable /\ status' = status /\ CanRead("CS", NextIP, 2)
      /\ ip' = ToWord(NextIP + 2)
      /\ UNCHANGED <<bx, cx, si, di, zf, df, sreg>>
  BY DEF Load, StoreAccum, Fetched, flags, memoryVars, Store
<1>2. /\ Width \in {1, 2} /\ Width = Arch!At(n).width /\ Op = Arch!At(n).op
      /\ Arch!CanRead("CS", start.ip + n + 1, 2)
      /\ off = Arch!Direct(n) /\ seg = Arch!DataSegment(n) /\ Accum = Arch!Accum(n)
  BY <1>1, PlainOperands, FetchedByte
<1>3. ip' = ToWord(start.ip + n + 3)
  <2>1. ToWord(NextIP + 2) = ToWord(start.ip + n + 1 + 2)
    BY <1>1, PlainOperands
  <2>2. start.ip + n + 1 + 2 = start.ip + n + 3
    BY DEF Machines, Word
  <2> QED
    BY <1>1, <2>1, <2>2
<1>4. /\ start'.ip = ip' /\ start'.ac = ac' /\ start'.bx = bx' /\ start'.cx = cx'
      /\ start'.si = si' /\ start'.di = di' /\ start'.zf = zf' /\ start'.df = df'
      /\ start'.ram = ram' /\ start'.shadowRam = shadowRam'
  BY DEF Machine
<1>5. /\ start.ac = ac /\ start.bx = bx /\ start.cx = cx
      /\ start.si = si /\ start.di = di /\ start.zf = zf /\ start.df = df
      /\ start.ram = ram /\ start.shadowRam = shadowRam
  BY DEF Begun, Kept
<1>6. \A flag, s, o, w : Arch!Allowed(flag, s, o, w) <=> Allowed(flag, s, o, w)
  BY <1>5, ArchAllowed
<1>7. start'.ip = Arch!ToWord(start.ip + n + 3)
      /\ UNCHANGED <<start.bx, start.cx, start.si, start.di, start.zf, start.df, status>>
  BY <1>1, <1>3, <1>4, <1>5, ArchAddress
<1>8. CASE Load
  <2>1. /\ Op = "load" /\ CanRead(seg, off, Width) /\ SetAccum(Contents(seg, off, Width))
        /\ UNCHANGED memoryVars
    BY <1>8 DEF Load, Fetched
  <2>2. Len(Contents(seg, off, Width)) = Width
    BY <1>2 DEF Contents
  <2>3. Arch!Contents(seg, off, Width) = Contents(seg, off, Width)
    BY <1>5, ArchAddress DEF Arch!Contents, Contents
  <2> DEFINE c == Contents(seg, off, Width)
  <2>4. start'.ac = IF Len(c) = 1 THEN <<c[1], start.ac[2]>> ELSE c
    <3> HIDE DEF off, seg
    <3>1. ac' = IF Width = 1 THEN <<c[1], ac[2]>> ELSE c
      BY <2>1 DEF SetAccum
    <3> QED
      BY <1>4, <1>5, <2>2, <3>1, Zenon
  <2>5. UNCHANGED Arch!memoryVars
    BY <1>4, <1>5, <2>1 DEF Arch!memoryVars, memoryVars
  <2>6. Arch!CanRead(seg, off, Width)
    BY <1>6, <2>1, Zenon DEF Arch!CanRead, CanRead
  <2> HIDE DEF off, seg
  <2> QED
    BY <1>2, <1>7, <2>1, <2>3, <2>4, <2>5, <2>6, Zenon DEF Arch!MovAccum
<1>9. CASE StoreAccum
  <2>1. /\ Op = "store" /\ CanWrite(seg, off, Width) /\ Store(seg, off, Accum) /\ ac' = ac
    BY <1>9 DEF StoreAccum, Fetched
  <2>2. Arch!CanWrite(seg, off, Width)
    BY <1>6, <2>1, Zenon DEF Arch!CanWrite, CanWrite
  <2> HIDE DEF off, seg
  <2>3. Arch!Granted(seg, off, Len(Accum)) = Granted(seg, off, Len(Accum))
    BY <1>5, ArchAddress, Zenon DEF Arch!Granted, Granted
  <2>4. Arch!Store(seg, off, Accum)
    BY <1>1, <1>4, <1>5, <2>1, <2>3, ArchAddress, Zenon DEF Arch!Store, Store
  <2>5. Op # "load" /\ UNCHANGED start.ac
    BY <1>4, <1>5, <2>1
  <2> QED
    BY <1>2, <1>7, <2>1, <2>2, <2>4, <2>5, Zenon DEF Arch!MovAccum
<1> QED
  BY <1>8, <1>9

\* XLATB, CLD, STD and the jumps.
LEMMA OthersComplete ==
    ASSUME IndInv, start \in Machines, NEW n \in Nat, Begun(n), ~repeating,
           Xlat \/ SetDirection \/ JumpShort, start' = Machine'
    PROVE  Arch!Xlat(n) \/ Arch!Direction(n) \/ Arch!Jump(n)
<1>1. Fetchable /\ status' = status /\ UNCHANGED memoryVars
  BY DEF Xlat, SetDirection, JumpShort, Fetched
<1>2. Op = Arch!At(n).op /\ NextIP = ToWord(start.ip + n + 1)
  BY FetchedByte
<1>3. /\ start'.ip = ip' /\ start'.ac = ac' /\ start'.bx = bx' /\ start'.cx = cx'
      /\ start'.si = si' /\ start'.di = di' /\ start'.zf = zf' /\ start'.df = df'
      /\ start'.ram = ram' /\ start'.shadowRam = shadowRam'
  BY DEF Machine
<1>4. /\ start.ac = ac /\ start.bx = bx /\ start.cx = cx
      /\ start.si = si /\ start.di = di /\ start.zf = zf /\ start.df = df
      /\ start.ram = ram /\ start.shadowRam = shadowRam
  BY DEF Begun, Kept
<1>5. UNCHANGED Arch!memoryVars
  BY <1>1, <1>3, <1>4 DEF Arch!memoryVars, memoryVars
<1>6. CASE Xlat
  <2> DEFINE s == Effective(segment)
  <2>1. /\ Op = "xlat" /\ CanRead(s, bx + ac[1], 1)
        /\ ac' = <<ram[Address(s, bx + ac[1])], ac[2]>> /\ ip' = NextIP
        /\ UNCHANGED <<bx, cx, si, di, zf, df>>
    BY <1>6 DEF Xlat, Fetched, flags
  <2>2. s \in Arch!TableSegments(n)
    <3>1. Override = "none" => s = segment /\ segment \in Arch!Segs
      BY DEF Effective, IndInv, TypeOK, Segs, Arch!Segs
    <3>2. Override # "none" => s = Arch!DataSegment(n)
      BY DEF Effective, Begun, Prefixed
    <3>3. Override # "none" <=> \E m \in 0 .. n - 1 : Arch!At(m).op \in DOMAIN SegmentPrefix
      BY DEF Begun, Prefixed
    <3> HIDE DEF s
    <3> QED
      BY <3>1, <3>2, <3>3, ArchNames, Zenon DEF Arch!TableSegments
  <2>3. Arch!CanRead(s, start.bx + start.ac[1], 1)
    BY <1>4, <2>1, ArchAllowed, Zenon DEF Arch!CanRead, CanRead
  <2>4. start'.ac = [start.ac EXCEPT ![1] = start.ram[Arch!Address(s, start.bx + start.ac[1])]]
    <3> DEFINE b == ram[Address(s, bx + ac[1])]
    <3>1. ac \in Byte \X Byte /\ ac' = <<b, ac[2]>>
      BY <2>1 DEF IndInv, TypeOK
    <3>2. start.ram[Arch!Address(s, start.bx + start.ac[1])] = b
      BY <1>4, ArchAddress, Zenon
    <3> HIDE DEF b, s
    <3>3. ac' = [ac EXCEPT ![1] = b]
      BY <3>1
    <3> QED
      BY <1>3, <1>4, <3>2, <3>3, Zenon
  <2>5. start'.ip = Arch!ToWord(start.ip + n + 1)
        /\ UNCHANGED <<start.bx, start.cx, start.si, start.di, start.zf, start.df, status>>
    BY <1>1, <1>2, <1>3, <1>4, <2>1, ArchAddress
  <2> HIDE DEF s
  <2> QED
    BY <1>2, <1>5, <2>1, <2>2, <2>3, <2>4, <2>5, Zenon DEF Arch!Xlat
<1>7. CASE SetDirection
  <2>1. /\ Op \in {"cld", "std"} /\ df' = (Op = "std") /\ ip' = NextIP
        /\ UNCHANGED <<ac, bx, cx, si, di, zf>>
    BY <1>7 DEF SetDirection, Fetched
  <2>2. start'.ip = Arch!ToWord(start.ip + n + 1)
        /\ UNCHANGED <<start.ac, start.bx, start.cx, start.si, start.di, start.zf, status>>
    BY <1>1, <1>2, <1>3, <1>4, <2>1, ArchAddress
  <2>3. start'.df = (Arch!At(n).op = "std")
    BY <1>2, <1>3, <2>1, Zenon
  <2> QED
    BY <1>2, <1>5, <2>1, <2>2, <2>3, Zenon DEF Arch!Direction
<1>8. CASE JumpShort
  <2> DEFINE b == Arch!Code(n + 1)
             op == Arch!At(n).op
             counts == op \in {"loop", "loopz", "loopnz"}
             taken == /\ counts => start.cx # 1
                      /\ op \in {"jz", "loopz"} => start.zf
                      /\ op \in {"jnz", "loopnz"} => ~start.zf
                      /\ op = "jcxz" => start.cx = 0
             displacement == IF b < ByteMod \div 2 THEN b ELSE b - ByteMod
  <2>1. /\ Op \in JumpOps /\ CanRead("CS", NextIP, 1) /\ cx' = CountedCX
        /\ ip' = ToWord(NextIP + 1
                         + (IF Taken THEN SignExtend(ram[Address("CS", NextIP)]) ELSE 0))
        /\ UNCHANGED <<ac, bx, si, di, zf, df>>
    BY <1>8 DEF JumpShort, Fetched, flags
  <2>2. /\ Arch!CanRead("CS", start.ip + n + 1, 1)
        /\ ram[Address("CS", NextIP)] = b
        /\ \A d \in Int : ToWord(NextIP + d) = ToWord(start.ip + n + 1 + d)
    BY <1>1, <2>1, PlainOperands
  <2>3. Taken <=> taken
    <3>1. start.cx \in Word /\ zf \in BOOLEAN
      BY DEF Machines, IndInv, TypeOK
    <3>2. counts => (CountedCX # 0 <=> start.cx # 1)
      BY <1>2, <1>4, <3>1, CountedDown DEF CountedCX
    <3> QED
      BY <1>2, <1>4, <2>1, <3>1, <3>2 DEF Taken, JumpOps
  <2>4. SignExtend(ram[Address("CS", NextIP)]) = displacement /\ displacement \in Int
    BY <1>1, <2>1, <2>2, OperandType DEF SignExtend, IndInv
  <2> DEFINE delta == IF taken THEN displacement ELSE 0
  <2>5. ip' = ToWord(start.ip + n + 2 + delta)
    <3> HIDE DEF taken, displacement
    <3>1. ip' = ToWord(NextIP + 1 + delta) /\ delta \in Int
      BY <2>1, <2>3, <2>4
    <3>2. NextIP \in Int
      BY <1>1, HeadType, ShadowAssumption DEF IndInv, Word
    <3>3. start.ip \in Int
      BY DEF Machines, Word
    <3> HIDE DEF delta
    <3> DEFINE d == 1 + delta
    <3>4. d \in Int /\ NextIP + 1 + delta = NextIP + d
          /\ start.ip + n + 2 + delta = start.ip + n + 1 + d
      BY <3>1, <3>2, <3>3
    <3> HIDE DEF d
    <3> QED
      BY <2>2, <3>1, <3>4
  <2>6. cx' = IF counts THEN ToWord(start.cx - 1) ELSE start.cx
    BY <1>2, <1>4, <2>1 DEF CountedCX
  <2> HIDE DEF delta, counts
  <2>7. /\ start'.ip = Arch!ToWord(start.ip + n + 2 + delta)
        /\ start'.cx = IF counts THEN Arch!ToWord(start.cx - 1) ELSE start.cx
        /\ UNCHANGED <<start.ac, start.bx, start.si, start.di, start.zf, start.df, status>>
    BY <1>1, <1>3, <1>4, <2>1, <2>5, <2>6, ArchAddress, Zenon
  <2>8. op \in Arch!JumpOps
    BY <1>2, <2>1, ArchNames
  <2>9. Arch!CanRead("CS", start.ip + n + 1, 1)
    BY <2>2
  <2> QED
    BY <1>5, <2>7, <2>8, <2>9, Zenon DEF Arch!Jump, delta, counts
<1> QED
  BY <1>6, <1>7, <1>8

-----------------------------------------------------------------------------
(* What the loop keeps true about the instruction it is in.                  *)

\* Between two calls the loop has executed a number of prefixes, or a number of
\* elements of a string instruction with such prefixes.
HInv ==
    /\ IndInv
    /\ start \in Machines
    /\ ~Midway => start = Machine
    /\ ~repeating => \E n \in Nat : Begun(n)
    /\ repeating => \E n, k : Executing(n, k) /\ k > 0

\* A string instruction that is fetched has no element processed yet.
LEMMA StringBegins ==
    ASSUME IndInv, start \in Machines, NEW n \in Nat, Begun(n), ~repeating,
           Fetchable, Op \in StringOps
    PROVE  Executing(n, 0)
<1>1. Arch!HasPrefixes(n) /\ n \in 0 .. WordMod
  <2>1. Op \notin DOMAIN SegmentPrefix \cup Arch!RepKinds
    BY ArchNames DEF StringOps
  <2> QED
    BY <2>1, PrefixesEnd
<1>2. /\ Arch!CanRead("CS", start.ip + n, 1) /\ Opcode = Arch!Code(n)
      /\ Op = Arch!At(n).op /\ Width = Arch!At(n).width
      /\ NextIP = ToWord(start.ip + n + 1)
  BY FetchedByte
<1>3. /\ ac = start.ac /\ bx = start.bx /\ cx = start.cx /\ si = start.si /\ di = start.di
      /\ zf = start.zf /\ df = start.df
      /\ ram = start.ram /\ shadowRam = start.shadowRam
  BY DEF Begun, Kept
<1>4. ToWord(Arch!Source(n, 0)) = start.si /\ ToWord(Arch!Target(n, 0)) = start.di
  <2>1. Arch!Stride(n) \in Int
    BY <1>2, HeadType DEF IndInv, Arch!Stride
  <2>2. 0 * Arch!Stride(n) = 0
    BY <2>1
  <2>3. Arch!Source(n, 0) = start.si /\ Arch!Target(n, 0) = start.di
    BY <2>2 DEF Arch!Source, Arch!Target, Machines, Word
  <2> QED
    BY <2>3, ToWordOfWord DEF Machines
<1>5. Arch!Memory(n)[0] = [ok |-> TRUE, ram |-> ram, shadow |-> shadowRam]
  BY <1>3, MemoryRecursion, Zenon DEF Arch!First
<1>6. cx = IF Arch!RepOf(n) = "none" THEN start.cx ELSE start.cx - 0
  BY <1>3 DEF Machines, Word
<1>7. Reached(n, 0, Machine)
  <2>1. ~(0 > 0)
    OBVIOUS
  <2>2. /\ Machine.bx = bx /\ Machine.df = df /\ Machine.cx = cx /\ Machine.si = si
        /\ Machine.di = di /\ Machine.ac = ac /\ Machine.zf = zf
        /\ Machine.ram = ram /\ Machine.shadowRam = shadowRam
    BY DEF Machine
  <2> QED
    BY <1>3, <1>4, <1>5, <1>6, <2>1, <2>2, Zenon DEF Reached
<1>8. 0 \in 0 .. WordMod - 1 /\ ~(0 > 0)
  BY ShadowAssumption
<1> QED
  BY <1>1, <1>2, <1>7, <1>8, Zenon DEF Executing, Begun

\* Fetched now or being repeated, it is an instruction that the instruction set
\* knows.
LEMMA StringWellFormed ==
    ASSUME NEW n \in Nat, NEW k, Executing(n, k), Rep = 1 => Op \in ComparesOps
    PROVE  Arch!WellFormed(n)
<1>1. /\ Arch!CanRead("CS", start.ip + n, 1) /\ Prefixed(n)
      /\ Arch!At(n).op \in StringOps /\ Opcode = Arch!Code(n)
  BY DEF Executing
<1>2. Op = Arch!At(n).op
  BY <1>1, Zenon DEF Op, Arch!At
<1>3. n > 0 /\ Arch!At(n - 1).op = "repnz" => Rep = 1
  BY <1>1, RepInForce, ArchNames DEF Arch!RepOf
<1> QED
  BY <1>1, <1>2, <1>3, ArchNames DEF Arch!WellFormed, StringOps, ComparesOps

\* In either case the loop is at some element of the instruction.
LEMMA StringAt ==
    ASSUME HInv, Fetchable, Op \in StringOps
    PROVE  \E n, k : Executing(n, k)
<1>1. CASE repeating
  BY <1>1 DEF HInv
<1>2. CASE ~repeating
  <2>1. PICK n \in Nat : Begun(n)
    BY <1>2 DEF HInv
  <2>2. Executing(n, 0)
    BY <1>2, <2>1, StringBegins DEF HInv
  <2> QED
    BY <2>2
<1> QED
  BY <1>1, <1>2

-----------------------------------------------------------------------------
(* runtimeError() ends the process where the instruction faults.             *)

\* An element is refused.
LEMMA StringFaults ==
    ASSUME IndInv, start \in Machines, NEW n, NEW k, Executing(n, k),
           Rep = 1 => Op \in ComparesOps, AccessRefused,
           status' = "runtimeError", start' = start, UNCHANGED memoryVars
    PROVE  Arch!Faults(n)
<1>1. /\ n \in Nat /\ k \in Nat /\ Op \in StringOps /\ Op = Arch!At(n).op
      /\ Arch!Memory(n)[k] = Now
  BY ElementOperands
<1>2. ~Skips /\ ~Arch!Possible(n, Now, k)
  BY <1>1, ElementPossible DEF AccessRefused, StringOps, JumpOps
<1>3. Arch!Pending(n, k)
  BY <1>2, SkipsOrPending
<1>4. k \in 0 .. start.cx
  <2>1. start.cx \in Nat
    BY DEF Machines, Word
  <2>2. k = 0 \/ k < start.cx
    BY <1>3 DEF Arch!Pending
  <2> QED
    BY <1>1, <2>1, <2>2
<1>5. Arch!WellFormed(n)
  BY <1>1, StringWellFormed
<1>6. Now.ok
  BY DEF Now
<1>7. Arch!At(n).op \in Arch!StringOps
  BY <1>1, ArchNames
<1>8. UNCHANGED <<start.ip, start.ac, start.bx, start.cx, start.si, start.di,
                  start.zf, start.df, Arch!memoryVars>>
  BY DEF Arch!memoryVars, memoryVars
<1>9. Arch!Memory(n)[k].ok /\ ~Arch!Possible(n, Arch!Memory(n)[k], k)
  BY <1>1, <1>2, <1>6, Zenon
<1> QED
  BY <1>3, <1>4, <1>5, <1>7, <1>8, <1>9, Zenon DEF Arch!Faults

\* An operand of an instruction that takes one call is refused.
LEMMA PlainFaults ==
    ASSUME IndInv, start \in Machines, NEW n \in Nat, Begun(n), ~repeating,
           Fetchable, ~RepRefused, Op \notin StringOps, AccessRefused,
           status' = "runtimeError", start' = start, UNCHANGED memoryVars
    PROVE  Arch!HasPrefixes(n) /\ n \in 0 .. WordMod /\ Arch!Faults(n)
<1>1. Rep = 0 /\ Op \in {"load", "store", "xlat"} \cup JumpOps
  BY DEF RepRefused, AccessRefused, StringOps
<1>2. Op \notin DOMAIN SegmentPrefix \cup Arch!RepKinds /\ Op # "invalid"
  BY <1>1, ArchNames DEF JumpOps
<1>3. Arch!HasPrefixes(n) /\ n \in 0 .. WordMod
  BY <1>2, PrefixesEnd
<1>4. Arch!CanRead("CS", start.ip + n, 1) /\ Op = Arch!At(n).op /\ Width = Arch!At(n).width
  BY FetchedByte
<1>5. Arch!WellFormed(n)
  <2>1. ~(n > 0 /\ Arch!At(n - 1).op \in Arch!RepKinds)
    BY <1>1, RepInForce DEF Begun
  <2>2. "repnz" \in Arch!RepKinds
    BY ArchNames
  <2> QED
    BY <1>2, <1>4, <2>1, <2>2, Zenon DEF Arch!WellFormed
<1>6. UNCHANGED <<start.ip, start.ac, start.bx, start.cx, start.si, start.di,
                  start.zf, start.df, Arch!memoryVars>>
  BY DEF Arch!memoryVars, memoryVars
<1>7. /\ CanRead("CS", NextIP, 1) <=> Arch!CanRead("CS", start.ip + n + 1, 1)
      /\ CanRead("CS", NextIP, 2) <=> Arch!CanRead("CS", start.ip + n + 1, 2)
      /\ Direct = Arch!Direct(n) /\ Effective("DS") = Arch!DataSegment(n)
  BY PlainOperands
<1>8. /\ start.bx = bx /\ start.ac = ac
      /\ \A flag, s, o, w : Arch!Allowed(flag, s, o, w) <=> Allowed(flag, s, o, w)
  BY ArchAllowed DEF Begun, Kept
<1>9. CASE Op \in JumpOps
  <2>1. ~Arch!CanRead("CS", start.ip + n + 1, 1) /\ Arch!At(n).op \in Arch!JumpOps
    BY <1>4, <1>7, <1>9, ArchNames DEF AccessRefused, JumpOps
  <2> QED
    BY <1>3, <1>5, <1>6, <2>1, Zenon DEF Arch!Faults
<1>10. CASE Op = "xlat"
  <2> DEFINE s == Effective(segment)
  <2>1. ~CanRead(s, bx + ac[1], 1)
    BY <1>10 DEF AccessRefused, JumpOps
  <2>2. s \in Arch!TableSegments(n)
    <3>1. Override = "none" => s = segment /\ segment \in Arch!Segs
      BY DEF Effective, IndInv, TypeOK, Segs, Arch!Segs
    <3>2. Override # "none" => s = Arch!DataSegment(n)
      BY DEF Effective, Begun, Prefixed
    <3>3. Override # "none" <=> \E m \in 0 .. n - 1 : Arch!At(m).op \in DOMAIN SegmentPrefix
      BY DEF Begun, Prefixed
    <3> HIDE DEF s
    <3> QED
      BY <3>1, <3>2, <3>3, ArchNames, Zenon DEF Arch!TableSegments
  <2>3. ~Arch!CanRead(s, start.bx + start.ac[1], 1)
    BY <1>8, <2>1, Zenon DEF Arch!CanRead, CanRead
  <2> HIDE DEF s
  <2> QED
    BY <1>3, <1>4, <1>5, <1>6, <1>10, <2>2, <2>3, Zenon DEF Arch!Faults
<1>11. CASE Op \in {"load", "store"}
  <2> DEFINE flag == IF Op = "load" THEN "fRead" ELSE "fWrite"
  <2>1. \/ ~CanRead("CS", NextIP, 2)
        \/ CanRead("CS", NextIP, 2) /\ ~Allowed(flag, Effective("DS"), Direct, Width)
    BY <1>11 DEF AccessRefused, JumpOps, CanRead, CanWrite
  <2>2. \/ ~Arch!CanRead("CS", start.ip + n + 1, 2)
        \/ /\ Arch!CanRead("CS", start.ip + n + 1, 2)
           /\ ~Arch!Allowed(flag, Arch!DataSegment(n), Arch!Direct(n), Arch!At(n).width)
    <3> HIDE DEF flag
    <3> QED
      BY <1>4, <1>7, <1>8, <2>1, Zenon
  <2> QED
    BY <1>3, <1>4, <1>5, <1>6, <1>11, <2>2, Zenon DEF Arch!Faults
<1> QED
  BY <1>1, <1>9, <1>10, <1>11

\* Every cause of a runtimeError() is a fault of the instruction that is executed.
LEMMA ErrorFaults ==
    ASSUME HInv, RuntimeError, start' = start
    PROVE  \E n \in 0 .. WordMod : Arch!HasPrefixes(n) /\ Arch!Faults(n)
<1>1. /\ status' = "runtimeError" /\ UNCHANGED memoryVars
      /\ \/ ~Fetchable
         \/ Fetchable /\ \/ RepRefused
                         \/ AccessRefused
                         \/ Op = "invalid"
                         \/ Op \in StringOps \ ComparesOps /\ Rep = 1
  BY DEF RuntimeError
<1>2. IndInv /\ start \in Machines
  BY DEF HInv
<1>3. CASE Fetchable /\ Op \in StringOps /\ AccessRefused /\ (Rep = 1 => Op \in ComparesOps)
  <2>1. PICK n, k : Executing(n, k)
    BY <1>3, StringAt
  <2>2. Arch!Faults(n)
    BY <1>1, <1>2, <1>3, <2>1, StringFaults
  <2> QED
    BY <2>1, <2>2 DEF Executing
<1>4. CASE repeating
  <2>1. Fetchable /\ ~RepRefused /\ Op \in StringOps /\ (Rep = 1 => Op \in ComparesOps)
    BY <1>2, <1>4 DEF Fetchable, RepRefused, IndInv, RepeatProtocol, Op, Opcode, Rep, Continues
  <2>2. Op # "invalid"
    BY <2>1 DEF StringOps
  <2> QED
    BY <1>1, <1>3, <2>1, <2>2
<1>5. CASE ~repeating
  <2>1. PICK n \in Nat : Begun(n)
    BY <1>5 DEF HInv
  <2>2. UNCHANGED <<start.ip, start.ac, start.bx, start.cx, start.si, start.di,
                    start.zf, start.df, Arch!memoryVars>>
    BY <1>1 DEF Arch!memoryVars, memoryVars
  <2>3. Fetchable <=> Arch!CanRead("CS", start.ip + n, 1)
    BY <1>2, <1>5, <2>1, FetchedByte
  <2>4. Op = Arch!At(n).op
    BY <1>2, <1>5, <2>1, FetchedByte
  <2>5. ASSUME ~Arch!WellFormed(n), \/ ~Fetchable
                                    \/ Op \notin DOMAIN SegmentPrefix \cup Arch!RepKinds
                                    \/ Rep # 0
        PROVE  \E i \in 0 .. WordMod : Arch!HasPrefixes(i) /\ Arch!Faults(i)
    <3>1. Arch!HasPrefixes(n) /\ n \in 0 .. WordMod
      BY <1>2, <1>5, <2>1, <2>5, PrefixesEnd
    <3>2. Arch!Faults(n)
      BY <1>1, <2>2, <2>5, Zenon DEF Arch!Faults
    <3> QED
      BY <3>1, <3>2
  <2>6. CASE ~Fetchable
    BY <2>3, <2>5, <2>6 DEF Arch!WellFormed
  <2>7. CASE RepRefused
    <3>1. n > 0 /\ Arch!At(n - 1).op \in Arch!RepKinds /\ Arch!At(n).op \notin Arch!StringOps
      BY <2>1, <2>4, <2>7, RepInForce, ArchNames DEF RepRefused, Begun
    <3>2. ~Arch!WellFormed(n) /\ Rep # 0
      BY <2>7, <3>1 DEF Arch!WellFormed, RepRefused
    <3> QED
      BY <2>5, <3>2
  <2>8. CASE Op \in StringOps \ ComparesOps /\ Rep = 1
    <3>1. Arch!RepOf(n) = "repnz"
      BY <2>1, <2>8, RepInForce DEF Begun
    <3>2. n > 0 /\ Arch!At(n - 1).op = "repnz"
      BY <3>1 DEF Arch!RepOf
    <3>3. ~Arch!WellFormed(n) /\ Rep # 0
      BY <2>4, <2>8, <3>2 DEF Arch!WellFormed, ComparesOps
    <3> QED
      BY <2>5, <3>3
  <2>9. CASE Op = "invalid"
    <3>1. ~Arch!WellFormed(n) /\ Op \notin DOMAIN SegmentPrefix \cup Arch!RepKinds
      BY <2>4, <2>9, ArchNames DEF Arch!WellFormed
    <3> QED
      BY <2>5, <3>1
  <2>10. CASE Fetchable /\ ~RepRefused /\ Op \notin StringOps /\ AccessRefused
    BY <1>1, <1>2, <1>5, <2>1, <2>10, PlainFaults
  <2> QED
    BY <1>1, <1>3, <2>6, <2>7, <2>8, <2>9, <2>10
<1> QED
  BY <1>4, <1>5

-----------------------------------------------------------------------------
(* Every step keeps HInv, and is a step of the instruction set or none.      *)

\* Between two instructions nothing has been executed of the next one.
LEMMA Fresh == IndInv /\ ~Midway /\ start = Machine => HInv
<1> SUFFICES ASSUME IndInv, ~Midway, start = Machine PROVE HInv
  OBVIOUS
<1>1. start \in Machines
  BY DEF Machine, Machines, IndInv, TypeOK, MemoryTypeOK, ShadowTypeOK
<1>2. ~repeating /\ ~prefix
  BY DEF Midway, Continues
<1>3. Kept
  BY DEF Kept, Machine
<1>4. ip = ToWord(start.ip + 0)
  <2>1. start.ip = ip /\ ip \in Word /\ ip + 0 = ip
    BY ShadowAssumption DEF Machine, IndInv, TypeOK, Word
  <2> QED
    BY <2>1, ToWordOfWord
<1>5. Prefixed(0)
  <2>1. Rep = 0 /\ Override = "none"
    BY <1>2 DEF Rep, Override, Continues
  <2>2. \A m : m \notin 0 .. 0 - 1 /\ m \notin 0 .. 0 - 2
    OBVIOUS
  <2>3. ~(0 > 0)
    OBVIOUS
  <2>4. Arch!RepOf(0) = "none"
    BY <2>3, Zenon DEF Arch!RepOf
  <2>5. Arch!DataSegment(0) = "DS"
    <3>1. {m \in 0 .. 0 - 1 : Arch!At(m).op \in DOMAIN Arch!Overrides} = {}
      BY <2>2
    <3> QED
      BY <3>1, Zenon DEF Arch!DataSegment
  <2> QED
    BY <2>1, <2>2, <2>4, <2>5, Zenon DEF Prefixed
<1>6. Begun(0)
  BY <1>3, <1>4, <1>5 DEF Begun
<1> QED
  BY <1>1, <1>2, <1>6 DEF HInv

\* So it is after a step.
LEMMA FreshAgain == (IndInv /\ ~Midway /\ start = Machine => HInv)'
  BY Fresh, PTL

\* What does not touch the globals of the loop does not disturb HInv.
LEMMA StillThere ==
    ASSUME HInv, IndInv', start' = start, UNCHANGED <<regs, flags, control, memoryVars>>
    PROVE  HInv'
<1>1. /\ UNCHANGED <<ip, ac, bx, cx, si, di, zf, df, ram, shadowRam, sreg, opcode, prefix,
                     rep, repeating, segmentOverride>>
  BY DEF regs, flags, control, memoryVars
<1>2. Machine' = Machine
  BY <1>1 DEF Machine
<1>3. /\ Rep' = Rep /\ Override' = Override /\ Opcode' = Opcode /\ NextIP' = NextIP
      /\ Midway' <=> Midway
  BY <1>1 DEF Rep, Override, Opcode, NextIP, Midway, Continues, Address, ToWord
<1>4. ASSUME NEW n, Prefixed(n) PROVE Prefixed(n)'
  BY <1>1, <1>3, <1>4, SameInstruction DEF Prefixed, Arch!RepKinds
<1>5. ASSUME NEW n, Begun(n) PROVE Begun(n)'
  BY <1>1, <1>4, <1>5 DEF Begun, Kept, ToWord
<1>6. ASSUME NEW n, NEW k, Executing(n, k) PROVE Executing(n, k)'
  <2>1. Prefixed(n)'
    BY <1>4, <1>6 DEF Executing
  <2>2. Reached(n, k, Machine)'
    <3>1. Reached(n, k, Machine)
      BY <1>6 DEF Executing
    <3> QED
      BY <1>1, <1>2, <3>1, SameString, Zenon
  <2>3. k > 0 => Arch!Pending(n, k)'
    BY <1>1, <1>6, SameString DEF Executing
  <2>4. /\ Arch!HasPrefixes(n)' /\ Arch!CanRead("CS", start.ip + n, 1)'
        /\ Arch!At(n)'.op \in StringOps /\ Opcode' = Arch!Code(n)'
    BY <1>1, <1>3, <1>6, SameString, SameInstruction DEF Executing
  <2>5. NextIP' = ToWord(start.ip + n + 1)'
    BY <1>3, <1>6 DEF Executing, ToWord
  <2> QED
    BY <1>6, <2>1, <2>2, <2>3, <2>4, <2>5 DEF Executing
<1>7. (start \in Machines)'
  BY DEF HInv, Machines
<1>8. (~Midway => start = Machine)'
  BY <1>2, <1>3 DEF HInv
<1>9. (~repeating => \E n \in Nat : Begun(n))'
  BY <1>1, <1>5 DEF HInv
<1>10. (repeating => \E n, k : Executing(n, k) /\ k > 0)'
  BY <1>1, <1>6 DEF HInv
<1> QED
  BY <1>7, <1>8, <1>9, <1>10 DEF HInv

\* What each kind of step has to show.
Implemented == HInv' /\ [Arch!Next]_(Arch!isaVars)

\* A step that completes an instruction is the step of the instruction set.
LEMMA CompleteStep ==
    ASSUME IndInv', ~Midway', start' = Machine', status = "running",
           NEW n \in 0 .. WordMod, Arch!HasPrefixes(n), Arch!WellFormed(n), Arch!Succeeds(n)
    PROVE  Implemented
<1>1. HInv'
  BY FreshAgain
<1>2. Arch!Next
  BY Zenon DEF Arch!Next
<1> QED
  BY <1>1, <1>2, Zenon DEF Implemented

\* A step within an instruction is not seen.
LEMMA WithinStep ==
    ASSUME HInv', start' = start, status' = status, sreg' = sreg
    PROVE  Implemented
  BY DEF Implemented, Arch!isaVars, Arch!memoryVars

\* A prefix only adds to the instruction.
LEMMA PrefixImplemented ==
    ASSUME HInv, IndInv', SegmentOverride \/ Repeat, HNext
    PROVE  Implemented
<1>1. /\ prefix' = TRUE /\ repeating' = repeating /\ status' = status /\ sreg' = sreg
      /\ Fetchable /\ ~RepRefused /\ Op \notin StringOps
  BY DEF SegmentOverride, Repeat, Fetched, memoryVars, StringOps
<1>2. ~repeating
  BY <1>1 DEF HInv, IndInv, RepeatProtocol, Op, Opcode
<1>3. Midway' /\ start' = start
  BY <1>1 DEF Midway, Continues, HNext
<1>4. PICK n \in Nat : Begun(n)
  BY <1>2 DEF HInv
<1>5. Begun(n + 1)'
  BY <1>2, <1>3, <1>4, PrefixContinues DEF HInv
<1>6. (start \in Machines)'
  BY <1>3 DEF HInv, Machines
<1>7. (~repeating => \E m \in Nat : Begun(m))'
  <2> DEFINE m == n + 1
  <2>1. m \in Nat /\ Begun(m)'
    BY <1>5
  <2> HIDE DEF m
  <2> QED
    BY <2>1
<1>8. HInv'
  BY <1>1, <1>2, <1>3, <1>6, <1>7 DEF HInv
<1> QED
  BY <1>1, <1>3, <1>8, WithinStep

\* A string instruction under REP with CX zero is over at once.
LEMMA SkipImplemented ==
    ASSUME HInv, IndInv', StringSkip, HNext
    PROVE  Implemented
<1>1. /\ Fetchable /\ Op \in StringOps /\ Skips /\ (Rep = 1 => Op \in ComparesOps)
      /\ status = "running" /\ status' = status /\ ip' = NextIP
      /\ prefix' = FALSE /\ repeating' = repeating
      /\ UNCHANGED <<ac, bx, cx, si, di, zf, df, ram, shadowRam, sreg>>
  BY DEF StringSkip, Fetched, EndString, DoRep, Skips, memoryVars
<1>2. IndInv /\ start \in Machines
  BY DEF HInv
<1>3. ~repeating
  BY <1>1, <1>2 DEF IndInv, RepeatProtocol, Skips
<1>4. ~Midway' /\ start' = Machine'
  BY <1>1, <1>3 DEF Midway, Continues, HNext
<1>5. PICK n, k : Executing(n, k)
  BY <1>1, StringAt
<1>6. k = 0 /\ ~Arch!Pending(n, 0)
  BY <1>1, <1>2, <1>5, SkipsOrPending
<1>7. /\ n \in 0 .. WordMod /\ Arch!HasPrefixes(n) /\ Arch!At(n).op \in StringOps
      /\ NextIP = ToWord(start.ip + n + 1) /\ Reached(n, 0, Machine)
  BY <1>5, <1>6 DEF Executing
<1>8. Arch!WellFormed(n)
  BY <1>1, <1>5, <1>7, StringWellFormed
<1>9. Reached(n, 0, start')
  <2>1. /\ start'.ac = Machine.ac /\ start'.bx = Machine.bx /\ start'.cx = Machine.cx
        /\ start'.si = Machine.si /\ start'.di = Machine.di /\ start'.zf = Machine.zf
        /\ start'.df = Machine.df
        /\ start'.ram = Machine.ram /\ start'.shadowRam = Machine.shadowRam
    BY <1>1, <1>4 DEF Machine
  <2> QED
    BY <1>7, <2>1, Zenon DEF Reached
<1>10. start'.ip = ToWord(start.ip + n + 1)
  BY <1>1, <1>4, <1>7 DEF Machine
<1>11. 0 \in 0 .. WordMod /\ ~(0 > 0)
  BY ShadowAssumption
<1>12. Arch!String(n)
  BY <1>1, <1>6, <1>7, <1>9, <1>10, <1>11, StringCompletes
<1>13. Arch!Succeeds(n)
  BY <1>12, Zenon DEF Arch!Succeeds
<1> QED
  BY <1>1, <1>4, <1>7, <1>8, <1>13, CompleteStep

\* An element completes the instruction, or the next call repeats it.
LEMMA ElementImplemented ==
    ASSUME HInv, IndInv', Movs \/ Cmps \/ Stos \/ Lods \/ Scas, HNext
    PROVE  Implemented
<1>1. /\ Fetchable /\ Op \in StringOps /\ (Rep = 1 => Op \in ComparesOps)
      /\ status = "running" /\ status' = status /\ sreg' = sreg
      /\ ip' = NextIP /\ opcode' = Opcode
      /\ prefix' = FALSE /\ rep' = Rep /\ segmentOverride' = Override
  <2>1. CASE Movs \/ Stos
    BY <2>1 DEF Movs, Stos, Fetched, EndString, DoRep, Store, StringOps
  <2>2. CASE Lods
    BY <2>2 DEF Lods, Fetched, EndString, DoRep, memoryVars, StringOps
  <2>3. CASE Cmps \/ Scas
    BY <2>3 DEF Cmps, Scas, Fetched, EndString, DoRep, memoryVars, StringOps, ComparesOps
  <2> QED
    BY <2>1, <2>2, <2>3
<1>2. IndInv /\ start \in Machines
  BY DEF HInv
<1>3. PICK n, k : Executing(n, k)
  BY <1>1, StringAt
<1>4. /\ n \in 0 .. WordMod /\ k \in Nat
      /\ Arch!HasPrefixes(n) /\ Arch!At(n).op \in StringOps
      /\ NextIP = ToWord(start.ip + n + 1)
  BY <1>3, ShadowAssumption DEF Executing
<1>5. Arch!WellFormed(n)
  BY <1>1, <1>3, <1>4, StringWellFormed
<1>6. /\ Arch!Pending(n, k) /\ k + 1 \in 0 .. WordMod
      /\ Reached(n, k + 1, Machine')
      /\ repeating' <=> Arch!Pending(n, k + 1)
  BY <1>2, <1>3, ElementStep
<1> DEFINE j == k + 1
<1>7. j - 1 = k /\ j > 0
  BY <1>4
<1>8. CASE repeating'
  <2>1. Midway' /\ start' = start
    BY <1>8 DEF Midway, Continues, HNext
  <2>2. Executing(n, j)'
    BY <1>1, <1>2, <1>3, <1>6, <1>8, <2>1, StringRepeats
  <2>3. (start \in Machines)'
    BY <2>1 DEF HInv, Machines
  <2>4. (repeating => \E m, i : Executing(m, i) /\ i > 0)'
    <3> HIDE DEF j
    <3> QED
      BY <1>7, <2>2
  <2>5. HInv'
    BY <1>8, <2>1, <2>3, <2>4 DEF HInv
  <2> QED
    BY <1>1, <2>1, <2>5, WithinStep
<1>9. CASE ~repeating'
  <2>1. ~Midway' /\ start' = Machine'
    BY <1>1, <1>9 DEF Midway, Continues, HNext
  <2>2. start'.ip = ToWord(start.ip + n + 1)
    BY <1>1, <1>4, <2>1 DEF Machine
  <2>3. /\ j \in 0 .. WordMod /\ Reached(n, j, start') /\ ~Arch!Pending(n, j)
        /\ j > 0 => Arch!Pending(n, j - 1)
    BY <1>6, <1>7, <1>9, <2>1, Zenon
  <2> HIDE DEF j
  <2>4. Arch!String(n)
    BY <1>1, <1>4, <2>2, <2>3, StringCompletes
  <2>5. Arch!Succeeds(n)
    BY <2>4, Zenon DEF Arch!Succeeds
  <2> QED
    BY <1>1, <1>4, <1>5, <2>1, <2>5, CompleteStep
<1> QED
  BY <1>8, <1>9

\* The other instructions are complete after one call.
LEMMA PlainImplemented ==
    ASSUME HInv, IndInv', Load \/ StoreAccum \/ Xlat \/ SetDirection \/ JumpShort, HNext
    PROVE  Implemented
<1> DEFINE ops == {"load", "store", "xlat", "cld", "std"} \cup JumpOps
<1>1. Fetched(ops) /\ prefix' = FALSE /\ repeating' = repeating /\ status = "running"
  BY DEF Load, StoreAccum, Xlat, SetDirection, JumpShort, Done, Fetched
<1>2. IndInv /\ start \in Machines
  BY DEF HInv
<1>3. /\ ops \cap StringOps = {}
      /\ ops \cap {"es", "cs", "ss", "ds", "repnz", "repz", "invalid"} = {}
  BY DEF JumpOps, StringOps
<1> HIDE DEF ops
<1>4. ~repeating
  <2>1. Op \in ops
    BY <1>1 DEF Fetched
  <2>2. Op \notin StringOps
    BY <1>3, <2>1
  <2> QED
    BY <1>2, <2>2 DEF IndInv, RepeatProtocol, Op, Opcode
<1>5. ~Midway' /\ start' = Machine'
  BY <1>1, <1>4 DEF Midway, Continues, HNext
<1>6. PICK n \in Nat : Begun(n)
  BY <1>4 DEF HInv
<1>7. Arch!HasPrefixes(n) /\ n \in 0 .. WordMod /\ Arch!WellFormed(n)
  BY <1>1, <1>2, <1>3, <1>4, <1>6, PlainHead
<1>8. CASE Load \/ StoreAccum
  <2>1. Arch!MovAccum(n)
    BY <1>2, <1>4, <1>5, <1>6, <1>8, MovAccumCompletes
  <2>2. Arch!Succeeds(n)
    BY <2>1, Zenon DEF Arch!Succeeds
  <2> QED
    BY <1>1, <1>5, <1>7, <2>2, CompleteStep
<1>9. CASE Xlat \/ SetDirection \/ JumpShort
  <2>1. Arch!Xlat(n) \/ Arch!Direction(n) \/ Arch!Jump(n)
    BY <1>2, <1>4, <1>5, <1>6, <1>9, OthersComplete
  <2>2. Arch!Succeeds(n)
    BY <2>1, Zenon DEF Arch!Succeeds
  <2> QED
    BY <1>1, <1>5, <1>7, <2>2, CompleteStep
<1> QED
  BY <1>8, <1>9

\* runtimeError() is a fault of the instruction set.
LEMMA ErrorImplemented ==
    ASSUME HInv, IndInv', RuntimeError, HNext
    PROVE  Implemented
<1>1. status = "running" /\ UNCHANGED <<regs, flags, control, memoryVars>>
  BY DEF RuntimeError
<1>2. Machine' = Machine /\ (Midway' <=> Midway)
  BY <1>1 DEF regs, flags, control, memoryVars, Machine, Midway, Continues
<1>3. start' = start
  BY <1>2 DEF HInv, HNext
<1>4. HInv'
  BY <1>1, <1>3, StillThere
<1>5. Arch!Next
  <2>1. PICK n \in 0 .. WordMod : Arch!HasPrefixes(n) /\ Arch!Faults(n)
    BY <1>3, ErrorFaults
  <2> QED
    BY <1>1, <2>1, Zenon DEF Arch!Next
<1> QED
  BY <1>4, <1>5, Zenon DEF Implemented

\* Nothing is seen of a step that changes nothing.
LEMMA IdleImplemented ==
    ASSUME HInv, IndInv', UNCHANGED vars, HNext \/ UNCHANGED start
    PROVE  Implemented
<1>1. UNCHANGED <<regs, flags, control, memoryVars>> /\ status' = status /\ sreg' = sreg
  BY DEF vars, memoryVars
<1>2. Machine' = Machine /\ (Midway' <=> Midway)
  BY <1>1 DEF regs, flags, control, memoryVars, Machine, Midway, Continues
<1>3. start' = start
  BY <1>2 DEF HInv, HNext
<1> QED
  BY <1>1, <1>3, StillThere, WithinStep

\* These are all the steps.
LEMMA StepImplemented ==
    ASSUME HInv, [HNext]_<<vars, start>>
    PROVE  Implemented
<1>1. IndInv'
  <2>1. IndInv /\ [Next]_vars
    BY DEF HInv, HNext
  <2> QED
    BY <2>1, InductiveStep
<1>2. CASE UNCHANGED <<vars, start>>
  BY <1>1, <1>2, IdleImplemented
<1>3. CASE HNext
  <2>1. CASE SegmentOverride \/ Repeat
    BY <1>1, <1>3, <2>1, PrefixImplemented
  <2>2. CASE StringSkip
    BY <1>1, <1>3, <2>2, SkipImplemented
  <2>3. CASE Movs \/ Cmps \/ Stos \/ Lods \/ Scas
    BY <1>1, <1>3, <2>3, ElementImplemented
  <2>4. CASE Load \/ StoreAccum \/ Xlat \/ SetDirection \/ JumpShort
    BY <1>1, <1>3, <2>4, PlainImplemented
  <2>5. CASE RuntimeError
    BY <1>1, <1>3, <2>5, ErrorImplemented
  <2>6. CASE Exited
    BY <1>1, <1>3, <2>6, IdleImplemented DEF Exited
  <2> QED
    BY <1>3, <2>1, <2>2, <2>3, <2>4, <2>5, <2>6 DEF HNext, Next
<1> QED
  BY <1>2, <1>3

-----------------------------------------------------------------------------
(* The theorem.                                                              *)

\* Whatever the program and whatever it overwrites, every instruction that calls of
\* executeInstruction() complete, with its prefixes and repetitions, is one step
\* of the instruction set from the registers and memory it began with, and
\* runtimeError() is called only where that instruction faults: nothing leaks from one
\* instruction into the next through the globals of the loop.
THEOREM LoopImplementsIsa == HSpec => ImplementsIsa
<1>1. HInit => HInv /\ Arch!Init
  <2> SUFFICES ASSUME HInit PROVE HInv /\ Arch!Init
    OBVIOUS
  <2>1. IndInv
    BY InitInductive DEF HInit
  <2>2. ~Midway /\ start = Machine
    BY DEF HInit, Init, Midway, Continues
  <2>3. Arch!Init
    BY DEF HInit, Init, Arch!Init
  <2> QED
    BY <2>1, <2>2, <2>3, Fresh
<1>2. HInv /\ [HNext]_<<vars, start>> => HInv' /\ [Arch!Next]_(Arch!isaVars)
  BY StepImplemented, Zenon DEF Implemented
<1> QED
  BY <1>1, <1>2, PTL DEF HSpec, ImplementsIsa, Arch!Spec
=============================================================================
