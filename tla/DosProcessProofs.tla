-------------------------- MODULE DosProcessProofs --------------------------
(***************************************************************************)
(* What the DOS loader protects stays protected, for every memory, every   *)
(* file, every name and every use of SS and SP.                            *)
(***************************************************************************)
EXTENDS DosProcess, TLAPS

-----------------------------------------------------------------------------
(* Arithmetic.                                                               *)

\* Any number assigned to a Word is one.
LEMMA WordType ==
    ASSUME NEW n \in Int
    PROVE  ToWord(n) \in Word
  BY ShadowAssumption, SMT DEF ToWord, Word

\* Differences of segments are differences of addresses.
LEMMA Distributes ==
    ASSUME NEW a \in Int, NEW b \in Int, NEW c \in Int
    PROVE  (a - b) * c + b * c = a * c
  BY SMT

\* A length rounded up to a paragraph is not shorter.
LEMMA ParaRounding ==
    ASSUME NEW n \in Nat
    PROVE  /\ ((n + Para - 1) \div Para) \in Nat
           /\ ((n + Para - 1) \div Para) * Para >= n
<1> DEFINE q == (n + Para - 1) \div Para
<1>1. Para \in Nat \ {0}
  BY ShadowAssumption
<1>2. n + Para - 1 \in Nat /\ Para > 0
  BY <1>1
<1>3. q \in Nat /\ n + Para - 1 < (q + 1) * Para
  BY <1>1, <1>2, SMT
<1>4. (q + 1) * Para = q * Para + Para
  BY <1>1, <1>3, SMT
<1> QED
  BY <1>1, <1>3, <1>4, SMT

\* The byte after one with an even offset does not wrap.
LEMMA EvenOffset ==
    ASSUME NEW n \in Int, ToWord(n) % 2 = 0
    PROVE  ToWord(ToWord(n) + 1) = ToWord(n) + 1
<1> DEFINE w == ToWord(n)
<1>1. w \in 0 .. WordMod - 1 /\ w % 2 = 0 /\ WordMod % 2 = 0 /\ WordMod \in Nat \ {0}
  BY WordType, DosAssumption, ShadowAssumption DEF Word
<1> HIDE DEF w
<1>2. w + 1 \in 0 .. WordMod - 1
  <2>1. w # WordMod - 1
    BY <1>1
  <2> QED
    BY <1>1, <2>1
<1>3. (w + 1) % WordMod = w + 1
  BY <1>1, <1>2, SMT
<1> QED
  BY <1>3 DEF w, ToWord

-----------------------------------------------------------------------------
(* The loader.                                                               *)

LEMMA BaseType ==
    /\ EnvBase \in Nat /\ PspBase \in Nat /\ LoadBase \in Nat
    /\ EnvBase + EnvParas * Para = PspBase
    /\ PspBase + PspParas * Para = LoadBase
    /\ LoadSegment \in Word /\ LoadSegment - PspParas \in Word
<1> DEFINE L == LoadSegment
           P == LoadSegment - PspParas
           E == P - EnvParas
<1>1. L \in Nat /\ P \in Nat /\ E \in Nat /\ Para \in Nat
  BY DosAssumption, ShadowAssumption DEF Word
<1>2. L \in Word /\ P \in Word
  BY DosAssumption, ShadowAssumption DEF Word
<1>3. L * Para \in Nat /\ P * Para \in Nat /\ E * Para \in Nat
  BY <1>1, SMT
<1>4. P * Para + PspParas * Para = L * Para
  BY Distributes, DosAssumption, <1>1 DEF Word
<1>5. E * Para + EnvParas * Para = P * Para
  BY Distributes, DosAssumption, <1>1
<1> QED
  BY <1>2, <1>3, <1>4, <1>5 DEF EnvBase, PspBase, LoadBase

\* The numbers of a header that is not corrupt.
LEMMA HeaderType ==
    ASSUME NEW x \in Exes, ~Corrupt(x)
    PROVE  /\ x.sp \in Word /\ ImageSegment(x) \in Word /\ StackSegment(x) \in Word
           /\ ToWord(x.cs + ImageSegment(x)) \in Word
           /\ ImageLength(x) \in Nat
<1>1. /\ x.sp \in Word /\ x.ss \in Word /\ x.cs \in Word /\ x.cparhdr \in Word
      /\ x.cp \in Word /\ x.cblp \in Word
  BY DosAssumption DEF ExeHeaders
<1>2. ImageSegment(x) \in Word
  <2>1. LoadSegment + x.cparhdr \in Int
    BY <1>1, DosAssumption DEF Word
  <2> QED
    BY <2>1, WordType DEF ImageSegment
<1>3. StackSegment(x) \in Word
  <2>1. ImageSegment(x) + x.ss \in Int
    BY <1>1, <1>2 DEF Word
  <2> QED
    BY <2>1, WordType DEF StackSegment
<1>4. ToWord(x.cs + ImageSegment(x)) \in Word
  <2>1. x.cs + ImageSegment(x) \in Int
    BY <1>1, <1>2 DEF Word
  <2> QED
    BY <2>1, WordType
<1>5. HeaderLength(x) \in Int
  <2>1. x.cparhdr * Para \in Int
    BY <1>1, ShadowAssumption, SMT DEF Word
  <2> QED
    BY <2>1, WordType DEF HeaderLength, Word
<1>6. ExeLength(x) \in Int
  <2> DEFINE n == x.cp - (IF x.cblp = 0 THEN 0 ELSE 1)
  <2>1. n \in Int /\ Block \in Int /\ x.cblp \in Int
    BY <1>1, DosAssumption DEF Word
  <2>2. n * Block \in Int
    <3> HIDE DEF n
    <3> QED
      BY <2>1, SMT
  <2> QED
    BY <2>1, <2>2 DEF ExeLength
<1>7. HeaderLength(x) <= ExeLength(x)
  BY <1>5, <1>6 DEF Corrupt
<1> QED
  BY <1>1, <1>2, <1>3, <1>4, <1>5, <1>6, <1>7 DEF ImageLength

\* The limit of an .exe is 0 or above its image.
LEMMA StackLowType ==
    ASSUME NEW x \in Exes, ~Corrupt(x)
    PROVE  /\ StackLow(x) \in Nat
           /\ StackLow(x) # 0 => ImageSegment(x) * Para + ImageLength(x) <= StackLow(x)
<1> DEFINE q == (ImageLength(x) + Para - 1) \div Para
           image == (q + ImageSegment(x)) * Para
           least == (StackSegment(x) + 1) * Para
<1>1. /\ ImageLength(x) \in Nat /\ ImageSegment(x) \in Nat /\ StackSegment(x) \in Nat
      /\ Para \in Nat
  BY HeaderType, ShadowAssumption DEF Word
<1>2. q \in Nat /\ q * Para >= ImageLength(x)
  BY <1>1, ParaRounding
<1> HIDE DEF q
<1>3. /\ image = q * Para + ImageSegment(x) * Para
      /\ q * Para \in Nat /\ ImageSegment(x) * Para \in Nat
  BY <1>1, <1>2, SMT
<1>4. image \in Nat /\ least \in Nat
  <2>1. StackSegment(x) + 1 \in Nat
    BY <1>1
  <2>2. least \in Nat
    BY <1>1, <2>1, SMT
  <2>3. image \in Nat
    <3> HIDE DEF image
    <3> QED
      BY <1>3
  <2> QED
    BY <2>2, <2>3
<1>5. ImageSegment(x) * Para + ImageLength(x) <= image
  <2> DEFINE qp == q * Para
             ip == ImageSegment(x) * Para
  <2>1. image = qp + ip /\ qp \in Nat /\ ip \in Nat /\ qp >= ImageLength(x)
    BY <1>2, <1>3
  <2> HIDE DEF qp, ip, image
  <2>2. ip + ImageLength(x) <= image
    BY <1>1, <2>1
  <2> QED
    BY <2>2 DEF ip
<1>6. \/ StackLow(x) = 0
      \/ StackLow(x) = image /\ least <= image
      \/ StackLow(x) = least /\ image < least
  <2>1. StackLow(x) = LET low == IF image < least THEN least ELSE image
                      IN  IF low > StackSegment(x) * Para + x.sp THEN 0 ELSE low
    BY DEF StackLow, q
  <2> HIDE DEF image, least
  <2> QED
    BY <1>4, <2>1
<1>7. ImageSegment(x) * Para + ImageLength(x) \in Nat
  BY <1>1, <1>3
<1> HIDE DEF image, least
<1> QED
  BY <1>4, <1>5, <1>6, <1>7

\* Permissions are sets of flags, and only the program's bytes can be written.
LEMMA PermissionsType ==
    ASSUME NEW imageBase, NEW imageLength, NEW stackBase, NEW stackLength
    PROVE  LET shadow == Permissions(imageBase, imageLength, stackBase, stackLength)
           IN  /\ shadow \in [Ram -> SUBSET Flag]
               /\ \A a \in Ram : "fWrite" \in shadow[a] =>
                    /\ \/ a \in imageBase .. imageBase + imageLength - 1
                       \/ a \in stackBase .. stackBase + stackLength - 1
                    /\ a \notin Bios
<1>1. /\ BeforeLoad \in [Ram -> SUBSET Flag]
      /\ \A a \in Ram : "fWrite" \notin BeforeLoad[a]
  BY DEF BeforeLoad, Permit, Flag
<1> QED
  BY <1>1 DEF Permissions, Permit, Flag

LEMMA ProgramType ==
    ASSUME NEW p \in Programs
    PROVE  /\ p.kind \in {"exe", "com"}
           /\ p.kind = "exe" => p.file \in Exes
           /\ p.kind = "com" => p.file \in Nat
           /\ p.name \in Nat /\ p.tail \in Nat
  BY DosAssumption DEF Programs, Exe, Com

-----------------------------------------------------------------------------
(* Invariants.                                                               *)

\* The limit that is in force is above the image.
LimitAboveImage ==
    phase = "running" /\ t_stackLow # 0 => \A a \in Image(program) : a < t_stackLow

IInv == TypeOK /\ LimitAboveImage /\ WritableIsOwn /\ FileSparedButByBios /\ PushSparesImage

LEMMA InitIInv == Init => IInv
<1> SUFFICES ASSUME Init PROVE IInv
  OBVIOUS
<1>1. 0 \in Word
  BY ShadowAssumption DEF Word
<1>2. ShadowTypeOK
  BY <1>1 DEF Init, ShadowTypeOK
<1> QED
  BY <1>1, <1>2
  DEF Init, IInv, TypeOK, LimitAboveImage, WritableIsOwn, FileSparedButByBios, PushSparesImage

\* The tables end where the file begins.
LEMMA TablesBelow ==
    ASSUME NEW p \in Programs, ~Refused(p)
    PROVE  \A a \in Tables(p.name, p.tail) : a < LoadBase
<1>1. p.name \in Nat /\ p.tail \in Nat
  BY ProgramType
<1>2. NameFits(p.name) /\ TailFits(p.tail)
  BY DEF Refused
<1> DEFINE env == EnvParas * Para
           psp == PspParas * Para
<1>3. env \in Nat /\ psp \in Nat
  BY DosAssumption, ShadowAssumption, SMT
<1>4. /\ EnvBase + env = PspBase /\ PspBase + psp = LoadBase
      /\ EnvBase \in Nat /\ PspBase \in Nat
  BY BaseType
<1>5. /\ TailAt \in Nat \ {0} /\ TailAt < psp
      /\ \A i \in PspFields : i \in 0 .. psp - 1
  BY DosAssumption
<1>6. p.name + 3 < env
  BY <1>2 DEF NameFits
<1>7. TailAt + p.tail <= psp - 1
  BY <1>1, <1>2, <1>3, <1>5 DEF TailFits
<1> HIDE DEF env, psp
<1>8. \A a \in EnvBase .. EnvBase + p.name + 4 : a < LoadBase
  BY <1>1, <1>3, <1>4, <1>5, <1>6
<1>9. \A i \in PspFields \cup (TailAt - 1) .. (TailAt + p.tail) : PspBase + i < LoadBase
  BY <1>1, <1>3, <1>4, <1>5, <1>7
<1> QED
  BY <1>8, <1>9 DEF Tables

\* What can be relocated is in the environment or the PSP.
LEMMA RelocationsBelow ==
    ASSUME NEW x \in Exes, NEW r \in x.relocs, Relocatable(x, r), NEW i \in {0, 1}
    PROVE  RelocatedByte(x, r, i) < LoadBase
<1> DEFINE a == RelocatedByte(x, r, i)
           env == EnvParas * Para
           psp == PspParas * Para
<1>1. a \in Nat
  <2>1. r \in Word \X Word /\ x.cparhdr \in Word
    BY DosAssumption DEF ExeHeaders
  <2>2. r[1] \in Int /\ r[2] + i \in Int
    BY <2>1, ShadowAssumption DEF Word
  <2>3. ImageSegment(x) + r[1] \in Int
    <3>1. LoadSegment + x.cparhdr \in Int
      BY <2>1, DosAssumption, ShadowAssumption DEF Word
    <3>2. ImageSegment(x) \in Int
      BY <3>1, WordType, ShadowAssumption DEF ImageSegment, Word
    <3> QED
      BY <2>2, <3>2
  <2>4. ToWord(ImageSegment(x) + r[1]) \in Word /\ ToWord(r[2] + i) \in Word
    BY <2>2, <2>3, WordType
  <2>5. \A m, n \in Word : m * Para + n \in Nat
    BY ShadowAssumption, SMT DEF Word
  <2> QED
    BY <2>4, <2>5, Zenon DEF RelocatedByte
<1>2. a < RamSize /\ "fRead" \in BeforeLoad[a]
  BY Zenon DEF Relocatable
<1>3. /\ EnvBase + env = PspBase /\ PspBase + psp = LoadBase
      /\ EnvBase \in Nat /\ PspBase \in Nat
  BY BaseType
<1>4. env \in Nat /\ psp \in Nat
  BY DosAssumption, ShadowAssumption, SMT
<1>5. a \in Ram
  <2> HIDE DEF a
  <2> QED
    BY <1>1, <1>2, ShadowAssumption DEF Ram
<1> HIDE DEF a, env, psp
<1>6. a \in EnvBase .. EnvBase + env - 1 \/ a \in PspBase .. PspBase + psp - 1
  BY <1>2, <1>5, Zenon DEF BeforeLoad, Permit, env, psp
<1>7. a < LoadBase
  BY <1>1, <1>3, <1>4, <1>6
<1> QED
  BY <1>7 DEF a

\* All that the loader writes but the tables of the BIOS is below the file.
LEMMA WritesBelow ==
    ASSUME NEW p \in Programs, ~Refused(p),
           p.kind = "exe" => \A r \in p.file.relocs : Relocatable(p.file, r)
    PROVE  \A a \in LoaderWrites(p) : a < LoadBase \/ a \in BiosFields
<1>1. \A a \in Tables(p.name, p.tail) : a < LoadBase
  BY TablesBelow
<1>2. ASSUME p.kind = "exe", NEW r \in p.file.relocs, NEW i \in {0, 1}
      PROVE  RelocatedByte(p.file, r, i) < LoadBase
  BY <1>2, ProgramType, RelocationsBelow
<1> QED
  BY <1>1, <1>2 DEF LoaderWrites

LEMMA LoadExeIInv ==
    ASSUME NEW p \in Programs, LoadExe(p)
    PROVE  IInv'
<1>1. p.kind = "exe" /\ p.file \in Exes /\ ~Refused(p) /\ ~Corrupt(p.file)
  BY ProgramType DEF LoadExe, Refused
<1>2. phase' = "running" /\ program' = p /\ wrote' = {} /\ sp' \in Word
  BY <1>1, HeaderType DEF LoadExe
<1>3. sreg' \in [Segs -> Word]
  <2>1. LoadSegment - PspParas \in Word
    BY BaseType
  <2> QED
    BY <1>1, <2>1, HeaderType DEF LoadExe, Segs
<1>4. /\ shadowRam' \in [Ram -> SUBSET Flag]
      /\ \A a \in Ram : "fWrite" \in shadowRam'[a] =>
           a \in (Image(p) \cup FirstStack(p)) \ Bios
  <2> DEFINE is == ImageSegment(p.file) * Para
             ss == StackSegment(p.file) * Para
  <2>1. shadowRam' = Permissions(is, ImageLength(p.file), ss, p.file.sp)
    BY DEF LoadExe
  <2>2. /\ Image(p) = is .. is + ImageLength(p.file) - 1
        /\ FirstStack(p) = ss .. ss + p.file.sp - 1
    BY <1>1 DEF Image, FirstStack
  <2> HIDE DEF is, ss
  <2> QED
    BY <2>1, <2>2, PermissionsType
<1>5. /\ t_stackLow' \in Nat
      /\ t_stackLow' # 0 => \A a \in Image(p) : a < t_stackLow'
  <2> DEFINE is == ImageSegment(p.file) * Para
             low == StackLow(p.file)
             len == ImageLength(p.file)
  <2>1. t_stackLow' = low /\ Image(p) = is .. is + len - 1
    BY <1>1 DEF LoadExe, Image
  <2>2. low \in Nat /\ (low # 0 => is + len <= low)
    BY <1>1, StackLowType
  <2>3. is \in Nat /\ len \in Nat
    <3>1. ImageSegment(p.file) \in Nat /\ Para \in Nat
      BY <1>1, HeaderType, ShadowAssumption DEF Word
    <3> QED
      BY <1>1, <3>1, HeaderType, SMT
  <2> HIDE DEF is, low, len
  <2> QED
    BY <2>1, <2>2, <2>3
<1>6. TypeOK'
  BY <1>2, <1>3, <1>4, <1>5 DEF TypeOK, ShadowTypeOK
<1>7. LimitAboveImage'
  BY <1>2, <1>5 DEF LimitAboveImage, Image, ImageSegment, ImageLength, ExeLength,
     HeaderLength, LoadBase, ToWord
<1>8. WritableIsOwn'
  BY <1>2, <1>4 DEF WritableIsOwn, Image, FirstStack, ImageSegment, ImageLength,
     ExeLength, HeaderLength, StackSegment, LoadBase, ToWord
<1>9. FileSparedButByBios'
  <2>1. \A a \in LoaderWrites(p) : a < LoadBase \/ a \in BiosFields
    BY <1>1, WritesBelow DEF LoadExe
  <2>2. \A a \in FileBytes(p) : ~(a < LoadBase)
    BY BaseType DEF FileBytes
  <2>3. BiosFields \subseteq LoaderWrites(p)
    BY DEF LoaderWrites
  <2>4. LoaderWrites(p) \cap FileBytes(p) = BiosFields \cap FileBytes(p)
    BY <2>1, <2>2, <2>3
  <2> QED
    BY <1>2, <2>4, Zenon DEF FileSparedButByBios
<1>10. PushSparesImage'
  BY <1>2 DEF PushSparesImage
<1> QED
  BY <1>6, <1>7, <1>8, <1>9, <1>10 DEF IInv

LEMMA LoadComIInv ==
    ASSUME NEW p \in Programs, LoadCom(p)
    PROVE  IInv'
<1>1. p.kind = "com" /\ p.kind # "exe" /\ p.file \in Nat /\ ~Refused(p)
  BY ProgramType DEF LoadCom
<1>2. phase' = "running" /\ program' = p /\ wrote' = {} /\ sp' \in Word
  BY DosAssumption DEF LoadCom
<1>3. sreg' \in [Segs -> Word]
  BY BaseType DEF LoadCom
<1>4. /\ Image(p) = LoadBase .. LoadBase + p.file - 1
      /\ FirstStack(p) = LoadBase .. LoadBase + ComSP - 1
  BY <1>1 DEF Image, FirstStack
<1>5. /\ shadowRam' \in [Ram -> SUBSET Flag]
      /\ \A a \in Ram : "fWrite" \in shadowRam'[a] =>
           a \in (Image(p) \cup FirstStack(p)) \ Bios
  <2>1. shadowRam' = Permissions(LoadBase, p.file, LoadBase, ComSP)
    BY DEF LoadCom
  <2> QED
    BY <1>4, <2>1, PermissionsType
<1>6. t_stackLow' \in Nat /\ \A a \in Image(p) : a < t_stackLow'
  BY <1>1, <1>4, BaseType DEF LoadCom
<1>7. TypeOK'
  BY <1>2, <1>3, <1>5, <1>6 DEF TypeOK, ShadowTypeOK
<1>8. LimitAboveImage'
  BY <1>2, <1>6 DEF LimitAboveImage, Image, ImageSegment, ImageLength, ExeLength,
     HeaderLength, LoadBase, ToWord
<1>9. WritableIsOwn'
  BY <1>2, <1>5 DEF WritableIsOwn, Image, FirstStack, ImageSegment, ImageLength,
     ExeLength, HeaderLength, StackSegment, LoadBase, ToWord
<1>10. FileSparedButByBios'
  <2>1. \A a \in LoaderWrites(p) : a < LoadBase \/ a \in BiosFields
    BY <1>1, WritesBelow
  <2>2. \A a \in FileBytes(p) : ~(a < LoadBase)
    BY BaseType DEF FileBytes
  <2>3. BiosFields \subseteq LoaderWrites(p)
    BY DEF LoaderWrites
  <2>4. LoaderWrites(p) \cap FileBytes(p) = BiosFields \cap FileBytes(p)
    BY <2>1, <2>2, <2>3
  <2> QED
    BY <1>2, <2>4, Zenon DEF FileSparedButByBios
<1>11. PushSparesImage'
  BY <1>2 DEF PushSparesImage
<1> QED
  BY <1>7, <1>8, <1>9, <1>10, <1>11 DEF IInv

-----------------------------------------------------------------------------
(* The program.                                                              *)

\* A step that loads nothing and pushes nothing keeps the invariant.
Keeps ==
    /\ phase' \in {"refused", "unrelocated", "exited", phase}
    /\ program' \in Programs \cup {NoProgram}
    /\ phase' = "running" => program' = program
    /\ sp' \in Word /\ t_stackLow' = t_stackLow
    /\ wrote' \in {{}, wrote} /\ (phase' = "running" => wrote' = {})
    /\ shadowRam' \in [Ram -> SUBSET Flag] /\ sreg' \in [Segs -> Word]
    /\ \A a \in Ram : "fWrite" \in shadowRam'[a] => "fWrite" \in shadowRam[a]

LEMMA KeepsIInv ==
    ASSUME IInv, Keeps
    PROVE  IInv'
<1>1. TypeOK'
  BY DEF IInv, TypeOK, ShadowTypeOK, Keeps
<1>2. phase' = "running" => phase = "running" /\ program' = program
  BY DEF Keeps
<1>3. LimitAboveImage'
  BY <1>2 DEF IInv, LimitAboveImage, Keeps
<1>4. WritableIsOwn'
  BY <1>2 DEF IInv, WritableIsOwn, Keeps
<1>5. FileSparedButByBios'
  BY <1>2 DEF IInv, FileSparedButByBios
<1>6. PushSparesImage'
  BY DEF Keeps, PushSparesImage
<1> QED
  BY <1>1, <1>3, <1>4, <1>5, <1>6 DEF IInv

\* A push that is not refused.
LEMMA PushIInv ==
    ASSUME IInv, Push, phase' = "running"
    PROVE  IInv'
<1> DEFINE newsp == ToWord(sp - 2)
<1>1. TypeOK /\ phase = "running" /\ sp \in Nat
  BY DEF IInv, TypeOK, Push, Word
<1>2. /\ ~StackOverflow(newsp) /\ CanWrite("SS", newsp, 2)
      /\ sp' = newsp /\ wrote' = Span("SS", newsp, 2)
      /\ shadowRam' = Granted("SS", newsp, 2)
      /\ program' = program /\ t_stackLow' = t_stackLow /\ sreg' = sreg
  BY DEF Push, Exit
<1>3. newsp \in Word
  BY <1>1, WordType
<1> HIDE DEF newsp
<1>4. Address("SS", newsp) \in Nat /\ Address("SS", newsp + 1) \in Nat
  <2>1. sreg["SS"] \in Nat /\ Para \in Nat
    BY <1>1, ShadowAssumption DEF TypeOK, ShadowTypeOK, Segs, Word
  <2>2. sreg["SS"] * Para \in Nat
    BY <2>1, SMT
  <2>3. ToWord(newsp) \in Nat /\ ToWord(newsp + 1) \in Nat
    BY <1>3, WordType DEF Word
  <2> QED
    BY <2>2, <2>3 DEF Address
<1>5. wrote' = {Address("SS", newsp), Address("SS", newsp + 1)}
  <2>1. \A i : i \in 0 .. 2 - 1 <=> i = 0 \/ i = 1
    OBVIOUS
  <2>2. newsp + 0 = newsp
    BY <1>3 DEF Word
  <2> QED
    BY <1>2, <2>1, <2>2 DEF Span
<1>6. \A a \in wrote' : a \in Ram /\ "fWrite" \in shadowRam[a]
  <2>1. 0 \in 0 .. 2 - 1 /\ 1 \in 0 .. 2 - 1 /\ newsp + 0 = newsp
    BY <1>3 DEF Word
  <2>2. /\ Address("SS", newsp) < RamSize /\ Address("SS", newsp + 1) < RamSize
        /\ "fWrite" \in shadowRam[Address("SS", newsp)]
        /\ "fWrite" \in shadowRam[Address("SS", newsp + 1)]
    BY <1>2, <2>1 DEF CanWrite, Allowed
  <2> QED
    BY <1>4, <1>5, <2>2, ShadowAssumption DEF Ram
<1>7. /\ shadowRam' \in [Ram -> SUBSET Flag]
      /\ \A a \in Ram : "fWrite" \in shadowRam'[a] => "fWrite" \in shadowRam[a]
  BY <1>1, <1>2 DEF Granted, TypeOK, ShadowTypeOK, Flag
<1>8. TypeOK'
  BY <1>1, <1>2, <1>3, <1>6, <1>7 DEF TypeOK, ShadowTypeOK
<1>9. LimitAboveImage' /\ FileSparedButByBios'
  BY <1>1, <1>2 DEF IInv, LimitAboveImage, FileSparedButByBios
<1>10. WritableIsOwn'
  BY <1>1, <1>2, <1>7 DEF IInv, WritableIsOwn
<1>11. PushSparesImage'
  <2>1. SUFFICES ASSUME t_stackLow # 0, newsp % 2 = 0
                 PROVE  wrote' \cap Image(program) = {}
    BY <1>2 DEF PushSparesImage
  <2>2. t_stackLow < Address("SS", newsp)
    BY <1>1, <1>2, <1>4, <2>1 DEF StackOverflow, TypeOK
  <2>3. Address("SS", newsp + 1) = Address("SS", newsp) + 1
    <3>1. ToWord(newsp) = newsp
      BY <1>3, ShadowAssumption, SMT DEF ToWord, Word
    <3>2. newsp \in Int
      BY <1>3 DEF Word
    <3>3. ToWord(newsp + 1) = newsp + 1
      BY <2>1, <3>1, <3>2, EvenOffset
    <3>4. sreg["SS"] * Para \in Int
      BY <1>1, ShadowAssumption, SMT DEF TypeOK, ShadowTypeOK, Segs, Word
    <3> QED
      BY <3>1, <3>2, <3>3, <3>4 DEF Address
  <2>4. \A a \in wrote' : t_stackLow < a
    BY <1>1, <1>4, <1>5, <2>2, <2>3 DEF TypeOK
  <2>5. \A a \in Image(program) : a < t_stackLow
    BY <1>1, <2>1 DEF IInv, LimitAboveImage
  <2> QED
    BY <1>1, <1>6, <2>4, <2>5 DEF Ram, TypeOK
<1> QED
  BY <1>8, <1>9, <1>10, <1>11 DEF IInv

LEMMA NextIInv ==
    ASSUME IInv, [Next]_vars
    PROVE  IInv'
<1>1. TypeOK /\ sp \in Word /\ sreg \in [Segs -> Word] /\ shadowRam \in [Ram -> SUBSET Flag]
  BY DEF IInv, TypeOK, ShadowTypeOK
<1>2. ASSUME NEW p \in Programs, LoadError(p) \/ RelocationError(p)
      PROVE  IInv'
  BY <1>1, <1>2, KeepsIInv DEF LoadError, RelocationError, Keeps, TypeOK
<1>3. CASE Push
  <2>1. CASE phase' = "running"
    BY <1>3, <2>1, PushIInv
  <2>2. CASE phase' # "running"
    <3>1. Exit
      BY <1>3, <2>2 DEF Push
    <3> QED
      BY <1>1, <3>1, KeepsIInv DEF Exit, Keeps, TypeOK
  <2> QED
    BY <2>1, <2>2
<1>4. CASE Pop
  <2>1. ToWord(sp + 2) \in Word
    BY <1>1, WordType DEF Word
  <2> QED
    BY <1>1, <1>4, <2>1, KeepsIInv DEF Pop, Exit, Keeps, TypeOK
<1>5. ASSUME NEW segment \in StackSegments, NEW value \in StackPointers,
             SetStack(segment, value)
      PROVE  IInv'
  <2>1. segment \in Word /\ value \in Word
    BY DosAssumption
  <2> QED
    BY <1>1, <1>5, <2>1, KeepsIInv DEF SetStack, Keeps, TypeOK
<1>6. CASE SysExit
  BY <1>1, <1>6, KeepsIInv DEF SysExit, Exit, Keeps, TypeOK
<1>7. ASSUME NEW segment \in StackSegments \cup {LoadSegment - PspParas}, SetExtra(segment)
      PROVE  IInv'
  <2>1. segment \in Word
    BY DosAssumption, BaseType
  <2> QED
    BY <1>1, <1>7, <2>1, KeepsIInv DEF SetExtra, Keeps, TypeOK
<1>8. ASSUME NEW bx \in Sizes, NEW ip \in CodeOffsets, Resize(bx, ip)
      PROVE  IInv'
  <2>1. CASE Exit
    BY <1>1, <2>1, KeepsIInv DEF Exit, Keeps, TypeOK
  <2>2. CASE ~Exit
    <3>1. /\ shadowRam' = Granted("SS", sp - 1, 1)
          /\ wrote' = {} /\ UNCHANGED <<phase, program, sp, t_stackLow, sreg>>
      BY <1>8, <2>2 DEF Resize
    <3>2. /\ shadowRam' \in [Ram -> SUBSET Flag]
          /\ \A a \in Ram : "fWrite" \in shadowRam'[a] => "fWrite" \in shadowRam[a]
      BY <1>1, <3>1 DEF Granted, Flag
    <3> QED
      BY <1>1, <3>1, <3>2, KeepsIInv DEF Keeps, TypeOK
  <2> QED
    BY <2>1, <2>2
<1>9. CASE UNCHANGED vars
  BY <1>9 DEF vars, IInv, TypeOK, ShadowTypeOK, LimitAboveImage, WritableIsOwn,
     FileSparedButByBios, PushSparesImage
<1> QED
  BY <1>2, <1>3, <1>4, <1>5, <1>6, <1>7, <1>8, <1>9, LoadExeIInv, LoadComIInv DEF Next, Done

LEMMA Invariance == Spec => []IInv
<1>1. IInv /\ [Next]_vars => IInv'
  BY NextIInv
<1> QED
  BY InitIInv, <1>1, PTL DEF Spec

-----------------------------------------------------------------------------
(* Theorems.                                                                 *)

\* Registers, limit and permissions stay in their types for every file.
THEOREM TypeCorrect == Spec => []TypeOK
<1>1. IInv => TypeOK
  BY DEF IInv
<1> QED
  BY Invariance, <1>1, PTL

\* push() under checkStackDOS() spares the image, whatever SS and SP have become.
THEOREM PushesSpareImage == Spec => []PushSparesImage
<1>1. IInv => PushSparesImage
  BY DEF IInv
<1> QED
  BY Invariance, <1>1, PTL

\* Nothing but the program's own image and stack ever becomes writable.
THEOREM OnlyOwnIsWritable == Spec => []WritableIsOwn
<1>1. IInv => WritableIsOwn
  BY DEF IInv
<1> QED
  BY Invariance, <1>1, PTL

\* The environment, the PSP and the relocated words never reach the file, however
\* long the name and the arguments are; the tables of the BIOS do, in a file that
\* is long enough, and nothing else.
THEOREM FileIsSparedButByBios == Spec => []FileSparedButByBios
<1>1. IInv => FileSparedButByBios
  BY DEF IInv
<1> QED
  BY Invariance, <1>1, PTL
=============================================================================
