------------------------------ MODULE Memory86 ------------------------------
(***************************************************************************)
(* The contents of the RAM of the emulated 8086 (8086.c, ram), under the   *)
(* permissions of Shadow86.  The code has ByteMod = 2^8.                   *)
(***************************************************************************)
EXTENDS Shadow86, Sequences

CONSTANT ByteMod    \* number of values of a Byte

ASSUME MemoryAssumption == ByteMod \in Nat \ {0}

VARIABLE ram        \* contents of each byte

Byte == 0 .. ByteMod - 1

memoryVars == <<ram, shadowRam, sreg>>

MemoryTypeOK == ram \in [Ram -> Byte] /\ ShadowTypeOK

\* The value of a byte or of a word, low byte first.
Contents(seg, off, width) ==
    IF width = 1
      THEN <<ram[Address(seg, off)]>>
      ELSE <<ram[Address(seg, off)], ram[Address(seg, off + 1)]>>

\* A checked write of the running program.
Store(seg, off, cells) ==
    /\ ram' = [a \in Ram |->
                 IF a = Address(seg, off) THEN cells[1]
                 ELSE IF Len(cells) = 2 /\ a = Address(seg, off + 1) THEN cells[2]
                 ELSE ram[a]]
    /\ shadowRam' = Granted(seg, off, Len(cells))
    /\ UNCHANGED sreg
=============================================================================
