------------------------------ MODULE Shadow86 ------------------------------
(***************************************************************************)
(* Addresses of the emulated 8086 and the shadow of its RAM: one set of    *)
(* permission flags for each byte (8086.c, shadowRam).  Every access of    *)
(* the CPU, of the loaders and of the system calls that goes through       *)
(* physicalAddress() is checked against the flags.                         *)
(*                                                                         *)
(* The widths are parameters: the code has WordMod = 2^16, Para = 16 and   *)
(* RamSize = 2^20.                                                         *)
(***************************************************************************)
EXTENDS Integers

CONSTANTS
    WordMod,    \* number of values of a Word: offsets wrap at it
    Para,       \* bytes in a paragraph: how far apart two segments may start
    RamSize     \* RAMSIZE, the number of bytes of RAM

ASSUME ShadowAssumption ==
    /\ WordMod \in Nat \ {0, 1}
    /\ Para \in Nat \ {0}
    /\ RamSize \in Nat \ {0}

VARIABLES
    shadowRam,  \* permission flags of each byte
    sreg        \* the segment registers, registers[8..11]

Word == 0 .. WordMod - 1
Ram  == 0 .. RamSize - 1
Flag == {"fRead", "fWrite"}
Segs == {"ES", "CS", "SS", "DS"}

ShadowTypeOK ==
    /\ shadowRam \in [Ram -> SUBSET Flag]
    /\ sreg \in [Segs -> Word]

\* Assigning a number to a Word keeps it modulo 2^16.
ToWord(n) == n % WordMod

\* The sum physicalAddress() forms; it is not reduced to 20 bits.
Address(seg, off) == sreg[seg] * Para + ToWord(off)

\* physicalAddress() does not call runtimeError(): every byte of the access
\* is in RAM and has the flag.  The offset of the second byte of a word wraps.
Allowed(flag, seg, off, width) ==
    \A i \in 0 .. width - 1 :
        /\ Address(seg, off + i) < RamSize
        /\ flag \in shadowRam[Address(seg, off + i)]

CanRead(seg, off, width)  == Allowed("fRead", seg, off, width)

\* Mutant: a write is checked like a read.
CanWrite_AsRead(seg, off, width) == Allowed("fRead", seg, off, width)

CanWrite(seg, off, width) == Allowed("fWrite", seg, off, width)

\* The addresses of the bytes of an access.
Span(seg, off, width) == {Address(seg, off + i) : i \in 0 .. width - 1}

\* A write of the running program makes the bytes readable.
Granted(seg, off, width) ==
    [a \in Ram |-> IF a \in Span(seg, off, width) THEN shadowRam[a] \cup {"fRead"}
                   ELSE shadowRam[a]]

\* setShadowFlags(): len bytes from an address on, cut off at the end of RAM, get
\* exactly these flags.
Permit(shadow, base, len, flags) ==
    [a \in Ram |-> IF a \in base .. base + len - 1 THEN flags ELSE shadow[a]]
=============================================================================
