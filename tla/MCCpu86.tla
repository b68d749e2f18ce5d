------------------------------ MODULE MCCpu86 ------------------------------
(***************************************************************************)
(* Small machines for Cpu86: 4-byte segments in 9 bytes of RAM.  Three     *)
(* bytes of code take every value and the fourth is a MOVSB, or all four   *)
(* are prefixes.  The code segment fills addresses 0..3, ES starts at 2,   *)
(* in the middle of the code, DS at 4, and SS at 6 runs past the end of    *)
(* RAM.  Code is writable or not; of the data, 5 is written before it can  *)
(* be read (the bss), 7 is not accessible.                                 *)
(***************************************************************************)
EXTENDS Cpu86

CONSTANTS
    Counts,     \* values of CX the runs start with
    Table       \* the opcodes, in the order of their bytes

MCDecode == [b \in Byte |-> Table[b + 1]]

I(name, n) == [op |-> name, width |-> n]

AllOpcodes ==
    << I("movs", 1), I("movs", 2), I("cmps", 1), I("stos", 1), I("stos", 2),
       I("lods", 1), I("lods", 2), I("scas", 2), I("repz", 1), I("repnz", 1),
       I("es", 1), I("ss", 1), I("std", 1), I("xlat", 1), I("load", 1),
       I("store", 1), I("loop", 1), I("loopnz", 1), I("jcxz", 1), I("cld", 1),
       I("invalid", 1) >>

Prefixes == {8, 9, 10, 11}
Programs == {<<b, c, d, 0>> : b, c, d \in Byte}
              \cup {<<b, c, d, e>> : b, c, d, e \in Prefixes}
Data     == <<10, 3, 10, 0, 1>>
DataFlag == <<{"fRead", "fWrite"}, {"fWrite"}, {"fRead", "fWrite"}, {}, {"fRead", "fWrite"}>>

MCInit ==
    /\ sreg = [ES |-> 1, CS |-> 0, SS |-> 3, DS |-> 2]
    /\ \E p \in Programs :
         ram = [a \in Ram |-> IF a < 4 THEN p[a + 1] ELSE Data[a - 3]]
    /\ \E code \in {{"fRead"}, {"fRead", "fWrite"}} :
         shadowRam = [a \in Ram |-> IF a < 4 THEN code ELSE DataFlag[a - 3]]
    /\ ip = 0 /\ ac = <<0, 3>> /\ bx = 0
    /\ cx \in Counts /\ si = 0 /\ di = 0
    /\ zf = FALSE /\ df = FALSE
    /\ Init

MCSpec == MCInit /\ [][Next]_vars /\ WF_vars(Next)
=============================================================================
