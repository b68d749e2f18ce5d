----------------------------- MODULE MCDosFiles -----------------------------
(***************************************************************************)
(* Segments of four bytes, each of them a null, a dollar or a letter.  The *)
(* data segment is all of RAM, and the last byte of the extra segment lies *)
(* beyond it.                                                              *)
(***************************************************************************)
EXTENDS DosFiles

MCUses ==
    {{"open", "rename"}, {"mkdir", "print", "store"}, {"getcwd", "print"},
     {"read", "unlink"}, {"read", "write", "seek"}, {"open", "ioctl", "seek"}}

\* A buffer as malloc() may leave it, without a null.
MCGarbage == {[i \in Word |-> 2]}

MCFiles == {<<2, 0, 1>>}
MCDirectories == {<<2>>, <<2, 2>>, <<2, 2, 2>>}

\* A byte that may not be written or not be read, or neither.
Closed == {[a |-> 1, flags |-> {}], [a |-> 3, flags |-> {"fRead"}], [a |-> 2, flags |-> {"fWrite"}],
           [a |-> 0, flags |-> Flag]}

\* Any strings in memory; any data of two of the bytes where the call is about a file.
MCInit ==
    /\ sreg = [r \in Segs |-> IF r = "ES" THEN 1 ELSE 0]
    /\ ram \in [Ram -> Byte]
    /\ \E c \in Closed : shadowRam = [a \in Ram |-> IF a = c.a THEN c.flags ELSE Flag]
    /\ Init
    /\ uses \cap {"read", "ioctl"} # {} => ram[1] = ram[0] /\ ram[2] = 2
    /\ "write" \in uses => ram[0] = 2 /\ ram[3] = 2 /\ shadowRam[3] = {"fRead"}

\* Far positions are for those programs only that do not write.
MCNear == "write" \in uses => position <= 3

MCSpec == MCInit /\ [][Next]_filesVars
=============================================================================
