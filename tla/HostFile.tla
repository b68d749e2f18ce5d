------------------------------ MODULE HostFile ------------------------------
(***************************************************************************)
(* A file of the host as read(), write() and lseek() treat it: a sequence  *)
(* of bytes, and a position that may lie beyond its end.                   *)
(***************************************************************************)
EXTENDS Integers, SequencesExt

\* What a read of at most n bytes returns, if the host is not short of anything.
ReadAt(file, pos, n) == SubSeq(file, pos + 1, IF pos + n < Len(file) THEN pos + n ELSE Len(file))

\* The file after a write; what lies between its end and the position is filled with 0.
WriteAt(file, pos, bytes) ==
    LET end == pos + Len(bytes)
    IN  IF bytes = <<>> THEN file
        ELSE [i \in 1 .. (IF end > Len(file) THEN end ELSE Len(file)) |->
                IF i \in pos + 1 .. end THEN bytes[i - pos]
                ELSE IF i <= Len(file) THEN file[i] ELSE 0]

\* Where SEEK_SET, SEEK_CUR and SEEK_END count from.
From(file, pos, whence) ==
    CASE whence = 0 -> 0 [] whence = 1 -> pos [] OTHER -> Len(file)
=============================================================================
