------------------------------- MODULE DosApi -------------------------------
(***************************************************************************)
(* What the file and directory calls promise a DOS program: they work on   *)
(* the strings and the data in its memory and on the file, with nothing in *)
(* between.  The host may always fail, and that ends the program unless    *)
(* something was not found.                                                *)
(***************************************************************************)
EXTENDS Memory86, HostFile

CONSTANTS Dollar, DeviceBit, CwdSize, Directories

VARIABLES passed, file, position, asked, answer, lastMissing, ended

apiVars == <<passed, file, position, asked, answer, lastMissing, ended, memoryVars>>

Init == ~ended

DWordMod == WordMod * WordMod
Signed(n) == IF n < DWordMod \div 2 THEN n ELSE n - DWordMod

\* The program makes a call, with what it passes in registers.
Calls(ah) == ~ended /\ ~ended' /\ passed'.ah = ah
dx == passed'.dx
di == passed'.di
cx == passed'.cx

\* The program's memory from DX on.
At(off)    == ram[Address("DS", off)]
After(off) == ram'[Address("DS", off)]
Changes(n) ==
    /\ \A a \in Ram \ Span("DS", dx, n) : ram'[a] = ram[a]
    /\ shadowRam' = Granted("DS", dx, n)
    /\ UNCHANGED sreg

\* A string in memory that can be read ends before a null, or with the last byte but one
\* of its segment.
IsString(s, seg, off) ==
    LET n == Len(s)
        Nth(i) == ram[Address(seg, off + i - 1)]
    IN  /\ CanRead(seg, off, n) /\ \A i \in 1 .. n : s[i] = Nth(i) /\ s[i] # 0
        /\ n = WordMod - 1 \/ (CanRead(seg, off, n + 1) /\ Nth(n + 1) = 0)

Answers(cf, words) == answer' = [cf |-> cf, words |-> words]
Succeeds(words) == Answers(FALSE, words) /\ UNCHANGED lastMissing
Missing == Answers(TRUE, <<2>>) /\ lastMissing'

PathCall(ah) ==
    /\ Calls(ah)
    /\ Len(asked') = 1 /\ IsString(asked'[1], "DS", dx)
    /\ Succeeds(<<>>) \/ Missing
    /\ UNCHANGED <<file, position, memoryVars>>

Rename ==
    /\ Calls("rename")
    /\ Len(asked') = 2 /\ IsString(asked'[1], "DS", dx) /\ IsString(asked'[2], "ES", di)
    /\ Succeeds(<<>>) \/ Missing
    /\ UNCHANGED <<file, position, memoryVars>>

\* Up to the first dollar, if it comes before a null; otherwise nothing.
PrintString ==
    /\ Calls("print")
    /\ \E n \in 0 .. WordMod - 1 : \E s \in [1 .. n -> Byte] :
         /\ IsString(s, "DS", dx)
         /\ \/ ~Contains(s, Dollar) /\ asked' = <<>>
            \/ \E i \in 1 .. n : /\ s[i] = Dollar /\ ~Contains(SubSeq(s, 1, i - 1), Dollar)
                                 /\ asked' = <<SubSeq(s, 1, i - 1)>>
    /\ UNCHANGED lastMissing \/ ~lastMissing'
    /\ UNCHANGED <<file, position, answer, memoryVars>>

\* The first bytes are those of the file; the rest of the CX bytes can be anything.
Read ==
    /\ Calls("read")
    /\ \E n \in 0 .. cx :
         /\ Succeeds(<<n>>)
         /\ position' = position + n
         /\ n = 0 \/ position' <= Len(file)
         /\ \A i \in 1 .. n : After(dx + i - 1) = file[position + i]
    /\ Changes(cx)
    /\ asked' = <<>>
    /\ UNCHANGED file

Write ==
    /\ Calls("write")
    /\ \E n \in 0 .. cx :
         /\ Succeeds(<<n>>)
         /\ position' = position + n
         /\ file' = WriteAt(file, position, [i \in 1 .. n |-> At(dx + i - 1)])
    /\ asked' = <<>>
    /\ UNCHANGED memoryVars

\* The answer is the position, modulo 2^32.  At one position it is that something was not
\* found, if that has been the last failure; the file is at that position all the same.
Seek ==
    /\ Calls("seek")
    /\ position' = From(file, position, di) + Signed(cx)
    /\ position' \in Nat
    /\ LET cut == position' % DWordMod
       IN  \/ cut # DWordMod - 1 /\ Succeeds(<<cut % WordMod, cut \div WordMod>>)
           \/ cut = DWordMod - 1 /\ lastMissing /\ Missing
    /\ asked' = <<>>
    /\ UNCHANGED <<file, memoryVars>>

IsTerminal ==
    /\ Calls("ioctl")
    /\ \/ Answers(FALSE, <<DeviceBit>>) /\ UNCHANGED lastMissing
       \/ Answers(FALSE, <<0>>) /\ ~lastMissing'
    /\ asked' = <<>>
    /\ UNCHANGED <<file, position, memoryVars>>

\* The name of a directory and a null.
GetCwd ==
    /\ Calls("getcwd")
    /\ \/ \E dir \in Directories :
            /\ Len(dir) < CwdSize
            /\ Succeeds(<<>>)
            /\ Changes(Len(dir) + 1)
            /\ \A i \in 1 .. Len(dir) + 1 : After(dx + i - 1) = Append(dir, 0)[i]
       \/ Missing /\ UNCHANGED memoryVars
    /\ asked' = <<>>
    /\ UNCHANGED <<file, position>>

StoreByte ==
    /\ Calls("store")
    /\ Changes(1)
    /\ asked' = <<>>
    /\ UNCHANGED <<file, position, answer, lastMissing>>

End ==
    /\ ~ended /\ ended'
    /\ UNCHANGED <<passed, file, position, asked, answer, lastMissing, memoryVars>>

Next ==
    \/ \E ah \in {"mkdir", "rmdir", "chdir", "creat", "open", "unlink"} : PathCall(ah)
    \/ Rename \/ PrintString \/ Read \/ Write \/ Seek \/ IsTerminal \/ GetCwd \/ StoreByte \/ End

Spec == Init /\ [][Next]_apiVars
=============================================================================
