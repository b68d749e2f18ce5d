------------------------------ MODULE DosFiles ------------------------------
(***************************************************************************)
(* The file and directory calls of a DOS program (handleSyscallDOS() of    *)
(* syscall-dos.c), which hand the program's strings and data to the host by*)
(* way of two buffers: initString() copies between a buffer and the        *)
(* program's memory, byte by byte and with the checks of physicalAddress().*)
(* The buffers are never cleared, and neither is errno, which tells        *)
(* dosError() why a call of the host has failed.                           *)
(*                                                                         *)
(* The host is external: it carries out a call or does not, may transfer   *)
(* less than it was asked for, and has one open file; which handles reach  *)
(* which files is the subject of DosHandles.  The buffers hold WordMod     *)
(* bytes, 2^16 in the code.                                                *)
(***************************************************************************)
EXTENDS Memory86, HostFile

CONSTANTS
    Dollar,         \* what ends a string to print
    DeviceBit,      \* what says that a handle is a terminal, 0x80 in the code
    Uses,           \* sets of calls: those a program makes
    Garbage,        \* what a buffer of malloc() may hold
    Files,          \* the contents files may start with
    Directories,    \* the names of directories getcwd() may find itself in
    CwdSize,        \* the bytes it is given room for, 64 in the code
    Offsets,        \* what programs pass in DX, SI and DI
    Counts,         \* what they pass in CX, and in CX:DX for a seek
    MaxFile,        \* bound: the length of a file
    MaxPosition     \* bound: the position in it

DWordMod == WordMod * WordMod

ASSUME FilesAssumption ==
    /\ Dollar \in Byte \ {0}
    /\ DeviceBit \in Word
    /\ Garbage \subseteq [Word -> Byte] /\ Garbage # {}
    /\ Files \cup Directories \subseteq Seq(Byte)
    /\ \A d \in Directories : ~Contains(d, 0)
    /\ CwdSize \in 1 .. WordMod
    /\ Offsets \subseteq Word /\ Counts \subseteq 0 .. DWordMod - 1

\* A Word holds the error for a file that is not found, and the bounds the files.
ASSUME BoundsAssumption ==
    /\ 2 \in Word
    /\ MaxFile \in Nat /\ MaxPosition \in Nat /\ MaxFile <= MaxPosition
    /\ \A f \in Files : Len(f) <= MaxFile

VARIABLES
    pathBuffers,    \* the two buffers
    errno,          \* of the host's last call that failed
    file, position, \* of the file that is open
    passed,         \* the program's last call: AH, DX or SI, DI, and CX or CX:DX
    asked,          \* the strings the host has been given by it
    answer,         \* what the program finds in CF and AX, and in DX if it is set
    uses,
    status

filesVars == <<pathBuffers, errno, file, position, passed, asked, answer, uses, status, memoryVars>>

\* 39h, 3Ah, 3Bh, 3Ch, 3Dh and 41h; and 56h, 09h, 3Fh, 40h, 42h, 44h and 47h.
PathCalls == {"mkdir", "rmdir", "chdir", "creat", "open", "unlink"}
AH == PathCalls \cup {"none", "rename", "print", "read", "write", "seek", "ioctl", "getcwd", "store"}

Done(words) == [cf |-> FALSE, words |-> words]
NotFound    == [cf |-> TRUE, words |-> <<2>>]

TypeOK ==
    /\ MemoryTypeOK
    /\ pathBuffers \in [{0, 1} -> [Word -> Byte]]
    /\ errno \in {"none", "ENOENT", "ENOTTY", "EIO"}
    /\ file \in Seq(Byte) /\ Len(file) <= MaxFile /\ position \in 0 .. MaxPosition
    /\ passed.ah \in AH
    /\ asked \in Seq(Seq(Byte))
    /\ answer.cf \in BOOLEAN /\ answer.words \in Seq(Word)
    /\ status \in {"running", "ended"}

-----------------------------------------------------------------------------
(* initString().                                                             *)

\* The length of the string in a buffer, as the host and strchr() see it.
Nulls(b)   == {i \in DOMAIN b : b[i] = 0}
Least(S)   == CHOOSE i \in S : \A j \in S : i <= j
CString(b) == [i \in 1 .. (IF Nulls(b) = {} THEN WordMod ELSE Least(Nulls(b))) |-> b[i - 1]]

\* A byte of the program; of one that physicalAddress() refuses no value is used.
Cell(seg, off) ==
    IF Address(seg, off) < RamSize THEN ram[Address(seg, off)] ELSE 0

\* Mutant: a null ends every transfer.
Transferred_ToNull(bytes, source) ==
    IF Nulls(source) # {} /\ Least(Nulls(source)) < bytes
      THEN Least(Nulls(source)) + 1 ELSE bytes

\* The bytes the loop transfers: of a string, 0x10000 at most, up to and with its null.
Transferred(bytes, source) ==
    IF bytes = WordMod /\ Nulls(source) # {} THEN Least(Nulls(source)) + 1 ELSE bytes

\* The program's bytes from an address on.
Source(seg, off) == [i \in Word |-> Cell(seg, off + i)]
Readable(seg, off, bytes) == CanRead(seg, off, Transferred(bytes, Source(seg, off)))

\* Mutants: the null is put one too far, or not at all.
Filled_Beyond(buffer, seg, off, bytes) ==
    LET source == Source(seg, off)
    IN  [i \in 0 .. WordMod |-> IF i = WordMod THEN 0
                                ELSE IF i < Transferred(bytes, source) THEN source[i] ELSE buffer[i]]
Filled_Open(buffer, seg, off, bytes) ==
    LET source == Source(seg, off)
    IN  [i \in Word |-> IF i < Transferred(bytes, source) THEN source[i] ELSE buffer[i]]

\* A buffer filled with bytes of the program; its last byte becomes a null.
Filled(buffer, seg, off, bytes) ==
    LET source == Source(seg, off)
    IN  [i \in Word |-> IF i = WordMod - 1 THEN 0
                        ELSE IF i < Transferred(bytes, source) THEN source[i] ELSE buffer[i]]

\* From a buffer, as the host leaves it, to the program.
CopyOut(buffer, seg, off, bytes) ==
    LET n == Transferred(bytes, buffer)
    IN  /\ CanWrite(seg, off, n)
        /\ ram' = [a \in Ram |->
                     IF \E i \in 0 .. n - 1 : a = Address(seg, off + i)
                       THEN buffer[CHOOSE i \in 0 .. n - 1 : a = Address(seg, off + i)]
                       ELSE ram[a]]
        /\ shadowRam' = Granted(seg, off, n)

\* What read() or getcwd() makes of a buffer.
Received(buffer, bytes) ==
    [i \in Word |-> IF i < Len(bytes) THEN bytes[i + 1] ELSE buffer[i]]

-----------------------------------------------------------------------------
(* The calls.                                                                *)

Makes(ah, dx, di, cx) ==
    /\ status = "running"
    /\ ah \in uses
    /\ passed' = [ah |-> ah, dx |-> dx, di |-> di, cx |-> cx]
    /\ UNCHANGED <<sreg, uses, status>>

\* dosError() returns for this one only: the rest are in End.
HostDone(words) == answer' = Done(words) /\ UNCHANGED errno
HostLacks       == answer' = NotFound /\ errno' = "ENOENT"

\* A call that takes a path, or two.  An open or a creat also gives a handle.
PathCall(ah, dx) ==
    /\ Makes(ah, dx, 0, 0)
    /\ Readable("DS", dx, WordMod)
    /\ pathBuffers' = [pathBuffers EXCEPT ![0] = Filled(@, "DS", dx, WordMod)]
    /\ asked' = <<CString(pathBuffers'[0])>>
    /\ HostDone(<<>>) \/ HostLacks
    /\ UNCHANGED <<file, position, ram, shadowRam>>

\* The order of the two copies is left open by C; they do not meet.
Rename(dx, di) ==
    /\ Makes("rename", dx, di, 0)
    /\ Readable("DS", dx, WordMod) /\ Readable("ES", di, WordMod)
    /\ pathBuffers' = [pathBuffers EXCEPT ![0] = Filled(@, "DS", dx, WordMod),
                                          ![1] = Filled(@, "ES", di, WordMod)]
    /\ asked' = <<CString(pathBuffers'[0]), CString(pathBuffers'[1])>>
    /\ HostDone(<<>>) \/ HostLacks
    /\ UNCHANGED <<file, position, ram, shadowRam>>

Before(string, c) == SubSeq(string, 1, SelectInSeq(string, LAMBDA d : d = c) - 1)

\* AH=09h: strchr() looks no further than a null; CF and AX stay as they are.  What
\* write() returns is not looked at, but if it fails it leaves an errno.
PrintString(dx) ==
    /\ Makes("print", dx, 0, 0)
    /\ Readable("DS", dx, WordMod)
    /\ pathBuffers' = [pathBuffers EXCEPT ![0] = Filled(@, "DS", dx, WordMod)]
    /\ LET string == CString(pathBuffers'[0])
       IN  asked' = IF Contains(string, Dollar) THEN <<Before(string, Dollar)>> ELSE <<>>
    /\ errno' = errno \/ (asked' # <<>> /\ errno' = "EIO")
    /\ UNCHANGED <<answer, file, position, ram, shadowRam>>

\* The host reads into the buffer as much as it likes to; the program gets cx bytes
\* of the buffer, whatever is in it.
Read(dx, cx) ==
    /\ Makes("read", dx, 0, cx)
    /\ \E n \in 0 .. Len(ReadAt(file, position, cx)) :
         /\ pathBuffers' = [pathBuffers EXCEPT ![0] = Received(@, ReadAt(file, position, n))]
         /\ position' = position + n
         /\ HostDone(<<n>>)
    /\ CopyOut(pathBuffers'[0], "DS", dx, cx)
    /\ asked' = <<>>
    /\ UNCHANGED file

Write(dx, cx) ==
    /\ Makes("write", dx, 0, cx)
    /\ position + cx <= MaxFile
    /\ Readable("DS", dx, cx)
    /\ pathBuffers' = [pathBuffers EXCEPT ![0] = Filled(@, "DS", dx, cx)]
    /\ \E n \in 0 .. cx :
         /\ file' = WriteAt(file, position, [i \in 1 .. n |-> pathBuffers'[0][i - 1]])
         /\ position' = position + n
         /\ HostDone(<<n>>)
    /\ asked' = <<>>
    /\ UNCHANGED <<ram, shadowRam>>

\* lseek() by CX:DX, a signed number; what it returns is cut to a DWord, of which the
\* largest is taken for a failure, with the errno of an earlier one.
Signed(n) == IF n < DWordMod \div 2 THEN n ELSE n - DWordMod
Seek(cxdx, al) ==
    /\ Makes("seek", 0, al, cxdx)
    /\ position' = From(file, position, al) + Signed(cxdx)
    /\ position' \in 0 .. MaxPosition
    /\ LET data == position' % DWordMod
       IN  IF data # DWordMod - 1
             THEN HostDone(<<data % WordMod, data \div WordMod>>)
             ELSE errno = "ENOENT" /\ HostLacks
    /\ asked' = <<>>
    /\ UNCHANGED <<pathBuffers, file, ram, shadowRam>>

\* AH=44h, AL=00h: isatty() sets errno when it answers no.
IsTerminal(yes) ==
    /\ Makes("ioctl", 0, 0, 0)
    /\ answer' = Done(<<IF yes THEN DeviceBit ELSE 0>>)
    /\ errno' = IF yes THEN errno ELSE "ENOTTY"
    /\ asked' = <<>>
    /\ UNCHANGED <<pathBuffers, file, position, ram, shadowRam>>

\* getcwd() needs room for the null; the name may be that of a removed directory.
GetCwd(si, dir) ==
    /\ Makes("getcwd", si, 0, 0)
    /\ Len(dir) < CwdSize
    /\ pathBuffers' = [pathBuffers EXCEPT ![0] = Received(@, Append(dir, 0))]
    /\ CopyOut(pathBuffers'[0], "DS", si, WordMod)
    /\ HostDone(<<>>)
    /\ asked' = <<>>
    /\ UNCHANGED <<file, position>>
GetCwdFails ==
    /\ Makes("getcwd", 0, 0, 0)
    /\ HostLacks
    /\ asked' = <<>>
    /\ UNCHANGED <<pathBuffers, file, position, ram, shadowRam>>

\* The program stores a byte of its own.
StoreByte(off, b) ==
    /\ Makes("store", off, 0, b)
    /\ CanWrite("DS", off, 1)
    /\ Store("DS", off, <<b>>)
    /\ asked' = <<>>
    /\ UNCHANGED <<pathBuffers, errno, file, position, answer>>

\* dosError() on another failure of the host, memory that may not be accessed, an
\* unknown call; or the exit call.
End ==
    /\ status = "running"
    /\ status' = "ended"
    /\ UNCHANGED <<pathBuffers, errno, file, position, passed, asked, answer, uses, memoryVars>>
Ended == status = "ended" /\ UNCHANGED filesVars

\* init(), at the first call; the memory is as the program has made it.
Init ==
    /\ MemoryTypeOK
    /\ pathBuffers \in [{0, 1} -> Garbage]
    /\ errno = "none"
    /\ file \in Files /\ position = 0
    /\ passed = [ah |-> "none", dx |-> 0, di |-> 0, cx |-> 0] /\ asked = <<>>
    /\ answer = Done(<<>>)
    /\ uses \in Uses
    /\ status = "running"

Next ==
    \/ \E dx \in Offsets :
         \/ \E ah \in PathCalls : PathCall(ah, dx)
         \/ \E di \in Offsets : Rename(dx, di)
         \/ PrintString(dx)
         \/ \E cx \in Counts \cap Word : Read(dx, cx) \/ Write(dx, cx)
         \/ \E dir \in Directories : GetCwd(dx, dir)
         \/ \E b \in Byte : StoreByte(dx, b)
    \/ \E cxdx \in Counts, al \in 0 .. 2 : Seek(cxdx, al)
    \/ \E yes \in BOOLEAN : IsTerminal(yes)
    \/ GetCwdFails \/ End \/ Ended

Spec == Init /\ [][Next]_filesVars

-----------------------------------------------------------------------------
\* A path that the host is given, or a string that strchr() looks through, ends
\* inside its buffer, whatever the program passed and whatever the buffer held.
StringsEnd == \A i \in DOMAIN asked : Len(asked[i]) < WordMod

\* What the program asks for is what the host is asked for, and what the host transfers
\* is what the program gets: no call sees what an earlier one left in a buffer, but for
\* the bytes after a short read.
Api == INSTANCE DosApi WITH lastMissing <- errno = "ENOENT", ended <- status = "ended"
ImplementsDosApi == Api!Spec
=============================================================================
