----------------------------- MODULE DosHandles -----------------------------
(***************************************************************************)
(* The file handles of a DOS program: handleSyscallDOS() of syscall-dos.c  *)
(* keeps fileDescriptors, a table from the program's handles to            *)
(* descriptors of the host, and doubles it when it is full.  The host is   *)
(* external: open() returns the lowest descriptor that is not in use.      *)
(*                                                                         *)
(* The new half of a table that has grown is not initialised, and an index *)
(* past its end is not checked: what is read there is anything in Garbage. *)
(* The contents of files are left out.                                     *)
(***************************************************************************)
EXTENDS Integers

CONSTANTS
    Files,      \* what a program may open
    HostLimit,  \* descriptors the host gives a process
    Garbage,    \* what memory that was not written may hold
    Passed,     \* the handles programs pass in BX
    MaxCount    \* bound: the table does not grow past it

Free  == -1         \* in the table: no file
Stdio == "stdio"    \* what descriptors 0..2 of the host are open on
None  == "none"     \* a descriptor that is closed, a handle that is not held

ASSUME HandlesAssumption ==
    /\ HostLimit \in Nat /\ HostLimit >= 3
    /\ Garbage \subseteq Int /\ Garbage # {}
    /\ MaxCount \in Nat /\ MaxCount >= 6
    /\ Passed \subseteq Nat
    /\ Stdio \notin Files /\ None \notin Files

VARIABLES
    fileDescriptors,        \* handle -> descriptor of the host, or Free
    fileDescriptorCount,    \* handles in the table
    host,                   \* descriptor -> what it is open on
    held,                   \* the program's view: handle -> what it opened
    misused,                \* it closed a handle it did not hold, and got away
    answer,                 \* of the last call
    status                  \* runtimeError() and exit end the process

vars == <<fileDescriptors, fileDescriptorCount, host, held, misused, answer, status>>

Handles  == 0 .. MaxCount - 1
HostFds  == 0 .. HostLimit - 1
HostOpen == {fd \in HostFds : host[fd] # None}

\* What the program reads in CF and AX.
Answers == {"done", "file not found", "invalid handle"}

TypeOK ==
    /\ fileDescriptorCount \in 6 .. MaxCount
    /\ fileDescriptors \in [0 .. fileDescriptorCount - 1 -> HostFds \cup Garbage \cup {Free}]
    /\ host \in [HostFds -> Files \cup {Stdio, None}]
    /\ held \in [Handles -> Files \cup {Stdio, None}]
    /\ misused \in BOOLEAN
    /\ answer \in Answers
    /\ status \in {"running", "ended"}

\* init(), at the first call: handles 3 and 4 (AUX and PRN) are stdout too.
Init ==
    /\ fileDescriptors = [h \in 0 .. 5 |-> IF h < 3 THEN h ELSE IF h < 5 THEN 1 ELSE Free]
    /\ fileDescriptorCount = 6
    /\ host = [fd \in HostFds |-> IF fd < 3 THEN Stdio ELSE None]
    /\ held = [h \in Handles |-> IF h < 5 THEN Stdio ELSE None]
    /\ misused = FALSE
    /\ answer = "done"
    /\ status = "running"

-----------------------------------------------------------------------------
(* getDescriptor(): the first free handle, or else the first of a new half.  *)

FreeHandles == {h \in 0 .. fileDescriptorCount - 1 : fileDescriptors[h] = Free}
FirstFree   == CHOOSE h \in FreeHandles : \A g \in FreeHandles : h <= g

\* Mutants: one entry short; the last handle is not copied.
Grown_Short(fd, junk) ==
    [h \in 0 .. 2 * fileDescriptorCount - 2 |->
        IF h < fileDescriptorCount THEN fileDescriptors[h]
        ELSE IF h = fileDescriptorCount THEN fd
        ELSE junk[h]]
Grown_DropsLast(fd, junk) ==
    [h \in 0 .. 2 * fileDescriptorCount - 1 |->
        IF h < fileDescriptorCount - 1 THEN fileDescriptors[h]
        ELSE IF h = fileDescriptorCount THEN fd
        ELSE junk[IF h < fileDescriptorCount THEN fileDescriptorCount + 1 ELSE h]]

\* The new table, its first new handle set.
Grown(fd, junk) ==
    [h \in 0 .. 2 * fileDescriptorCount - 1 |->
        IF h < fileDescriptorCount THEN fileDescriptors[h]
        ELSE IF h = fileDescriptorCount THEN fd
        ELSE junk[h]]

\* The program is given handle h for what it opens.
Give(h, file) ==
    /\ held' = [held EXCEPT ![h] = file]
    /\ answer' = "done"
    /\ UNCHANGED <<misused, status>>

\* The host's open() and creat().
HostFd == CHOOSE fd \in HostFds \ HostOpen : \A f \in HostFds \ HostOpen : fd <= f
HostOpens(fd, file) == host' = [host EXCEPT ![fd] = file]

OpenInTable(file) ==
    /\ status = "running"
    /\ HostOpen # HostFds
    /\ FreeHandles # {}
    /\ HostOpens(HostFd, file)
    /\ fileDescriptors' = [fileDescriptors EXCEPT ![FirstFree] = HostFd]
    /\ UNCHANGED fileDescriptorCount
    /\ Give(FirstFree, file)

OpenGrows(file) ==
    /\ status = "running"
    /\ HostOpen # HostFds
    /\ FreeHandles = {}
    /\ 2 * fileDescriptorCount <= MaxCount
    /\ HostOpens(HostFd, file)
    /\ \E junk \in [fileDescriptorCount + 1 .. 2 * fileDescriptorCount - 1 -> Garbage] :
         fileDescriptors' = Grown(HostFd, junk)
    /\ fileDescriptorCount' = 2 * fileDescriptorCount
    /\ Give(fileDescriptorCount, file)

\* ENOENT; dosError() ends the process on any other errno.
OpenFails ==
    /\ status = "running"
    /\ answer' = "file not found"
    /\ UNCHANGED <<fileDescriptors, fileDescriptorCount, host, held, misused, status>>

-----------------------------------------------------------------------------
(* The calls that take a handle in BX.                                       *)

\* What fileDescriptors[bx()] may read.
Read(h) == IF h < fileDescriptorCount THEN {fileDescriptors[h]} ELSE Garbage

Held(h)  == h < MaxCount /\ held[h] # None
Stray(h) == h < fileDescriptorCount /\ held[h] = None

\* Of any of them; error 6.
Refuse(h) ==
    /\ status = "running"
    /\ Free \in Read(h)
    /\ answer' = "invalid handle"
    /\ UNCHANGED <<fileDescriptors, fileDescriptorCount, host, held, misused, status>>

\* Mutant: off by one.
Closes_TooFew(fd) == fd > 5

\* Descriptors the host is asked to close; those of stdio must stay.
Closes(fd) == fd >= 5

\* A write past the end of the table reaches nothing that is modelled.
Close(h) ==
    /\ status = "running"
    /\ \E fd \in Read(h) \ {Free} :
         /\ Closes(fd) => fd \in HostOpen
         /\ host' = IF Closes(fd) THEN [host EXCEPT ![fd] = None] ELSE host
    /\ fileDescriptors' = [g \in DOMAIN fileDescriptors |->
                             IF g = h THEN Free ELSE fileDescriptors[g]]
    /\ held' = [g \in Handles |-> IF g = h THEN None ELSE held[g]]
    /\ misused' = (misused \/ ~Held(h))
    /\ answer' = "done"
    /\ UNCHANGED <<fileDescriptorCount, status>>

\* Read, write, seek and the IOCTL: the host's call must succeed.
Use(h) ==
    /\ status = "running"
    /\ Read(h) \cap HostOpen # {}
    /\ answer' = "done"
    /\ UNCHANGED <<fileDescriptors, fileDescriptorCount, host, held, misused, status>>

\* File time and date: made up, whatever the descriptor.
FileTime(h) ==
    /\ status = "running"
    /\ Read(h) # {Free}
    /\ answer' = "done"
    /\ UNCHANGED <<fileDescriptors, fileDescriptorCount, host, held, misused, status>>

-----------------------------------------------------------------------------

\* dosError() on a failure of the host, memory that may not be accessed, an
\* unknown call; or the exit call.
End ==
    /\ status = "running"
    /\ status' = "ended"
    /\ UNCHANGED <<fileDescriptors, fileDescriptorCount, host, held, misused, answer>>

Ended == status = "ended" /\ UNCHANGED vars

Next ==
    \/ \E file \in Files : OpenInTable(file) \/ OpenGrows(file)
    \/ OpenFails
    \/ \E h \in Passed :
         \/ Refuse(h) \/ Close(h) \/ Use(h) \/ FileTime(h)
    \/ End
    \/ Ended

Spec == Init /\ [][Next]_vars

-----------------------------------------------------------------------------
(* Properties.                                                               *)

\* Through opens, closes and the growth of the table, a handle reaches the
\* file it was given for and shares its descriptor with no other file, as long
\* as the program closes what it holds only; the three names of stdout reach
\* stdio.
HandleReachesItsFile ==
    ~misused =>
        \A h \in Handles : held[h] # None =>
            /\ h < fileDescriptorCount
            /\ fileDescriptors[h] \in HostOpen
            /\ host[fileDescriptors[h]] = held[h]
            /\ \A g \in Handles \ {h} :
                 held[h] \in Files /\ held[g] # None
                     => fileDescriptors[g] # fileDescriptors[h]

\* A program that opens and closes files for ever does not run out of
\* descriptors: what stays open on the host is reachable through a handle, but
\* for the two descriptors under the limit that close() spares.
NothingLeaked ==
    \A fd \in HostOpen :
        fd >= 5 => \E h \in 0 .. fileDescriptorCount - 1 : fileDescriptors[h] = fd

\* syscall-dos.c:209 ("Invalid handle"): a handle of the table that the program
\* does not hold is refused, never closed or used.
InvalidHandleRefused ==
    [][\A h \in Passed : Stray(h) => ~(Close(h) \/ Use(h) \/ FileTime(h))]_vars
=============================================================================
