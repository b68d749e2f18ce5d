------------------------------ MODULE DosProofs ------------------------------
(***************************************************************************)
(* The handle table of a DOS program keeps its promises, for every number  *)
(* of files, every limit of the host, whatever unwritten memory holds and  *)
(* however often the table grows.                                          *)
(***************************************************************************)
EXTENDS DosHandles, WellFoundedInduction, TLAPS

LEMMA LowestExists ==
    ASSUME NEW S \in SUBSET Nat, S # {}
    PROVE  \E h \in S : \A g \in S : h <= g
<1>1. \E h \in S : \A g \in S : <<g, h>> \notin OpToRel(<, Nat)
  BY NatLessThanWellFounded, WFMin, Zenon
<1>2. \A g, h \in Nat : <<g, h>> \notin OpToRel(<, Nat) => h <= g
  BY DEF OpToRel
<1> QED
  BY <1>1, <1>2

\* getDescriptor() picks a free handle, the host a free descriptor.
LEMMA FirstFreeIsFree ==
    ASSUME TypeOK, FreeHandles # {}
    PROVE  FirstFree \in 0 .. fileDescriptorCount - 1 /\ fileDescriptors[FirstFree] = Free
<1>1. FreeHandles \in SUBSET Nat
  BY DEF FreeHandles
<1>2. FirstFree \in FreeHandles
  BY <1>1, LowestExists DEF FirstFree
<1> QED
  BY <1>2 DEF FreeHandles

LEMMA HostFdIsFree ==
    ASSUME HostOpen # HostFds
    PROVE  HostFd \in HostFds /\ HostFd \notin HostOpen
<1>1. HostFds \ HostOpen \in SUBSET Nat
  BY HandlesAssumption DEF HostFds
<1>2. HostFds \ HostOpen # {}
  BY DEF HostOpen
<1>3. HostFd \in HostFds \ HostOpen
  BY <1>1, <1>2, LowestExists DEF HostFd
<1> QED
  BY <1>3

-----------------------------------------------------------------------------

\* Every state is well typed: the table has as many handles as its count says,
\* and each holds a descriptor, nothing, or what was in unwritten memory.
THEOREM TypeCorrect == Spec => []TypeOK
<1>1. Init => TypeOK
  <2> SUFFICES ASSUME Init PROVE TypeOK
    OBVIOUS
  <2>1. fileDescriptorCount \in 6 .. MaxCount
    BY HandlesAssumption DEF Init
  <2>2. fileDescriptors \in [0 .. fileDescriptorCount - 1 -> HostFds \cup Garbage \cup {Free}]
    BY HandlesAssumption DEF Init, HostFds
  <2> QED
    BY <2>1, <2>2 DEF Init, TypeOK, Answers
<1>2. TypeOK /\ [Next]_vars => TypeOK'
  <2> SUFFICES ASSUME TypeOK, [Next]_vars PROVE TypeOK'
    OBVIOUS
  <2>1. ASSUME NEW file \in Files, OpenInTable(file) PROVE TypeOK'
    BY <2>1, FirstFreeIsFree, HostFdIsFree, HandlesAssumption
       DEF TypeOK, OpenInTable, HostOpens, Give, Handles, Answers
  <2>2. ASSUME NEW file \in Files, OpenGrows(file) PROVE TypeOK'
    <3>1. PICK junk \in [fileDescriptorCount + 1 .. 2 * fileDescriptorCount - 1 -> Garbage] :
            fileDescriptors' = Grown(HostFd, junk)
      BY <2>2 DEF OpenGrows
    <3>2. fileDescriptors' \in [0 .. fileDescriptorCount' - 1 -> HostFds \cup Garbage \cup {Free}]
      BY <2>2, <3>1, HostFdIsFree, HandlesAssumption DEF TypeOK, OpenGrows, Grown
    <3>3. fileDescriptorCount' \in 6 .. MaxCount
      BY <2>2, HandlesAssumption DEF TypeOK, OpenGrows
    <3>4. host' \in [HostFds -> Files \cup {Stdio, None}]
      BY <2>2, HostFdIsFree DEF TypeOK, OpenGrows, HostOpens
    <3>5. held' \in [Handles -> Files \cup {Stdio, None}]
      BY <2>2 DEF TypeOK, OpenGrows, Give
    <3> QED
      BY <2>2, <3>2, <3>3, <3>4, <3>5 DEF TypeOK, OpenGrows, Give, Answers
  <2>3. ASSUME NEW h \in Passed, Close(h) PROVE TypeOK'
    BY <2>3 DEF TypeOK, Close, Answers
  <2>4. ASSUME NEW h \in Passed, Refuse(h) \/ Use(h) \/ FileTime(h) PROVE TypeOK'
    BY <2>4 DEF TypeOK, Refuse, Use, FileTime, Answers
  <2>5. CASE OpenFails
    BY <2>5 DEF TypeOK, OpenFails, Answers
  <2>6. CASE End
    BY <2>6 DEF TypeOK, End
  <2>7. CASE UNCHANGED vars
    BY <2>7 DEF TypeOK, vars
  <2> QED
    BY <2>1, <2>2, <2>3, <2>4, <2>5, <2>6, <2>7 DEF Next, Ended
<1> QED
  BY <1>1, <1>2, PTL DEF Spec

\* A program that opens and closes files for ever does not run out of
\* descriptors of the host.
THEOREM NothingIsLeaked == Spec => []NothingLeaked
<1>1. Init => NothingLeaked
  BY HandlesAssumption DEF Init, NothingLeaked, HostOpen, HostFds
<1>2. TypeOK /\ NothingLeaked /\ [Next]_vars => NothingLeaked'
  <2> SUFFICES ASSUME TypeOK, NothingLeaked, [Next]_vars PROVE NothingLeaked'
    OBVIOUS
  <2>0. \A h : Free \notin HostFds
    BY HandlesAssumption DEF Free, HostFds
  <2>1. ASSUME NEW file \in Files, OpenInTable(file) PROVE NothingLeaked'
    <3> SUFFICES ASSUME NEW fd \in HostOpen', fd >= 5
                 PROVE  \E h \in 0 .. fileDescriptorCount' - 1 : fileDescriptors'[h] = fd
      BY DEF NothingLeaked
    <3>1. fd \in HostFds /\ (fd \in HostOpen \/ fd = HostFd)
      BY <2>1 DEF OpenInTable, HostOpens, HostOpen, TypeOK
    <3>2. CASE fd = HostFd
      BY <2>1, <3>2, FirstFreeIsFree DEF OpenInTable, TypeOK
    <3>3. CASE fd \in HostOpen
      <4>1. PICK h \in 0 .. fileDescriptorCount - 1 : fileDescriptors[h] = fd
        BY <3>3 DEF NothingLeaked
      <4>2. h # FirstFree
        BY <2>0, <2>1, <3>1, <4>1, FirstFreeIsFree DEF OpenInTable
      <4> QED
        BY <2>1, <4>1, <4>2 DEF OpenInTable, TypeOK
    <3> QED
      BY <3>1, <3>2, <3>3
  <2>2. ASSUME NEW file \in Files, OpenGrows(file) PROVE NothingLeaked'
    <3> SUFFICES ASSUME NEW fd \in HostOpen', fd >= 5
                 PROVE  \E h \in 0 .. fileDescriptorCount' - 1 : fileDescriptors'[h] = fd
      BY DEF NothingLeaked
    <3>1. fd \in HostOpen \/ fd = HostFd
      BY <2>2 DEF OpenGrows, HostOpens, HostOpen, TypeOK
    <3>2. CASE fd = HostFd
      <4>1. fileDescriptors'[fileDescriptorCount] = HostFd
        BY <2>2 DEF OpenGrows, Grown, TypeOK
      <4> QED
        BY <2>2, <3>2, <4>1 DEF OpenGrows, TypeOK
    <3>3. CASE fd \in HostOpen
      <4>1. PICK h \in 0 .. fileDescriptorCount - 1 : fileDescriptors[h] = fd
        BY <3>3 DEF NothingLeaked
      <4>2. h \in 0 .. fileDescriptorCount' - 1 /\ fileDescriptors'[h] = fileDescriptors[h]
        BY <2>2, <4>1 DEF OpenGrows, Grown, TypeOK
      <4> QED
        BY <4>1, <4>2
    <3> QED
      BY <3>1, <3>2, <3>3
  <2>3. ASSUME NEW h \in Passed, Close(h) PROVE NothingLeaked'
    <3> SUFFICES ASSUME NEW fd \in HostOpen', fd >= 5
                 PROVE  \E g \in 0 .. fileDescriptorCount' - 1 : fileDescriptors'[g] = fd
      BY DEF NothingLeaked
    <3>1. PICK closed \in Read(h) \ {Free} :
            host' = IF Closes(closed) THEN [host EXCEPT ![closed] = None] ELSE host
      BY <2>3 DEF Close
    <3>2. fd \in HostOpen /\ fd \in HostFds /\ fd # closed
      BY <3>1 DEF HostOpen, Closes, TypeOK
    <3>3. PICK g \in 0 .. fileDescriptorCount - 1 : fileDescriptors[g] = fd
      BY <3>2 DEF NothingLeaked
    <3>4. g # h
      <4>1. h = g => Read(h) = {fd}
        BY <3>3, HandlesAssumption DEF Read, TypeOK
      <4> QED
        BY <3>1, <3>2, <4>1
    <3> QED
      BY <2>3, <3>3, <3>4 DEF Close, TypeOK
  <2>4. CASE UNCHANGED <<fileDescriptors, fileDescriptorCount, host>>
    BY <2>4 DEF NothingLeaked, HostOpen
  <2> QED
    BY <2>1, <2>2, <2>3, <2>4
       DEF Next, Ended, vars, Refuse, Use, FileTime, OpenFails, End
<1> QED
  BY <1>1, <1>2, TypeCorrect, PTL DEF Spec

-----------------------------------------------------------------------------
(* The handles a program holds.  Only the three standard descriptors are     *)
(* open on stdio, so closing one of its names does not touch the others.     *)

StdioIsStandard == \A fd \in HostFds : host[fd] = Stdio => fd < 3

\* What HandleReachesItsFile says of one handle.
Reaches(h) ==
    /\ h < fileDescriptorCount
    /\ fileDescriptors[h] \in HostOpen
    /\ host[fileDescriptors[h]] = held[h]
Alone(h) ==
    \A g \in Handles \ {h} :
        held[h] \in Files /\ held[g] # None => fileDescriptors[g] # fileDescriptors[h]

LEMMA ByHandle ==
    HandleReachesItsFile <=>
        (~misused => \A h \in Handles : held[h] # None => Reaches(h) /\ Alone(h))
  BY Zenon DEF HandleReachesItsFile, Reaches, Alone

LEMMA StdioStaysStandard ==
    ASSUME TypeOK, StdioIsStandard, [Next]_vars
    PROVE  StdioIsStandard'
<1>1. ASSUME NEW file \in Files, OpenInTable(file) \/ OpenGrows(file) PROVE StdioIsStandard'
  BY <1>1, HostFdIsFree, HandlesAssumption
     DEF StdioIsStandard, TypeOK, OpenInTable, OpenGrows, HostOpens
<1>2. ASSUME NEW h \in Passed, Close(h) PROVE StdioIsStandard'
  BY <1>2 DEF StdioIsStandard, TypeOK, Close, Stdio, None
<1>3. CASE UNCHANGED host
  BY <1>3 DEF StdioIsStandard
<1> QED
  BY <1>1, <1>2, <1>3 DEF Next, Ended, vars, Refuse, Use, FileTime, OpenFails, End

\* A file is opened into handle h, which was not held, on a descriptor that was
\* closed; the other handles keep theirs.
LEMMA OpeningKeepsHandles ==
    ASSUME TypeOK, HandleReachesItsFile, HostOpen # HostFds,
           NEW file \in Files, NEW h \in Handles,
           held[h] = None \/ misused,
           HostOpens(HostFd, file), Give(h, file),
           h < fileDescriptorCount', fileDescriptorCount <= fileDescriptorCount',
           fileDescriptorCount' \in Nat,
           fileDescriptors'[h] = HostFd,
           \A g \in (0 .. fileDescriptorCount - 1) \ {h} :
               fileDescriptors'[g] = fileDescriptors[g]
    PROVE  HandleReachesItsFile'
<1> SUFFICES ASSUME ~misused', NEW g \in Handles, held'[g] # None
             PROVE  Reaches(g)' /\ Alone(g)'
  BY Zenon DEF HandleReachesItsFile, Reaches, Alone
<1>1. HostFd \in HostFds /\ HostFd \notin HostOpen
  BY HostFdIsFree
<1>2. /\ host' = [host EXCEPT ![HostFd] = file]
      /\ held' = [held EXCEPT ![h] = file]
      /\ ~misused
  BY DEF HostOpens, Give
<1>3. HostOpen' = HostOpen \cup {HostFd}
  BY <1>1, <1>2, HandlesAssumption DEF HostOpen, TypeOK
<1>4. ASSUME NEW k \in Handles \ {h}, held'[k] # None
      PROVE  /\ k < fileDescriptorCount
             /\ fileDescriptors'[k] = fileDescriptors[k]
             /\ fileDescriptors[k] \in HostOpen /\ fileDescriptors[k] # HostFd
             /\ held'[k] = held[k]
             /\ held[k] # None
             /\ Reaches(k) /\ Alone(k)
  <2>1. held'[k] = held[k] /\ held[k] # None
    BY <1>2, <1>4 DEF TypeOK
  <2>2. Reaches(k) /\ Alone(k)
    BY <1>2, <2>1, ByHandle
  <2>3. k \in (0 .. fileDescriptorCount - 1) \ {h}
    BY <2>2 DEF Reaches, Handles, TypeOK
  <2> QED
    BY <1>1, <2>1, <2>2, <2>3 DEF Reaches
<1>5. CASE g = h
  <2>1. Reaches(g)'
    BY <1>1, <1>2, <1>3, <1>5 DEF Reaches, TypeOK
  <2>2. Alone(g)'
    BY <1>4, <1>5 DEF Alone
  <2> QED
    BY <2>1, <2>2
<1>6. CASE g # h
  <2>0. g \in Handles \ {h}
    BY <1>6
  <2>1. Reaches(g)'
    <3>1. g < fileDescriptorCount'
      BY <1>4, <2>0 DEF TypeOK, Handles
    <3>2. host'[fileDescriptors[g]] = host[fileDescriptors[g]]
      BY <1>2, <1>4, <2>0 DEF HostOpen, TypeOK
    <3> QED
      BY <1>3, <1>4, <2>0, <3>1, <3>2 DEF Reaches
  <2>2. Alone(g)'
    <3> SUFFICES ASSUME NEW k \in Handles \ {g}, held'[g] \in Files, held'[k] # None
                 PROVE  fileDescriptors'[k] # fileDescriptors'[g]
      BY DEF Alone
    <3>1. CASE k = h
      BY <1>4, <2>0, <3>1
    <3>2. CASE k # h
      BY <1>4, <2>0, <3>2 DEF Alone
    <3> QED
      BY <3>1, <3>2
  <2> QED
    BY <2>1, <2>2
<1> QED
  BY <1>5, <1>6

\* The handle closed is held: no other handle loses its descriptor.
LEMMA ClosingKeepsOthers ==
    ASSUME TypeOK, StdioIsStandard, HandleReachesItsFile, NEW h \in Passed, Close(h)
    PROVE  HandleReachesItsFile'
<1> SUFFICES ASSUME ~misused', NEW g \in Handles, held'[g] # None
             PROVE  Reaches(g)' /\ Alone(g)'
  BY Zenon DEF HandleReachesItsFile, Reaches, Alone
<1>1. h \in Handles /\ held[h] # None /\ ~misused
  <2>1. misused' = (misused \/ ~Held(h))
    BY Zenon DEF Close
  <2>2. Held(h) /\ ~misused
    BY <2>1, Zenon
  <2> QED
    BY <2>2, HandlesAssumption DEF Held, Handles
<1>2. Reaches(h) /\ Alone(h)
  BY <1>1, ByHandle
<1>3. Read(h) = {fileDescriptors[h]}
  BY <1>2 DEF Reaches, Read
<1>4. /\ host' = IF Closes(fileDescriptors[h])
                   THEN [host EXCEPT ![fileDescriptors[h]] = None] ELSE host
      /\ fileDescriptorCount' = fileDescriptorCount
  BY <1>3 DEF Close
<1>5. ASSUME NEW k \in Handles, held'[k] # None
      PROVE  /\ k # h
             /\ held'[k] = held[k] /\ held[k] # None
             /\ fileDescriptors'[k] = fileDescriptors[k]
             /\ Reaches(k) /\ Alone(k)
  <2>1. k # h /\ held'[k] = held[k] /\ held[k] # None
    BY <1>5 DEF Close
  <2>2. Reaches(k) /\ Alone(k)
    BY <1>1, <2>1, ByHandle
  <2>3. fileDescriptors'[k] = fileDescriptors[k]
    BY <2>1, <2>2 DEF Close, Reaches, TypeOK, Handles
  <2> QED
    BY <2>1, <2>2, <2>3
<1>6. Closes(fileDescriptors[h]) => fileDescriptors[g] # fileDescriptors[h]
  <2> SUFFICES ASSUME fileDescriptors[h] >= 5 PROVE fileDescriptors[g] # fileDescriptors[h]
    BY DEF Closes
  <2>1. CASE held[h] \in Files
    BY <1>2, <1>5, <2>1 DEF Alone
  <2>2. CASE held[h] = Stdio
    BY <1>2, <2>2, HandlesAssumption DEF Reaches, StdioIsStandard, HostOpen, HostFds
  <2> QED
    BY <1>1, <2>1, <2>2 DEF TypeOK
<1>7. Reaches(g)'
  <2>1. host'[fileDescriptors[g]] = host[fileDescriptors[g]]
    BY <1>4, <1>5, <1>6 DEF TypeOK, Reaches, HostOpen
  <2> QED
    BY <1>4, <1>5, <2>1 DEF Reaches, HostOpen
<1>8. Alone(g)'
  BY <1>5 DEF Alone
<1> QED
  BY <1>7, <1>8

\* A handle reaches the file it was given for, and no other handle does,
\* through every open, close and growth of the table.
THEOREM HandlesReachTheirFiles == Spec => []HandleReachesItsFile
<1> DEFINE Inv == StdioIsStandard /\ HandleReachesItsFile
<1>1. Init => Inv
  <2> SUFFICES ASSUME Init PROVE Inv
    OBVIOUS
  <2>1. StdioIsStandard
    BY DEF Init, StdioIsStandard, Stdio, None
  <2>2. ASSUME NEW h \in Handles, held[h] # None PROVE Reaches(h) /\ Alone(h)
    BY <2>2, HandlesAssumption
       DEF Init, Reaches, Alone, HostOpen, HostFds, Handles, Stdio, None
  <2> QED
    BY <2>1, <2>2, ByHandle
<1>2. TypeOK /\ Inv /\ [Next]_vars => Inv'
  <2> SUFFICES ASSUME TypeOK, StdioIsStandard, HandleReachesItsFile, [Next]_vars
               PROVE  HandleReachesItsFile'
    BY StdioStaysStandard
  <2>1. ASSUME NEW file \in Files, OpenInTable(file) PROVE HandleReachesItsFile'
    <3>1. HostOpen # HostFds /\ FreeHandles # {}
          /\ HostOpens(HostFd, file) /\ Give(FirstFree, file)
          /\ fileDescriptorCount' = fileDescriptorCount
          /\ fileDescriptors' = [fileDescriptors EXCEPT ![FirstFree] = HostFd]
      BY <2>1 DEF OpenInTable
    <3>2. FirstFree \in 0 .. fileDescriptorCount - 1 /\ fileDescriptors[FirstFree] = Free
      BY <3>1, FirstFreeIsFree
    <3>3. FirstFree \in Handles
      BY <3>2, HandlesAssumption DEF TypeOK, Handles
    <3>4. held[FirstFree] = None \/ misused
      BY <3>2, <3>3, ByHandle, HandlesAssumption DEF Reaches, HostOpen, HostFds, Free
    <3>5. fileDescriptors'[FirstFree] = HostFd
          /\ \A g \in (0 .. fileDescriptorCount - 1) \ {FirstFree} :
                fileDescriptors'[g] = fileDescriptors[g]
      BY <3>1, <3>2 DEF TypeOK
    <3>6. FirstFree < fileDescriptorCount' /\ fileDescriptorCount <= fileDescriptorCount'
          /\ fileDescriptorCount' \in Nat
      BY <3>1, <3>2, HandlesAssumption DEF TypeOK
    <3> HIDE DEF FirstFree
    <3> QED
      BY <3>1, <3>3, <3>4, <3>5, <3>6, OpeningKeepsHandles
  <2>2. ASSUME NEW file \in Files, OpenGrows(file) PROVE HandleReachesItsFile'
    <3>1. HostOpen # HostFds /\ HostOpens(HostFd, file) /\ Give(fileDescriptorCount, file)
          /\ fileDescriptorCount' = 2 * fileDescriptorCount
          /\ 2 * fileDescriptorCount <= MaxCount
      BY <2>2 DEF OpenGrows
    <3>2. fileDescriptorCount \in Handles
      BY <3>1, HandlesAssumption DEF TypeOK, Handles
    <3>3. held[fileDescriptorCount] = None \/ misused
      BY <3>2, ByHandle DEF Reaches, TypeOK
    <3>4. fileDescriptors'[fileDescriptorCount] = HostFd
          /\ \A g \in (0 .. fileDescriptorCount - 1) \ {fileDescriptorCount} :
                fileDescriptors'[g] = fileDescriptors[g]
      BY <2>2 DEF OpenGrows, Grown, TypeOK
    <3>5. fileDescriptorCount < fileDescriptorCount'
          /\ fileDescriptorCount <= fileDescriptorCount' /\ fileDescriptorCount' \in Nat
      BY <3>1, HandlesAssumption DEF TypeOK
    <3> QED
      BY <3>1, <3>2, <3>3, <3>4, <3>5, OpeningKeepsHandles
  <2>3. ASSUME NEW h \in Passed, Close(h) PROVE HandleReachesItsFile'
    BY <2>3, ClosingKeepsOthers
  <2>4. CASE UNCHANGED <<fileDescriptors, fileDescriptorCount, host, held, misused>>
    BY <2>4 DEF HandleReachesItsFile, HostOpen
  <2> QED
    BY <2>1, <2>2, <2>3, <2>4
       DEF Next, Ended, vars, Refuse, Use, FileTime, OpenFails, End
<1> QED
  BY <1>1, <1>2, TypeCorrect, PTL DEF Spec
=============================================================================
